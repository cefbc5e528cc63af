------------------------- MODULE ProcPktThread_proofs -------------------------
(* Theorems about ProcPktThread, for every value of its constants.         *)
EXTENDS ProcPktThread, SequenceTheorems, TLAPS

USE ProcAssumption

-----------------------------------------------------------------------------
(* Lemmas about the operators.                                             *)

(* The parity of an ordinal tells an id from a payload.                    *)
LEMMA OrdinalKind ==
  ASSUME NEW e \in Entries \cup {NoEntry}, NEW n \in Nat
  PROVE  /\ Ordinal(e) = 2 * n + 1 => e.kind = "id" /\ e.pkt = n + 1
         /\ Ordinal(e) = 2 * n + 2 => e.kind = "payload" /\ e.pkt = n + 1
<1>1. CASE e \in Entries
  <2>1. e.pkt \in Nat /\ e.kind \in {"id", "payload"}
    BY <1>1 DEF Entries
  <2>2. CASE e.kind = "id"
    BY <2>1, <2>2 DEF Ordinal
  <2>3. CASE e.kind = "payload"
    BY <2>1, <2>3 DEF Ordinal
  <2>4. QED
    BY <2>1, <2>2, <2>3
<1>2. CASE e = NoEntry
  <2>1. Ordinal(e) = 0
    BY <1>2 DEF Ordinal, NoEntry
  <2>2. QED
    BY <2>1
<1>3. QED
  BY <1>1, <1>2

(* An empty queue holds no bytes.                                          *)
LEMMA BytesEmpty == Bytes(<<>>) = 0
<1> DEFINE rec(f) == [i \in 0..Len(<<>>) |->
                        IF i = 0 THEN 0
                        ELSE f[i - 1] + HeaderLen + EntryLen(<<>>[i])]
           upto == CHOOSE f : f = rec(f)
<1>1. rec([i \in 0..0 |-> 0]) = [i \in 0..0 |-> 0]
  OBVIOUS
<1>2. upto = rec(upto)
  <2> HIDE DEF rec
  <2>1. \E f : f = rec(f)
    BY <1>1, Zenon
  <2>2. QED
    BY <2>1, Zenon
<1>3. upto[0] = 0
  BY <1>2
<1>4. Bytes(<<>>) = upto[Len(<<>>)]
  BY Zenon DEF Bytes
<1>5. QED
  BY <1>3, <1>4

-----------------------------------------------------------------------------
(* Every variable of the queue and its thread keeps to its type, whoever   *)
(* is fair.                                                                *)
LEMMA TypesKept == SafeSpec => []TypeOK
<1>1. Init => TypeOK
  <2> SUFFICES ASSUME Init PROVE TypeOK
    OBVIOUS
  <2>1. recv_blocking \in BOOLEAN /\ crashed \in BOOLEAN /\ misread \in BOOLEAN
    BY Zenon DEF Init
  <2>2. <<>> \in Seq(Entries) /\ <<>> \in Seq(Packets) /\ <<>> \in Seq(Messages)
    OBVIOUS
  <2>3. QED
    BY <2>1, <2>2 DEF Init, TypeOK
<1>2. TypeOK /\ [Next]_vars => TypeOK'
  <2> SUFFICES ASSUME TypeOK, [Next]_vars PROVE TypeOK'
    OBVIOUS
  <2> USE DEF TypeOK
  <2>1. ASSUME NEW c \in ClientIds, NEW p \in Payloads, ReadPkt(c, p)
        PROVE  TypeOK'
    <3>1. [client_id |-> c, payload |-> p] \in Packets
      BY DEF Packets
    <3>2. Len(received') = Len(received) + 1 /\ received' # <<>>
      BY <2>1, <3>1 DEF ReadPkt
    <3>3. QED
      BY <2>1, <3>1, <3>2 DEF ReadPkt, thread_vars
  <2>2. CASE PushFits
    <3>1. Pushed \in Entries
      BY <2>2 DEF PushFits, Pushed, Entries
    <3>2. QED
      BY <2>2, <3>1 DEF PushFits, Signal, PushReturned, thread_vars
  <2>3. CASE PushDropped
    <3>1. Pushed \in Entries
      BY <2>3 DEF PushDropped, Pushed, Entries
    <3>2. QED
      BY <2>3, <3>1 DEF PushDropped, Signal, PushReturned, thread_vars
  <2>4. CASE PushRefused
    BY <2>4 DEF PushRefused, Signal, thread_vars, push_vars
  <2>5. CASE Wait
    BY <2>5 DEF Wait, thread_vars, push_vars
  <2>6. CASE PopId
    <3>1. misread' \in BOOLEAN /\ crashed' \in BOOLEAN
      BY <2>6, Zenon DEF PopId
    <3>2. QED
      BY <2>6, <3>1 DEF PopId, PopString, Popped, push_vars
  <2>7. CASE PopPayload
    <3>1. misread' \in BOOLEAN
      BY <2>7, Zenon DEF PopPayload
    <3>2. QED
      BY <2>7, <3>1 DEF PopPayload, PopString, Popped, push_vars
  <2>8. CASE OnMessage
    <3>1. [id |-> client_id, payload |-> payload] \in Messages
      BY DEF Messages
    <3>2. QED
      BY <2>8, <3>1 DEF OnMessage, push_vars
  <2>9. CASE SpuriousWakeup
    BY <2>9 DEF SpuriousWakeup, thread_vars, push_vars
  <2>10. CASE UNCHANGED vars
    BY <2>10 DEF vars, thread_vars, push_vars
  <2>11. QED
    BY <2>1, <2>2, <2>3, <2>4, <2>5, <2>6, <2>7, <2>8, <2>9, <2>10
       DEF Next, push_pkt_queue, run
<1>3. QED
  BY <1>1, <1>2, PTL DEF SafeSpec

(* Every variable of the queue and its thread keeps to its type.           *)
THEOREM TypeCorrect == Spec => []TypeOK
BY TypesKept, PTL DEF Spec

-----------------------------------------------------------------------------
(* A step that leaves the packet thread asleep leaves the queue as it was: *)
(* a push signals whatever becomes of its entry, and a pop wakes up first. *)
(* If the thread fell asleep in this very step, it found the queue empty.  *)
LEMMA AsleepAfterStep ==
  ASSUME [Next]_vars, waiter' = "waiting"
  PROVE  /\ user_data_queue' = user_data_queue
         /\ waiter = "waiting" \/ user_data_queue = <<>>
<1>1. ~push_pkt_queue
  BY DEF push_pkt_queue, PushFits, PushDropped, PushRefused, Signal
<1>2. ~PopId /\ ~PopPayload /\ ~SpuriousWakeup
  BY DEF PopId, PopPayload, SpuriousWakeup
<1>3. ASSUME \/ UNCHANGED vars
             \/ OnMessage
             \/ \E c \in ClientIds, p \in Payloads : ReadPkt(c, p)
      PROVE  UNCHANGED <<user_data_queue, waiter>>
  BY <1>3 DEF vars, OnMessage, ReadPkt
<1>4. Wait => UNCHANGED user_data_queue /\ user_data_queue = <<>>
  BY DEF Wait
<1>5. QED
  BY <1>1, <1>2, <1>3, <1>4 DEF Next, run

(* The packet thread never sleeps beside a queue that holds something.     *)
THEOREM NoLostWakeupAlways == Spec => []NoLostWakeup
<1>1. NoLostWakeup /\ [Next]_vars => NoLostWakeup'
  BY AsleepAfterStep DEF NoLostWakeup
<1>2. Init => NoLostWakeup
  BY DEF Init, NoLostWakeup
<1>3. QED
  BY <1>2, <1>1, PTL DEF SafeSpec, Spec

-----------------------------------------------------------------------------
(* NeverMisreads is not inductive: a signal must also leave something to   *)
(* pop for the thread it wakes.                                            *)
WakeupFindsEntry ==
  AllFit /\ ~SpuriousWakeups /\ waiter = "signalled" => user_data_queue # <<>>

(* A push is refused only beside a queue that holds something.             *)
LEMMA RefusedByEntry ==
  ASSUME TypeOK, AllFit, pushing # "no", ~Fits(Pushed)
  PROVE  user_data_queue # <<>>
<1>1. EntryLen(Pushed) \in Nat /\ HeaderLen + EntryLen(Pushed) <= MaxSize
  <2>1. CASE pushing = "id"
    BY <2>1 DEF EntryLen, Pushed, AllFit
  <2>2. CASE pushing = "payload"
    <3>1. received[Len(received)] \in Packets
      BY <2>2 DEF TypeOK
    <3>2. received[Len(received)].payload \in Payloads
      BY <3>1 DEF Packets
    <3>3. QED
      BY <2>2, <3>2 DEF EntryLen, Pushed, AllFit
  <2>3. QED
    BY <2>1, <2>2 DEF TypeOK
<1>2. CASE user_data_queue = <<>>
  <2>1. Bytes(user_data_queue) = 0
    BY <1>2, BytesEmpty
  <2>2. QED
    BY <1>1, <2>1 DEF Fits
<1>3. QED
  BY <1>2

(* No pop comes back empty-handed when every payload fits an empty queue   *)
(* and wakeups are never spurious.                                         *)
THEOREM NeverMisreadsAlways == Spec => []NeverMisreads
<1> DEFINE Inv == NeverMisreads /\ WakeupFindsEntry
<1>1. Init => Inv
  BY DEF Init, NeverMisreads, WakeupFindsEntry
<1>2. TypeOK /\ Inv /\ [Next]_vars => Inv'
  <2> SUFFICES ASSUME TypeOK, Inv, [Next]_vars, AllFit, ~SpuriousWakeups
               PROVE  /\ ~misread'
                      /\ waiter' = "signalled" => user_data_queue' # <<>>
    BY DEF NeverMisreads, WakeupFindsEntry, AllFit
  <2>0. ~misread /\ (waiter = "signalled" => user_data_queue # <<>>)
    BY DEF NeverMisreads, WakeupFindsEntry
  <2> HIDE DEF Inv
  <2>1. ASSUME NEW c \in ClientIds, NEW p \in Payloads, ReadPkt(c, p)
        PROVE  ~misread' /\ (waiter' = "signalled" => user_data_queue' # <<>>)
    BY <2>0, <2>1 DEF ReadPkt, thread_vars
  <2>2. CASE PushFits
    <3>1. user_data_queue' # <<>>
      BY <2>2, SMTT(20) DEF PushFits, TypeOK
    <3>2. QED
      BY <2>0, <2>2, <3>1 DEF PushFits, thread_vars
  <2>3. CASE PushDropped
    BY <2>0, <2>3, RefusedByEntry DEF PushDropped, thread_vars
  <2>4. CASE PushRefused
    BY <2>0, <2>4, RefusedByEntry DEF PushRefused, thread_vars
  <2>5. CASE Wait
    BY <2>0, <2>5 DEF Wait, thread_vars
  <2>6. CASE PopId
    BY <2>0, <2>6, Zenon DEF PopId, CanPop
  <2>7. CASE PopPayload
    BY <2>0, <2>7, Zenon DEF PopPayload, CanPop
  <2>8. CASE OnMessage
    BY <2>0, <2>8 DEF OnMessage
  <2>9. CASE SpuriousWakeup
    BY <2>9 DEF SpuriousWakeup
  <2>10. CASE UNCHANGED vars
    BY <2>0, <2>10 DEF vars, thread_vars
  <2>11. QED
    BY <2>1, <2>2, <2>3, <2>4, <2>5, <2>6, <2>7, <2>8, <2>9, <2>10
       DEF Next, push_pkt_queue, run
<1>3. Inv => NeverMisreads
  OBVIOUS
<1>4. QED
  BY <1>1, <1>2, <1>3, TypeCorrect, PTL DEF Spec, SafeSpec

-----------------------------------------------------------------------------
(* Paired and OverrunAfterLoss speak of finished messages and of the dead  *)
(* thread.  They hold because entries alternate all along the way: numbered*)
(* in the order they were handed over, those in messages, in run()'s       *)
(* buffers and in the queue are 1, 2, 3, ... without a gap.                *)
NumPopped == 2 * Len(messages) + (IF pc = "pop_id" THEN 0
                                  ELSE IF pc = "pop_payload" THEN 1 ELSE 2)

Numbered ==
  /\ Len(user_data_queue) = NumPushed - NumPopped
  /\ \A i \in 1..Len(user_data_queue) :
       Ordinal(user_data_queue[i]) = NumPopped + i
  /\ pc # "pop_id" => Ordinal(client_id) = 2 * Len(messages) + 1
  /\ pc = "on_message" => Ordinal(payload) = 2 * Len(messages) + 2
  /\ \A i \in 1..Len(messages) : /\ Ordinal(messages[i].id) = 2 * i - 1
                                 /\ Ordinal(messages[i].payload) = 2 * i
  /\ ~crashed

Ledger == dropped = {} /\ ~misread => Numbered

LEMMA LedgerPush ==
  ASSUME TypeOK, Numbered, PushFits
  PROVE  Numbered'
<1> USE DEF Numbered
<1>1. pushing \in {"id", "payload"} /\ received \in Seq(Packets)
  BY DEF PushFits, TypeOK
<1>2. NumPopped \in Nat /\ NumPopped' = NumPopped
  BY DEF NumPopped, TypeOK, PushFits, thread_vars
<1>3. NumPushed' = NumPushed + 1
  BY <1>1 DEF PushFits, PushReturned, NumPushed
<1>4. Ordinal(Pushed) = NumPushed + 1
  <2>1. Pushed.kind = pushing /\ Pushed.pkt = Len(received)
    BY DEF Pushed
  <2>2. QED
    BY <1>1, <2>1 DEF Ordinal, NumPushed
<1>5. NumPushed \in Int
  BY <1>1 DEF NumPushed
<1>6. user_data_queue \in Seq(Entries) /\ Pushed \in Entries
  BY <1>1 DEF TypeOK, Pushed, Entries
<1>7. user_data_queue' = Append(user_data_queue, Pushed)
  BY DEF PushFits
<1>8. /\ Len(user_data_queue') = Len(user_data_queue) + 1
      /\ \A i \in 1..Len(user_data_queue) :
           user_data_queue'[i] = user_data_queue[i]
      /\ user_data_queue'[Len(user_data_queue) + 1] = Pushed
  BY <1>6, <1>7
<1>9. Len(user_data_queue') = NumPushed' - NumPopped'
  BY <1>2, <1>3, <1>5, <1>8
<1>10. \A i \in 1..Len(user_data_queue') :
         Ordinal(user_data_queue'[i]) = NumPopped' + i
  <2> TAKE i \in 1..Len(user_data_queue')
  <2>1. CASE i \in 1..Len(user_data_queue)
    BY <1>2, <1>8, <2>1
  <2>2. CASE i = Len(user_data_queue) + 1
    BY <1>2, <1>4, <1>5, <1>8, <2>2
  <2>3. QED
    BY <1>6, <1>8, <2>1, <2>2
<1>11. QED
  BY <1>9, <1>10 DEF PushFits, thread_vars, Ordinal

(* Popping: the first entry is the one the thread expects.                 *)
LEMMA LedgerPop ==
  ASSUME TypeOK, Numbered, user_data_queue # <<>>, Popped,
         NumPushed' = NumPushed, NumPopped' = NumPopped + 1
  PROVE  /\ Head(user_data_queue) \in Entries
         /\ Ordinal(Head(user_data_queue)) = NumPopped + 1
         /\ Len(user_data_queue') = NumPushed' - NumPopped'
         /\ \A i \in 1..Len(user_data_queue') :
              Ordinal(user_data_queue'[i]) = NumPopped' + i
<1> USE DEF Numbered
<1>1. user_data_queue \in Seq(Entries) /\ Len(user_data_queue) > 0
  BY DEF TypeOK
<1>2. user_data_queue' = Tail(user_data_queue)
  BY DEF Popped
<1>3. NumPopped \in Nat
  BY DEF NumPopped, TypeOK
<1>4. NumPushed \in Int
  BY DEF NumPushed, TypeOK
<1>5. /\ Head(user_data_queue) = user_data_queue[1]
      /\ Len(user_data_queue') = Len(user_data_queue) - 1
      /\ \A i \in 1..Len(user_data_queue') :
           user_data_queue'[i] = user_data_queue[i + 1]
  BY <1>1, <1>2
<1>6. \A i \in 1..Len(user_data_queue') :
        Ordinal(user_data_queue'[i]) = NumPopped' + i
  <2> TAKE i \in 1..Len(user_data_queue')
  <2>1. i + 1 \in 1..Len(user_data_queue)
    BY <1>1, <1>5
  <2>2. QED
    BY <1>3, <1>5, <2>1
<1>7. QED
  BY <1>1, <1>3, <1>4, <1>5, <1>6

LEMMA LedgerPopId ==
  ASSUME TypeOK, Numbered, PopId, ~misread'
  PROVE  Numbered'
<1> USE DEF Numbered
<1>1. user_data_queue # <<>> /\ pc = "pop_id"
  BY Zenon DEF PopId
<1>2. NumPopped' = NumPopped + 1 /\ NumPopped = 2 * Len(messages)
  BY <1>1 DEF PopId, NumPopped, TypeOK
<1>3. NumPushed' = NumPushed
  BY DEF PopId, NumPushed, push_vars
<1>4. Popped
  BY DEF PopId
<1>5. /\ Head(user_data_queue) \in Entries
      /\ Ordinal(Head(user_data_queue)) = 2 * Len(messages) + 1
      /\ Len(user_data_queue') = NumPushed' - NumPopped'
      /\ \A i \in 1..Len(user_data_queue') :
           Ordinal(user_data_queue'[i]) = NumPopped' + i
  BY <1>1, <1>2, <1>3, <1>4, LedgerPop
<1>6. Len(messages) \in Nat
  BY DEF TypeOK
<1>7. Head(user_data_queue).kind = "id"
  BY <1>5, <1>6, OrdinalKind
<1>8. ~Overruns
  BY <1>7 DEF Overruns, EntryLen
<1>9. ~crashed'
  BY <1>8, Zenon DEF PopId
<1>10. client_id' = Head(user_data_queue) /\ messages' = messages
       /\ pc' = "pop_payload"
  BY <1>1 DEF PopId, PopString
<1>11. QED
  BY <1>5, <1>9, <1>10 DEF Ordinal

LEMMA LedgerPopPayload ==
  ASSUME TypeOK, Numbered, PopPayload, ~misread'
  PROVE  Numbered'
<1> USE DEF Numbered
<1>1. user_data_queue # <<>> /\ pc = "pop_payload"
  BY Zenon DEF PopPayload
<1>2. NumPopped' = NumPopped + 1 /\ NumPopped = 2 * Len(messages) + 1
  BY <1>1 DEF PopPayload, NumPopped, TypeOK
<1>3. NumPushed' = NumPushed
  BY DEF PopPayload, NumPushed, push_vars
<1>4. Popped
  BY DEF PopPayload
<1>5. /\ Ordinal(Head(user_data_queue)) = 2 * Len(messages) + 2
      /\ Len(user_data_queue') = NumPushed' - NumPopped'
      /\ \A i \in 1..Len(user_data_queue') :
           Ordinal(user_data_queue'[i]) = NumPopped' + i
  <2>1. Len(messages) \in Nat
    BY DEF TypeOK
  <2>2. QED
    BY <1>1, <1>2, <1>3, <1>4, <2>1, LedgerPop
<1>6. payload' = Head(user_data_queue) /\ messages' = messages
      /\ pc' = "on_message" /\ client_id' = client_id /\ crashed' = crashed
  BY <1>1 DEF PopPayload, PopString
<1>7. QED
  BY <1>1, <1>5, <1>6 DEF Ordinal

LEMMA LedgerOnMessage ==
  ASSUME TypeOK, Numbered, OnMessage
  PROVE  Numbered'
<1> USE DEF Numbered
<1>1. NumPopped' = NumPopped /\ NumPushed' = NumPushed
  <2>1. Len(messages') = Len(messages) + 1 /\ Len(messages) \in Nat
    BY DEF OnMessage, TypeOK
  <2>2. QED
    BY <2>1 DEF OnMessage, NumPopped, NumPushed, push_vars
<1>2. \A i \in 1..Len(messages') : /\ Ordinal(messages'[i].id) = 2 * i - 1
                                   /\ Ordinal(messages'[i].payload) = 2 * i
  <2> TAKE i \in 1..Len(messages')
  <2>1. messages \in Seq(Messages) /\ Len(messages) \in Nat
    BY DEF TypeOK
  <2>2. messages' = Append(messages, [id |-> client_id, payload |-> payload])
    BY DEF OnMessage
  <2>3. CASE i \in 1..Len(messages)
    BY <2>1, <2>2, <2>3
  <2>4. CASE i = Len(messages) + 1
    <3>1. messages'[i] = [id |-> client_id, payload |-> payload]
      BY <2>1, <2>2, <2>4
    <3>2. QED
      BY <2>1, <2>4, <3>1 DEF OnMessage
  <2>5. QED
    BY <2>1, <2>2, <2>3, <2>4
<1>3. QED
  BY <1>1, <1>2 DEF OnMessage, Ordinal

THEOREM LedgerAlways == SafeSpec => []Ledger
<1>1. Init => Ledger
  BY DEF Init, Ledger, Numbered, NumPushed, NumPopped
<1>2. TypeOK /\ Ledger /\ [Next]_vars => Ledger'
  <2> SUFFICES ASSUME TypeOK, Ledger, [Next]_vars, dropped' = {}, ~misread'
               PROVE  Numbered'
    BY DEF Ledger
  <2>1. ASSUME NEW c \in ClientIds, NEW p \in Payloads, ReadPkt(c, p)
        PROVE  Numbered'
    <3>1. Numbered
      BY <2>1 DEF ReadPkt, Ledger, thread_vars
    <3>2. Len(received') = Len(received) + 1 /\ Len(received) \in Nat
      BY <2>1 DEF ReadPkt, TypeOK
    <3>3. NumPushed' = NumPushed /\ NumPopped' = NumPopped
      BY <2>1, <3>2 DEF ReadPkt, NumPushed, NumPopped, thread_vars
    <3>4. QED
      BY <2>1, <3>1, <3>3 DEF ReadPkt, Numbered, Ordinal, thread_vars
  <2>2. CASE PushFits
    BY <2>2, LedgerPush DEF PushFits, Ledger, thread_vars
  <2>3. CASE PushDropped
    BY <2>3 DEF PushDropped
  <2>4. CASE PushRefused
    BY <2>4 DEF PushRefused, Ledger, Numbered, NumPushed, NumPopped, Ordinal,
                thread_vars, push_vars
  <2>5. CASE Wait
    BY <2>5 DEF Wait, Ledger, Numbered, NumPushed, NumPopped, Ordinal,
                thread_vars, push_vars
  <2>6. CASE PopId
    <3>1. dropped = {} /\ ~misread
      BY <2>6, Zenon DEF PopId, push_vars
    <3>2. QED
      BY <2>6, <3>1, LedgerPopId DEF Ledger
  <2>7. CASE PopPayload
    <3>1. dropped = {} /\ ~misread
      BY <2>7, Zenon DEF PopPayload, push_vars
    <3>2. QED
      BY <2>7, <3>1, LedgerPopPayload DEF Ledger
  <2>8. CASE OnMessage
    BY <2>8, LedgerOnMessage DEF OnMessage, Ledger, push_vars
  <2>9. CASE SpuriousWakeup
    BY <2>9 DEF SpuriousWakeup, Ledger, Numbered, NumPushed, NumPopped,
                Ordinal, thread_vars, push_vars
  <2>10. CASE UNCHANGED vars
    BY <2>10 DEF vars, Ledger, Numbered, NumPushed, NumPopped, Ordinal,
                 thread_vars, push_vars
  <2>11. QED
    BY <2>1, <2>2, <2>3, <2>4, <2>5, <2>6, <2>7, <2>8, <2>9, <2>10
       DEF Next, push_pkt_queue, run
<1>3. QED
  BY <1>1, <1>2, TypesKept, PTL DEF SafeSpec

(* What the ledger says of a message: message i is made of packet i.       *)
LEMMA MessageOfPacket ==
  ASSUME TypeOK, Numbered, NEW i \in 1..Len(messages)
  PROVE  /\ i <= Len(received)
         /\ messages[i].id.kind = "id" /\ messages[i].id.pkt = i
         /\ messages[i].payload.kind = "payload"
         /\ messages[i].payload.pkt = i
<1>1. /\ messages[i].id \in Entries \cup {NoEntry}
      /\ messages[i].payload \in Entries \cup {NoEntry}
  <2>1. messages[i] \in Messages
    BY DEF TypeOK
  <2>2. QED
    BY <2>1 DEF Messages
<1>2. /\ Ordinal(messages[i].id) = 2 * (i - 1) + 1
      /\ Ordinal(messages[i].payload) = 2 * (i - 1) + 2
  BY DEF Numbered
<1>3. i - 1 \in Nat
  OBVIOUS
<1>4. i <= Len(received)
  <2>1. Len(user_data_queue) \in Nat /\ Len(messages) \in Nat
        /\ Len(received) \in Nat
    BY DEF TypeOK
  <2>2. NumPopped >= 2 * Len(messages) /\ NumPopped \in Nat
    BY <2>1 DEF NumPopped
  <2>3. NumPushed <= 2 * Len(received) /\ NumPushed \in Int
    BY <2>1 DEF NumPushed
  <2>4. QED
    BY <2>1, <2>2, <2>3 DEF Numbered
<1>5. messages[i].id.kind = "id" /\ messages[i].id.pkt = (i - 1) + 1
  BY <1>1, <1>2, <1>3, OrdinalKind
<1>6. messages[i].payload.kind = "payload" /\ messages[i].payload.pkt = (i - 1) + 1
  BY <1>1, <1>2, <1>3, OrdinalKind
<1>7. QED
  BY <1>4, <1>5, <1>6

(* Until something is dropped or a pop finds nothing, the i-th call of     *)
(* on_message gets both halves of the i-th packet.                         *)
LEMMA PairedByLedger == TypeOK /\ Ledger => Paired
<1> SUFFICES ASSUME TypeOK, Numbered, NEW i \in 1..Len(messages)
             PROVE  i <= Len(received) /\ Delivered[i] = received[i]
  BY DEF Ledger, Paired
<1>1. received[i] \in Packets /\ i <= Len(received)
  <2>1. i <= Len(received)
    BY MessageOfPacket
  <2>2. QED
    BY <2>1 DEF TypeOK
<1>2. received[i] = [client_id |-> received[i].client_id,
                     payload   |-> received[i].payload]
  BY <1>1 DEF Packets
<1>3. QED
  BY <1>1, <1>2, MessageOfPacket DEF Delivered, ClientIdIn, PayloadIn

LEMMA PairedSafely == SafeSpec => []Paired
BY PairedByLedger, TypesKept, LedgerAlways, PTL

(* The same, of the fair specification.                                    *)
THEOREM PairedAlways == Spec => []Paired
BY PairedSafely, PTL DEF Spec

(* The stack of run() is overrun only after a drop or an empty pop.        *)
THEOREM OverrunAfterLossAlways == Spec => []OverrunAfterLoss
<1>1. Ledger => OverrunAfterLoss
  BY DEF Ledger, Numbered, OverrunAfterLoss
<1>2. QED
  BY <1>1, LedgerAlways, PTL DEF Spec

-----------------------------------------------------------------------------
(* A blocking push drops nothing.                                          *)
NoDrops == recv_blocking => dropped = {}

(* Only the non-blocking push drops, and the choice is never changed.      *)
LEMMA DropsOnlyUnblocked ==
  ASSUME [Next]_vars
  PROVE  /\ recv_blocking' = recv_blocking
         /\ recv_blocking => dropped' = dropped
<1>1. CASE push_pkt_queue
  BY <1>1 DEF push_pkt_queue, PushFits, PushDropped, PushRefused, push_vars
<1>2. ASSUME run \/ SpuriousWakeup
      PROVE  UNCHANGED <<recv_blocking, push_vars>>
  BY <1>2 DEF run, Wait, PopId, PopPayload, OnMessage, SpuriousWakeup
<1>3. CASE UNCHANGED vars \/ \E c \in ClientIds, p \in Payloads : ReadPkt(c, p)
  BY <1>3 DEF ReadPkt, vars, push_vars
<1>4. QED
  BY <1>1, <1>2, <1>3 DEF Next, push_vars

LEMMA NoDropsAlways == Spec => []NoDrops
<1>1. NoDrops /\ [Next]_vars => NoDrops'
  BY DropsOnlyUnblocked DEF NoDrops
<1>2. Init => NoDrops
  BY DEF Init, NoDrops
<1>3. QED
  BY <1>2, <1>1, PTL DEF SafeSpec, Spec

(* What on_message got is then a prefix of what was handed over.           *)
IsPrefixOfReceived ==
  /\ Len(messages) <= Len(received)
  /\ Delivered = [i \in 1..Len(messages) |-> received[i]]

LEMMA DeliveredIsPrefix ==
  TypeOK /\ Ledger /\ dropped = {} /\ ~misread => IsPrefixOfReceived
<1> SUFFICES ASSUME TypeOK, Ledger, dropped = {}, ~misread
             PROVE  IsPrefixOfReceived
  OBVIOUS
<1>1. \A i \in 1..Len(messages) :
        i <= Len(received) /\ Delivered[i] = received[i]
  BY PairedByLedger DEF Paired
<1>2. Len(messages) \in Nat /\ Len(received) \in Nat
  BY DEF TypeOK
<1>3. Len(messages) <= Len(received)
  BY <1>1, <1>2
<1>4. QED
  BY <1>1, <1>3 DEF IsPrefixOfReceived, Delivered

(* In the blocking mode, when every payload fits and wakeups are never     *)
(* spurious, each step of the queue and its thread is a step of a          *)
(* PktChannel or changes neither what was sent nor what was delivered.     *)
THEOREM ImplementsChannelSafely ==
  ASSUME AllFit, ~SpuriousWakeups
  PROVE  Spec => Channel!SafeSpec
<1> DEFINE Inv == /\ TypeOK /\ Ledger /\ NoDrops /\ NeverMisreads
                  /\ recv_blocking => IsPrefixOfReceived
<1>1. Init => Channel!Init
  BY DEF Init, Channel!Init, Delivered
<1>2. Spec => []Inv
  <2>1. TypeOK /\ Ledger /\ NoDrops /\ NeverMisreads => Inv
    BY DeliveredIsPrefix DEF NoDrops, NeverMisreads, AllFit
  <2>2. QED
    BY <2>1, TypeCorrect, LedgerAlways, NoDropsAlways, NeverMisreadsAlways, PTL
       DEF Spec
<1>3. ASSUME Inv, Inv', [Next]_vars
      PROVE  [Channel!Next]_Channel!vars
  <2>1. recv_blocking' = recv_blocking
    BY <1>3 DEF Next, push_pkt_queue, run, ReadPkt, PushFits, PushDropped,
                PushRefused, Wait, PopId, PopPayload, OnMessage,
                SpuriousWakeup, vars
  <2>2. CASE ~recv_blocking
    BY <2>1, <2>2 DEF Channel!vars
  <2>3. CASE recv_blocking
    <3>1. IsPrefixOfReceived /\ IsPrefixOfReceived'
      BY <1>3, <2>1, <2>3
    <3>2. /\ messages \in Seq(Messages) /\ Len(messages) \in Nat
          /\ received \in Seq(Packets) /\ Len(received) \in Nat
      BY <1>3 DEF TypeOK
    <3>3. ASSUME received' = received, messages' = messages
          PROVE  UNCHANGED Channel!vars
      BY <2>1, <3>1, <3>3 DEF Channel!vars, IsPrefixOfReceived
    <3>4. ASSUME NEW c \in ClientIds, NEW p \in Payloads, ReadPkt(c, p)
          PROVE  Channel!Send
      <4>1. [client_id |-> c, payload |-> p] \in Packets
        BY DEF Packets
      <4>2. \A i \in 1..Len(messages) : received'[i] = received[i]
        BY <3>1, <3>2, <3>4, <4>1 DEF ReadPkt, IsPrefixOfReceived
      <4>3. Delivered' = Delivered
        BY <3>1, <3>4, <4>2 DEF IsPrefixOfReceived, ReadPkt, thread_vars
      <4>4. QED
        BY <2>1, <2>3, <3>4, <4>1, <4>3 DEF ReadPkt, Channel!Send
    <3>5. CASE OnMessage
      <4> DEFINE n == Len(messages)
      <4>1. Len(messages') = n + 1 /\ received' = received
        BY <3>2, <3>5 DEF OnMessage, push_vars
      <4>2. n + 1 <= Len(received)
        BY <3>1, <4>1 DEF IsPrefixOfReceived
      <4>3. Delivered \in Seq(Packets) /\ Len(Delivered) = n
        BY <3>1, <3>2 DEF IsPrefixOfReceived
      <4>4. Delivered' = [i \in 1..n + 1 |-> received[i]]
        BY <3>1, <4>1 DEF IsPrefixOfReceived
      <4>5. Delivered' = Append(Delivered, received[n + 1])
        <5>1. Append(Delivered, received[n + 1]) =
                [i \in 1..n + 1 |-> IF i = n + 1 THEN received[n + 1]
                                    ELSE Delivered[i]]
          BY <3>2, <4>2, <4>3
        <5>2. \A i \in 1..n : Delivered[i] = received[i]
          BY <3>1 DEF IsPrefixOfReceived
        <5>3. QED
          BY <3>2, <4>4, <5>1, <5>2
      <4>6. QED
        BY <2>1, <2>3, <3>2, <4>1, <4>2, <4>3, <4>5
           DEF Channel!Deliver, Channel!Next
    <3>6. CASE push_pkt_queue \/ Wait \/ PopId \/ PopPayload \/ SpuriousWakeup
      <4>1. received' = received /\ messages' = messages
        BY <3>6 DEF push_pkt_queue, PushFits, PushDropped, PushRefused, Wait,
                    PopId, PopPayload, SpuriousWakeup, thread_vars, push_vars
      <4>2. QED
        BY <3>3, <4>1
    <3>7. CASE UNCHANGED vars
      BY <3>3, <3>7 DEF vars, thread_vars, push_vars
    <3>8. QED
      BY <1>3, <3>4, <3>5, <3>6, <3>7 DEF Next, run, Channel!Next
  <2>4. QED
    BY <2>2, <2>3
<1>4. QED
  BY <1>1, <1>2, <1>3, PTL DEF Spec, SafeSpec, Channel!SafeSpec

-----------------------------------------------------------------------------
(* NothingLost and InOrder speak of every schedule, drops and empty pops   *)
(* included, so they do not follow from the ledger above.                  *)

(* A push that ends, kept or dropped, is the next to be counted.           *)
LEMMA PushCounts ==
  ASSUME TypeOK, pushing # "no", PushReturned, UNCHANGED received
  PROVE  /\ Pushed \in Entries /\ NumPushed \in Nat
         /\ Ordinal(Pushed) = NumPushed + 1 /\ NumPushed' = NumPushed + 1
<1>1. pushing \in {"id", "payload"} /\ Len(received) \in 1..MaxPkts
  BY DEF TypeOK
<1>2. Pushed.kind = pushing /\ Pushed.pkt = Len(received) /\ Pushed \in Entries
  BY <1>1 DEF Pushed, Entries
<1>3. QED
  BY <1>1, <1>2 DEF Ordinal, NumPushed, PushReturned

(* The first call has yet to return when a packet has been read.           *)
LEMMA ReadCounts ==
  ASSUME TypeOK, NEW c \in ClientIds, NEW p \in Payloads, ReadPkt(c, p)
  PROVE  NumPushed' = NumPushed
<1>1. /\ received \in Seq(Packets) /\ [client_id |-> c, payload |-> p] \in Packets
  BY DEF TypeOK, Packets
<1>2. Len(received') = Len(received) + 1
  BY <1>1 DEF ReadPkt
<1>3. QED
  BY <1>1, <1>2 DEF ReadPkt, NumPushed

(* Ordinals are numbers.                                                   *)
LEMMA OrdinalNat == ASSUME NEW e \in Entries PROVE Ordinal(e) \in Nat
<1>1. e.pkt \in 1..MaxPkts
  BY DEF Entries
<1>2. QED
  BY <1>1 DEF Ordinal

(* Entries with the same ordinal are the same.                             *)
LEMMA OrdinalInjective ==
  ASSUME NEW e \in Entries, NEW f \in Entries, Ordinal(e) = Ordinal(f)
  PROVE  e = f
<1>1. /\ e.pkt \in Nat \ {0} /\ e.kind \in {"id", "payload"}
      /\ f.pkt \in Nat \ {0} /\ f.kind \in {"id", "payload"}
  BY DEF Entries
<1>2. e.pkt = f.pkt /\ e.kind = f.kind
  <2>1. CASE e.kind = "id"
    <3>1. Ordinal(f) = 2 * (e.pkt - 1) + 1 /\ e.pkt - 1 \in Nat
      BY <1>1, <2>1 DEF Ordinal
    <3>2. QED
      BY <1>1, <2>1, <3>1, OrdinalKind
  <2>2. CASE e.kind = "payload"
    <3>1. Ordinal(f) = 2 * (e.pkt - 1) + 2 /\ e.pkt - 1 \in Nat
      BY <1>1, <2>2 DEF Ordinal
    <3>2. QED
      BY <1>1, <2>2, <3>1, OrdinalKind
  <2>3. QED
    BY <1>1, <2>1, <2>2
<1>3. QED
  BY <1>2 DEF Entries

(* What the packet thread holds of the entries it has popped.              *)
Held(e) == \/ pc # "pop_id" /\ e = client_id
           \/ pc = "on_message" /\ e = payload
           \/ \E i \in 1..Len(messages) :
                e \in {messages[i].id, messages[i].payload}

(* The entry that a pop takes is the one it removes.                       *)
LEMMA PopMoves ==
  ASSUME TypeOK, Popped, NEW e \in Entries, InQueue(e), NEW buffer
  PROVE  e = PopString(buffer) \/ InQueue(e)'
<1>1. user_data_queue \in Seq(Entries)
  BY DEF TypeOK
<1>2. PICK i \in 1..Len(user_data_queue) : user_data_queue[i] = e
  BY DEF InQueue
<1>3. user_data_queue # <<>> /\ user_data_queue' = Tail(user_data_queue)
  BY <1>1, <1>2 DEF Popped
<1>4. CASE i = 1
  BY <1>2, <1>3, <1>4 DEF PopString
<1>5. CASE i # 1
  <2>1. /\ i - 1 \in 1..Len(user_data_queue')
        /\ user_data_queue'[i - 1] = user_data_queue[i]
    BY <1>1, <1>2, <1>3, <1>5
  <2>2. QED
    BY <1>2, <2>1 DEF InQueue
<1>6. QED
  BY <1>4, <1>5

(* Every half that was handed over is dropped and logged, queued, in a     *)
(* buffer or delivered, whatever else has gone wrong.                      *)
THEOREM NothingLostAlways == Spec => []NothingLost
<1> DEFINE Kept(e) == e \in dropped \/ InQueue(e) \/ Held(e)
           Inv == \A e \in Entries : Ordinal(e) <= NumPushed => Kept(e)
<1>1. Init => Inv
  <2> SUFFICES ASSUME Init, NEW e \in Entries, Ordinal(e) <= NumPushed
               PROVE  FALSE
    OBVIOUS
  <2>1. NumPushed = 0
    BY DEF Init, NumPushed
  <2>2. e.pkt \in Nat \ {0}
    BY DEF Entries
  <2>3. QED
    BY <2>1, <2>2 DEF Ordinal
<1>2. TypeOK /\ Inv /\ [Next]_vars => Inv'
  <2> SUFFICES ASSUME TypeOK, Inv, [Next]_vars,
                      NEW e \in Entries, Ordinal(e) <= NumPushed'
               PROVE  Kept(e)'
    BY DEF Ordinal
  <2>0. Ordinal(e) \in Nat
    BY OrdinalNat
  <2>1. ASSUME NEW c \in ClientIds, NEW p \in Payloads, ReadPkt(c, p)
        PROVE  Kept(e)'
    BY <2>1, ReadCounts DEF ReadPkt, thread_vars, InQueue, Held
  <2>2. CASE PushFits
    <3>1. /\ Pushed \in Entries /\ NumPushed \in Nat
          /\ Ordinal(Pushed) = NumPushed + 1 /\ NumPushed' = NumPushed + 1
      BY <2>2, PushCounts DEF PushFits
    <3>2. user_data_queue \in Seq(Entries)
      BY DEF TypeOK
    <3>3. user_data_queue' = Append(user_data_queue, Pushed)
      BY <2>2 DEF PushFits
    <3>4. CASE e = Pushed
      <4>1. /\ Len(user_data_queue) + 1 \in 1..Len(user_data_queue')
            /\ user_data_queue'[Len(user_data_queue) + 1] = e
        BY <3>1, <3>2, <3>3, <3>4
      <4>2. QED
        BY <4>1 DEF InQueue
    <3>5. CASE e # Pushed
      <4>1. Kept(e)
        <5>1. Ordinal(e) # NumPushed + 1
          BY <3>1, <3>5, OrdinalInjective
        <5>2. QED
          BY <2>0, <3>1, <5>1
      <4>2. InQueue(e) => InQueue(e)'
        BY <3>1, <3>2, <3>3 DEF InQueue
      <4>3. UNCHANGED <<dropped, pc, client_id, payload, messages>>
        BY <2>2 DEF PushFits, thread_vars
      <4>4. QED
        BY <4>1, <4>2, <4>3 DEF Held
    <3>6. QED
      BY <3>4, <3>5
  <2>3. CASE PushDropped
    <3>1. /\ Pushed \in Entries /\ NumPushed \in Nat
          /\ Ordinal(Pushed) = NumPushed + 1 /\ NumPushed' = NumPushed + 1
      BY <2>3, PushCounts DEF PushDropped
    <3>2. CASE e = Pushed
      BY <2>3, <3>2 DEF PushDropped
    <3>3. CASE e # Pushed
      <4>1. Ordinal(e) # NumPushed + 1
        BY <3>1, <3>3, OrdinalInjective
      <4>2. Kept(e)
        BY <2>0, <3>1, <4>1
      <4>3. QED
        BY <2>3, <4>2 DEF PushDropped, thread_vars, InQueue, Held
    <3>4. QED
      BY <3>2, <3>3
  <2>5. ASSUME UNCHANGED <<pushing, received>> PROVE Kept(e)
    BY <2>5 DEF NumPushed
  <2>6. CASE PopId
    <3>1. Kept(e) /\ Popped /\ client_id' = PopString(client_id)
          /\ pc = "pop_id" /\ pc' = "pop_payload"
          /\ UNCHANGED <<dropped, messages>>
      BY <2>5, <2>6 DEF PopId, push_vars
    <3>2. InQueue(e) => e = client_id' \/ InQueue(e)'
      BY <3>1, PopMoves
    <3>3. QED
      BY <3>1, <3>2 DEF Held
  <2>7. CASE PopPayload
    <3>1. Kept(e) /\ Popped /\ payload' = PopString(payload)
          /\ pc = "pop_payload" /\ pc' = "on_message"
          /\ UNCHANGED <<dropped, messages, client_id>>
      BY <2>5, <2>7 DEF PopPayload, push_vars
    <3>2. InQueue(e) => e = payload' \/ InQueue(e)'
      BY <3>1, PopMoves
    <3>3. QED
      BY <3>1, <3>2 DEF Held
  <2>8. CASE OnMessage
    <3>1. /\ Kept(e) /\ UNCHANGED <<dropped, user_data_queue>>
          /\ messages' = Append(messages, [id |-> client_id, payload |-> payload])
          /\ messages \in Seq(Messages)
          /\ [id |-> client_id, payload |-> payload] \in Messages
      BY <2>5, <2>8 DEF OnMessage, push_vars, TypeOK, Messages
    <3>2. /\ Len(messages') = Len(messages) + 1 /\ Len(messages) \in Nat
          /\ \A i \in 1..Len(messages) : messages'[i] = messages[i]
          /\ messages'[Len(messages')] = [id |-> client_id, payload |-> payload]
      BY <3>1
    <3>3. Held(e) => Held(e)'
      <4>1. CASE e \in {client_id, payload}
        BY <3>2, <4>1 DEF Held
      <4>2. ASSUME NEW i \in 1..Len(messages),
                   e \in {messages[i].id, messages[i].payload}
            PROVE  Held(e)'
        BY <3>2, <4>2 DEF Held
      <4>3. QED
        BY <4>1, <4>2 DEF Held
    <3>4. QED
      BY <3>1, <3>3 DEF InQueue
  <2>9. CASE Wait \/ PushRefused \/ SpuriousWakeup \/ UNCHANGED vars
    <3>1. /\ UNCHANGED <<pushing, received, dropped, user_data_queue>>
          /\ UNCHANGED <<pc, client_id, payload, messages>>
      BY <2>9 DEF Wait, PushRefused, SpuriousWakeup, vars, thread_vars, push_vars
    <3>2. QED
      BY <2>5, <3>1 DEF InQueue, Held
  <2>10. QED
    BY <2>1, <2>2, <2>3, <2>6, <2>7, <2>8, <2>9 DEF Next, push_pkt_queue, run
<1>3. Inv => NothingLost
  BY DEF NothingLost, Held
<1>4. QED
  BY <1>1, <1>2, <1>3, TypeCorrect, PTL DEF Spec, SafeSpec

-----------------------------------------------------------------------------
(* InOrder is not inductive either: what is queued has to be sorted, and   *)
(* newer than what the thread took last.                                   *)
LastGiven == IF messages = <<>> THEN 0
             ELSE Ordinal(messages[Len(messages)].payload)
LastTaken == IF pc = "pop_payload" THEN Ordinal(client_id)
             ELSE IF pc = "on_message" THEN Ordinal(payload)
             ELSE LastGiven

QueueSorted ==
  /\ LastTaken \in Nat /\ LastTaken <= NumPushed
  /\ \A i \in 1..Len(user_data_queue) :
       LastTaken < Ordinal(user_data_queue[i])
       /\ Ordinal(user_data_queue[i]) <= NumPushed
  /\ \A i, j \in 1..Len(user_data_queue) :
       i < j => Ordinal(user_data_queue[i]) < Ordinal(user_data_queue[j])

BuffersSorted ==
  /\ pc # "pop_id" => LastGiven < Ordinal(client_id)
  /\ pc = "on_message" => Ordinal(client_id) < Ordinal(payload)

Sorted == ~misread => QueueSorted /\ BuffersSorted

(* A pop takes the oldest entry and leaves the queue sorted behind it.     *)
LEMMA PopSorted ==
  ASSUME TypeOK, QueueSorted, Popped, user_data_queue # <<>>,
         LastTaken' = Ordinal(Head(user_data_queue)), NumPushed' = NumPushed
  PROVE  QueueSorted' /\ LastTaken < LastTaken'
<1>1. user_data_queue \in Seq(Entries) /\ Len(user_data_queue) \in Nat \ {0}
  BY DEF TypeOK
<1>2. user_data_queue' = Tail(user_data_queue)
  BY DEF Popped
<1>3. /\ Head(user_data_queue) = user_data_queue[1]
      /\ Len(user_data_queue') = Len(user_data_queue) - 1
      /\ \A i \in 1..Len(user_data_queue') :
           /\ i + 1 \in 1..Len(user_data_queue)
           /\ user_data_queue'[i] = user_data_queue[i + 1]
  BY <1>1, <1>2
<1>4. \A i \in 1..Len(user_data_queue) : Ordinal(user_data_queue[i]) \in Nat
  BY <1>1, OrdinalNat
<1>5. LastTaken' = Ordinal(user_data_queue[1]) /\ 1 \in 1..Len(user_data_queue)
  BY <1>1, <1>3
<1>6. \A i \in 1..Len(user_data_queue') :
        /\ LastTaken' < Ordinal(user_data_queue'[i])
        /\ Ordinal(user_data_queue'[i]) <= NumPushed'
  <2> TAKE i \in 1..Len(user_data_queue')
  <2>1. i + 1 \in 1..Len(user_data_queue) /\ 1 < i + 1
    BY <1>3
  <2>2. QED
    BY <1>3, <1>5, <2>1 DEF QueueSorted
<1>7. \A i, j \in 1..Len(user_data_queue') :
        i < j => Ordinal(user_data_queue'[i]) < Ordinal(user_data_queue'[j])
  <2> SUFFICES ASSUME NEW i \in 1..Len(user_data_queue'),
                      NEW j \in 1..Len(user_data_queue'), i < j
               PROVE  Ordinal(user_data_queue'[i]) < Ordinal(user_data_queue'[j])
    OBVIOUS
  <2>1. i + 1 < j + 1
    OBVIOUS
  <2>2. QED
    BY <1>3, <2>1 DEF QueueSorted
<1>8. LastTaken' \in Nat /\ LastTaken' <= NumPushed' /\ LastTaken < LastTaken'
  BY <1>4, <1>5 DEF QueueSorted
<1>9. QED
  BY <1>6, <1>7, <1>8 DEF QueueSorted, Ordinal

(* A push appends the newest entry of all.                                 *)
LEMMA PushSorted ==
  ASSUME TypeOK, QueueSorted, PushFits
  PROVE  QueueSorted'
<1>1. /\ Pushed \in Entries /\ NumPushed \in Nat
      /\ Ordinal(Pushed) = NumPushed + 1 /\ NumPushed' = NumPushed + 1
  BY PushCounts DEF PushFits
<1>2. user_data_queue' = Append(user_data_queue, Pushed)
      /\ user_data_queue \in Seq(Entries)
  BY DEF PushFits, TypeOK
<1>3. /\ Len(user_data_queue') = Len(user_data_queue) + 1
      /\ Len(user_data_queue) \in Nat
      /\ \A i \in 1..Len(user_data_queue) :
           user_data_queue'[i] = user_data_queue[i]
      /\ user_data_queue'[Len(user_data_queue) + 1] = Pushed
  BY <1>1, <1>2
<1>4. LastTaken' = LastTaken
  BY DEF PushFits, thread_vars, LastTaken, LastGiven, Ordinal
<1>5. \A i \in 1..Len(user_data_queue) : Ordinal(user_data_queue[i]) \in Nat
  BY <1>2, OrdinalNat
<1>6. \A i \in 1..Len(user_data_queue') :
        /\ LastTaken' < Ordinal(user_data_queue'[i])
        /\ Ordinal(user_data_queue'[i]) <= NumPushed'
  <2> TAKE i \in 1..Len(user_data_queue')
  <2>1. CASE i \in 1..Len(user_data_queue)
    BY <1>1, <1>3, <1>4, <1>5, <2>1 DEF QueueSorted
  <2>2. CASE i = Len(user_data_queue) + 1
    BY <1>1, <1>3, <1>4, <2>2 DEF QueueSorted
  <2>3. QED
    BY <1>3, <2>1, <2>2
<1>7. \A i, j \in 1..Len(user_data_queue') :
        i < j => Ordinal(user_data_queue'[i]) < Ordinal(user_data_queue'[j])
  <2> SUFFICES ASSUME NEW i \in 1..Len(user_data_queue'),
                      NEW j \in 1..Len(user_data_queue'), i < j
               PROVE  Ordinal(user_data_queue'[i]) < Ordinal(user_data_queue'[j])
    OBVIOUS
  <2>1. i \in 1..Len(user_data_queue) /\ user_data_queue'[i] = user_data_queue[i]
    BY <1>3
  <2>2. CASE j \in 1..Len(user_data_queue)
    BY <1>3, <2>1, <2>2 DEF QueueSorted
  <2>3. CASE j = Len(user_data_queue) + 1
    <3>1. Ordinal(user_data_queue[i]) <= NumPushed
      BY <2>1 DEF QueueSorted
    <3>2. QED
      BY <1>1, <1>3, <1>5, <2>1, <2>3, <3>1
  <2>4. QED
    BY <1>3, <2>2, <2>3
<1>8. LastTaken' \in Nat /\ LastTaken' <= NumPushed'
  BY <1>1, <1>4 DEF QueueSorted
<1>9. QED
  BY <1>6, <1>7, <1>8 DEF QueueSorted, Ordinal

(* Until a pop finds the queue empty, on_message gets the halves in the    *)
(* order in which they were handed over, whatever was dropped among them.  *)
THEOREM InOrderAlways == Spec => []InOrder
<1> DEFINE Inv == InOrder /\ Sorted
<1>1. Init => Inv
  BY DEF Init, InOrder, Sorted, QueueSorted, BuffersSorted, LastTaken,
         LastGiven, NumPushed
<1>2. TypeOK /\ Inv /\ [Next]_vars => Inv'
  <2> SUFFICES ASSUME TypeOK, Inv, [Next]_vars PROVE Inv'
    OBVIOUS
  <2>1. ASSUME UNCHANGED <<messages, misread>>
        PROVE  InOrder'
    BY <2>1 DEF InOrder, Ordinal
  <2>2. ASSUME UNCHANGED <<pc, client_id, payload, messages>>,
               UNCHANGED <<misread, user_data_queue>>,
               NumPushed' = NumPushed \/ NumPushed' = NumPushed + 1
        PROVE  Inv'
    <3>1. InOrder'
      BY <2>1, <2>2
    <3>2. UNCHANGED <<LastTaken, LastGiven>>
      BY <2>2 DEF LastTaken, LastGiven, Ordinal
    <3>3. NumPushed \in Int
      BY DEF NumPushed, TypeOK
    <3>4. QueueSorted => QueueSorted'
      <4>1. \A i \in 1..Len(user_data_queue) : Ordinal(user_data_queue[i]) \in Nat
        BY OrdinalNat DEF TypeOK
      <4>2. QED
        BY <2>2, <3>2, <3>3, <4>1 DEF QueueSorted, Ordinal
    <3>5. BuffersSorted => BuffersSorted'
      BY <2>2, <3>2 DEF BuffersSorted, Ordinal
    <3>6. QED
      BY <2>2, <3>1, <3>4, <3>5 DEF Sorted
  <2>3. ASSUME NEW c \in ClientIds, NEW p \in Payloads, ReadPkt(c, p)
        PROVE  Inv'
    BY <2>2, <2>3, ReadCounts DEF ReadPkt, thread_vars
  <2>4. CASE PushFits
    <3>1. QueueSorted => QueueSorted'
      BY <2>4, PushSorted
    <3>2. UNCHANGED <<pc, client_id, payload, messages, misread>>
      BY <2>4 DEF PushFits, thread_vars
    <3>3. BuffersSorted => BuffersSorted'
      BY <3>2 DEF BuffersSorted, LastGiven, Ordinal
    <3>4. QED
      BY <2>1, <3>1, <3>2, <3>3 DEF Sorted
  <2>5. CASE PushDropped
    <3>1. NumPushed' = NumPushed + 1
      BY <2>5, PushCounts DEF PushDropped
    <3>2. QED
      BY <2>2, <2>5, <3>1 DEF PushDropped, thread_vars
  <2>6. CASE Wait \/ PushRefused \/ SpuriousWakeup \/ UNCHANGED vars
    <3>1. UNCHANGED <<pc, client_id, payload, messages, misread,
                      user_data_queue, pushing, received>>
      BY <2>6 DEF Wait, PushRefused, SpuriousWakeup, vars, thread_vars, push_vars
    <3>2. QED
      BY <2>2, <3>1 DEF NumPushed
  <2>7. CASE PopId
    <3> SUFFICES ASSUME ~misread' PROVE Inv'
      BY DEF InOrder, Sorted
    <3>1. /\ user_data_queue # <<>> /\ ~misread
          /\ pc = "pop_id" /\ pc' = "pop_payload"
      BY <2>7, Zenon DEF PopId
    <3>2. /\ Popped /\ client_id' = Head(user_data_queue)
          /\ UNCHANGED <<messages, pushing, received>>
      BY <2>7, <3>1 DEF PopId, PopString, push_vars
    <3>3. QueueSorted' /\ LastTaken < LastTaken'
      <4>1. LastTaken' = Ordinal(Head(user_data_queue)) /\ NumPushed' = NumPushed
        BY <3>1, <3>2 DEF LastTaken, NumPushed, Ordinal
      <4>2. QED
        BY <3>1, <3>2, <4>1, PopSorted DEF Sorted
    <3>4. BuffersSorted'
      BY <3>1, <3>2, <3>3 DEF BuffersSorted, LastTaken, LastGiven, Ordinal
    <3>5. InOrder'
      BY <3>1, <3>2 DEF InOrder, Ordinal
    <3>6. QED
      BY <3>3, <3>4, <3>5 DEF Sorted
  <2>8. CASE PopPayload
    <3> SUFFICES ASSUME ~misread' PROVE Inv'
      BY DEF InOrder, Sorted
    <3>1. /\ user_data_queue # <<>> /\ ~misread
          /\ pc = "pop_payload" /\ pc' = "on_message"
      BY <2>8, Zenon DEF PopPayload
    <3>2. /\ Popped /\ payload' = Head(user_data_queue)
          /\ UNCHANGED <<messages, pushing, received, client_id>>
      BY <2>8, <3>1 DEF PopPayload, PopString, push_vars
    <3>3. QueueSorted' /\ LastTaken < LastTaken'
      <4>1. LastTaken' = Ordinal(Head(user_data_queue)) /\ NumPushed' = NumPushed
        BY <3>1, <3>2 DEF LastTaken, NumPushed, Ordinal
      <4>2. QED
        BY <3>1, <3>2, <4>1, PopSorted DEF Sorted
    <3>4. BuffersSorted'
      BY <3>1, <3>2, <3>3 DEF Sorted, BuffersSorted, LastTaken, LastGiven, Ordinal
    <3>5. InOrder'
      BY <3>1, <3>2 DEF InOrder, Ordinal
    <3>6. QED
      BY <3>3, <3>4, <3>5 DEF Sorted
  <2>9. CASE OnMessage
    <3> SUFFICES ASSUME ~misread' PROVE Inv'
      BY DEF InOrder, Sorted
    <3>1. /\ ~misread /\ pc = "on_message" /\ pc' = "pop_id"
          /\ UNCHANGED <<user_data_queue, pushing, received>>
          /\ messages' = Append(messages, [id |-> client_id, payload |-> payload])
          /\ messages \in Seq(Messages)
      BY <2>9 DEF OnMessage, push_vars, TypeOK
    <3>2. /\ Len(messages') = Len(messages) + 1 /\ Len(messages) \in Nat
          /\ \A i \in 1..Len(messages) : messages'[i] = messages[i]
          /\ messages'[Len(messages) + 1] = [id |-> client_id, payload |-> payload]
          /\ messages' # <<>>
      BY <3>1
    <3>3. LastTaken' = LastTaken /\ LastTaken = Ordinal(payload)
      BY <3>1, <3>2 DEF LastTaken, LastGiven, Ordinal
    <3>4. QueueSorted' /\ BuffersSorted'
      BY <3>1, <3>3 DEF Sorted, QueueSorted, BuffersSorted, NumPushed, Ordinal
    <3>5. ASSUME NEW i \in 1..Len(messages')
          PROVE  /\ Ordinal(messages'[i].id) < Ordinal(messages'[i].payload)
                 /\ i > 1 => Ordinal(messages'[i - 1].payload)
                                < Ordinal(messages'[i].id)
      <4>1. CASE i \in 1..Len(messages)
        <5>1. i > 1 => i - 1 \in 1..Len(messages)
          BY <4>1
        <5>2. QED
          BY <3>1, <3>2, <4>1, <5>1 DEF InOrder
      <4>2. CASE i = Len(messages) + 1
        <5>1. /\ messages'[i].id = client_id /\ messages'[i].payload = payload
              /\ Ordinal(client_id) < Ordinal(payload)
              /\ LastGiven < Ordinal(client_id)
          BY <3>1, <3>2, <4>2 DEF Sorted, BuffersSorted
        <5>2. i > 1 => /\ messages # <<>>
                       /\ messages'[i - 1] = messages[Len(messages)]
          BY <3>1, <3>2, <4>2
        <5>3. QED
          BY <5>1, <5>2 DEF LastGiven
      <4>3. QED
        BY <3>2, <4>1, <4>2
    <3>6. InOrder'
      BY <3>5 DEF InOrder, Ordinal
    <3>7. QED
      BY <3>4, <3>6 DEF Sorted
  <2>10. QED
    BY <2>3, <2>4, <2>5, <2>6, <2>7, <2>8, <2>9 DEF Next, push_pkt_queue, run
<1>3. QED
  BY <1>1, <1>2, TypeCorrect, PTL DEF Spec, SafeSpec
=============================================================================
