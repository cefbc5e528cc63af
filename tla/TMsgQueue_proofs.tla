--------------------------- MODULE TMsgQueue_proofs ---------------------------
(* What holds of the queue between threads for every number of consumers,  *)
(* every capacity and every sequence of calls.  The ring below it is used  *)
(* through the lemmas of TCircularQueue_proofs only.                       *)
EXTENDS TMsgQueue, SequenceTheorems, TLAPS

USE MsgQueueAssumption DEF MsgQueueAssumption

RingP == INSTANCE TCircularQueue_proofs WITH
           Values <- Msgs, NoValue <- NoMsg, Sizes <- {Size} \cup NewSizes,
           MaxCapacity <- Size, unlimited <- FALSE, returned <- NoMsg

(* What TCircularQueue assumes of its constants is true of these.          *)
LEMMA RingAssumed == RingP!RingAssumption
BY DEF RingP!RingAssumption, Msgs

-----------------------------------------------------------------------------
(* The ring that the queue uses is the one the lemmas speak of.            *)
LEMMA SameRing ==
  ASSUME NEW r
  PROVE  /\ Ring!size(r) = r.cur_size
         /\ Ring!is_empty(r) = RingP!is_empty(r)
         /\ Ring!is_full(r) = RingP!is_full(r)
         /\ Ring!pop_front(r) = RingP!pop_front(r)
         /\ Ring!First(r) = RingP!First(r)
         /\ \A n : Ring!resize(r, n) = RingP!resize(r, n)
         /\ \A v : Ring!push_back(r, v) = RingP!push_back(r, v)
<1>1. Ring!size(r) = r.cur_size
  BY DEF Ring!size
<1>2. Ring!is_empty(r) = RingP!is_empty(r)
  BY DEF Ring!is_empty, RingP!is_empty
<1>3. Ring!is_full(r) = RingP!is_full(r)
  BY DEF Ring!is_full, RingP!is_full
<1>4. Ring!pop_front(r) = RingP!pop_front(r)
  BY DEF Ring!pop_front, RingP!pop_front
<1>5. Ring!First(r) = RingP!First(r)
  BY DEF Ring!First, RingP!First
<1>6. \A n : Ring!resize(r, n) = RingP!resize(r, n)
  BY DEF Ring!resize, RingP!resize, Ring!Unwrapped, RingP!Unwrapped
<1>7. \A v : Ring!push_back(r, v) = RingP!push_back(r, v)
  BY <1>3, <1>4, <1>6 DEF Ring!push_back, RingP!push_back, Ring!MakeRoom,
     RingP!MakeRoom, Ring!capacity, RingP!capacity
<1>8. QED
  BY <1>1, <1>2, <1>3, <1>4, <1>5, <1>6, <1>7

(* What the ring holds are the messages accepted and not yet returned.     *)
Holds ==
  /\ RingP!RingOK(ring) /\ pushed \in 0..MaxMsgs /\ popped \in Seq(Msgs)
  /\ Len(popped) + ring.cur_size = pushed
  /\ \A i \in 1..Len(popped) : popped[i] = i
  /\ \A i \in 1..ring.cur_size : RingP!Contents(ring)[i] = Len(popped) + i

ConsumersOK ==
  /\ consumer \in [Consumers -> {"idle", "waiting", "woken", "failed"}]
  /\ missed \in BOOLEAN

(* As long as nothing was missed, a woken thread will find a message.      *)
WokenForMessage ==
  ~missed => /\ \A c \in Consumers : consumer[c] = "woken" => ring.cur_size > 0
             /\ \A c \in Consumers : consumer[c] # "failed"

QueueInv == Holds /\ ConsumersOK /\ WokenForMessage /\ NotAllAsleep

-----------------------------------------------------------------------------
(* What a step does to the ring.                                           *)

LEMMA HoldsNat ==
  ASSUME Holds
  PROVE  /\ ring.cur_size \in Nat /\ pushed \in Nat /\ Len(popped) \in Nat
         /\ Ring!size(ring) = ring.cur_size
         /\ (Ring!is_empty(ring) <=> ring.cur_size = 0)
<1>1. RingP!RingOK(ring)
  BY DEF Holds
<1>2. ring.cur_size \in Nat
  BY <1>1, RingAssumed, RingP!ContentsAreSequence
<1>3. RingP!is_empty(ring) <=> ring.cur_size = 0
  BY <1>1, RingAssumed, RingP!ReadsContents
<1>4. QED
  BY <1>2, <1>3, SameRing DEF Holds

(* A push into a queue that is not full adds the next message.             *)
LEMMA PushAdds ==
  ASSUME Holds, PushBack, pushed < MaxMsgs,
         Ring!size(ring) = 0 \/ ~Ring!is_full(ring)
  PROVE  Holds' /\ ring'.cur_size = ring.cur_size + 1
<1> DEFINE v == pushed + 1
<1>1. /\ RingP!RingOK(ring) /\ ring.cur_size \in Nat /\ v \in Msgs
      /\ pushed' = v /\ popped' = popped /\ ring' = RingP!push_back(ring, v)
  BY HoldsNat, SameRing DEF Holds, PushBack, Msgs
<1>2. ring.cur_size # RingP!capacity(ring)
      /\ RingP!Contents(ring) \in Seq(Msgs)
      /\ Len(RingP!Contents(ring)) = ring.cur_size
  BY <1>1, RingAssumed, SameRing, RingP!ReadsContents, RingP!ContentsAreSequence
<1>3. /\ RingP!RingOK(ring')
      /\ RingP!Contents(ring') = Append(RingP!Contents(ring), v)
  BY <1>1, <1>2, RingAssumed, RingP!PushBackAppends
<1>4. /\ ring'.cur_size = ring.cur_size + 1
      /\ \A i \in 1..ring.cur_size :
           RingP!Contents(ring')[i] = RingP!Contents(ring)[i]
      /\ RingP!Contents(ring')[ring.cur_size + 1] = v
  <2> DEFINE q == RingP!Contents(ring)
  <2>1. Len(RingP!Contents(ring')) = ring'.cur_size
    BY <1>3, RingAssumed, RingP!ContentsAreSequence
  <2> HIDE DEF q
  <2>2. /\ Len(Append(q, v)) = ring.cur_size + 1
        /\ \A i \in 1..ring.cur_size : Append(q, v)[i] = q[i]
        /\ Append(q, v)[ring.cur_size + 1] = v
    BY <1>1, <1>2, AppendProperties DEF q
  <2>3. QED
    BY <1>3, <2>1, <2>2 DEF q
<1>5. \A i \in 1..ring'.cur_size : RingP!Contents(ring')[i] = Len(popped') + i
  <2> SUFFICES ASSUME NEW i \in 1..ring'.cur_size
               PROVE  RingP!Contents(ring')[i] = Len(popped) + i
    BY <1>1
  <2>1. CASE i = ring.cur_size + 1
    BY <1>1, <1>4, <2>1, HoldsNat DEF Holds
  <2>2. CASE i # ring.cur_size + 1
    <3>1. i \in 1..ring.cur_size
      BY <1>1, <1>4, <2>2
    <3>2. QED
      BY <1>4, <3>1 DEF Holds
  <2>3. QED
    BY <2>1, <2>2
<1>6. QED
  BY <1>1, <1>3, <1>4, <1>5, HoldsNat DEF Holds, Msgs

(* A message that is taken is the one after those returned before.         *)
LEMMA TakeRemoves ==
  ASSUME Holds, NEW c \in Consumers, Take(c), ring.cur_size # 0
  PROVE  /\ Holds' /\ ring'.cur_size = ring.cur_size - 1
         /\ popped' = Append(popped, Len(popped) + 1) /\ Len(popped) < pushed
<1>1. /\ RingP!RingOK(ring) /\ ring.cur_size \in Nat \ {0}
      /\ pushed' = pushed /\ popped' = Append(popped, RingP!First(ring))
      /\ ring' = RingP!pop_front(ring)
  BY HoldsNat, SameRing DEF Holds, Take
<1> DEFINE q == RingP!Contents(ring)
<1>2. q \in Seq(Msgs) /\ Len(q) = ring.cur_size
  BY <1>1, RingAssumed, RingP!ContentsAreSequence
<1>3. /\ RingP!RingOK(ring') /\ RingP!Contents(ring') = Tail(q)
      /\ RingP!First(ring) = Head(q)
  BY <1>1, RingAssumed, RingP!PopFrontIsTail
<1> HIDE DEF q
<1>4. /\ Head(q) = q[1] /\ q[1] = Len(popped) + 1 /\ Head(q) \in Msgs
      /\ Len(Tail(q)) = ring.cur_size - 1
      /\ \A i \in 1..ring.cur_size - 1 : Tail(q)[i] = q[i + 1]
  BY <1>1, <1>2 DEF Holds, q
<1>5. ring'.cur_size = ring.cur_size - 1
  BY <1>3, <1>4, RingAssumed, RingP!ContentsAreSequence
<1>6. /\ popped' = Append(popped, Len(popped) + 1) /\ popped' \in Seq(Msgs)
      /\ Len(popped') = Len(popped) + 1
      /\ \A i \in 1..Len(popped') : popped'[i] = i
  BY <1>1, <1>3, <1>4 DEF Holds
<1>7. \A i \in 1..ring'.cur_size : RingP!Contents(ring')[i] = Len(popped') + i
  BY <1>1, <1>3, <1>4, <1>5, <1>6, HoldsNat DEF Holds, q
<1>8. Len(popped') + ring'.cur_size = pushed' /\ Len(popped) < pushed
  BY <1>1, <1>5, <1>6, HoldsNat DEF Holds
<1>9. QED
  BY <1>1, <1>3, <1>5, <1>6, <1>7, <1>8 DEF Holds

LEMMA ResizeHolds ==
  ASSUME Holds, resize
  PROVE  Holds' /\ ring'.cur_size = ring.cur_size
<1>1. PICK n \in NewSizes : n >= ring.cur_size /\ ring' = RingP!resize(ring, n)
  BY SameRing DEF resize
<1>2. n \in Nat \ {0} /\ RingP!RingOK(ring) /\ UNCHANGED <<pushed, popped>>
  BY <1>1 DEF Holds, resize
<1>3. RingP!RingOK(ring') /\ RingP!Contents(ring') = RingP!Contents(ring)
  BY <1>1, <1>2, RingAssumed, RingP!ResizeKeeps
<1>4. ring'.cur_size = ring.cur_size
  BY <1>2, <1>3, RingAssumed, RingP!ContentsAreSequence
<1>5. QED
  BY <1>2, <1>3, <1>4 DEF Holds

(* A signal wakes a thread that waits, if there is one.                    *)
LEMMA SignalWakes ==
  ASSUME ConsumersOK, Signal, missed' \in BOOLEAN
  PROVE  /\ ConsumersOK' /\ \A c \in Consumers : consumer'[c] = "failed"
                                                   => consumer[c] = "failed"
         /\ Consumers # {} => \E c \in Consumers : consumer'[c] # "waiting"
<1>1. CASE Waiting = {}
  BY <1>1 DEF Signal, Waiting, ConsumersOK
<1>2. CASE Waiting # {}
  BY <1>2 DEF Signal, Waiting, ConsumersOK
<1>3. QED
  BY <1>1, <1>2

-----------------------------------------------------------------------------
LEMMA InitHolds == Init => QueueInv /\ Channel!Init
<1> SUFFICES ASSUME Init PROVE QueueInv /\ Channel!Init
  OBVIOUS
<1>1. ring = RingP!NewRing(Size)
  BY DEF Init, Ring!NewRing, RingP!NewRing
<1>2. RingP!RingOK(ring) /\ ring.cur_size = 0
  BY <1>1, RingAssumed, RingP!NewIsEmpty DEF RingP!NewRing
<1>3. Holds
  BY <1>2 DEF Init, Holds
<1>4. ConsumersOK /\ WokenForMessage
  BY DEF Init, ConsumersOK, WokenForMessage
<1>5. NotAllAsleep
  BY <1>2, SameRing DEF NotAllAsleep
<1>6. Channel!Init
  BY DEF Init, Channel!Init
<1>7. QED
  BY <1>3, <1>4, <1>5, <1>6 DEF QueueInv

(* The numbers of messages that the channel is sent.                       *)
LEMMA SentAppends ==
  ASSUME NEW n \in Nat
  PROVE  /\ [i \in 1..n |-> i] \in Seq(Nat) /\ Len([i \in 1..n |-> i]) = n
         /\ [i \in 1..n + 1 |-> i] = Append([i \in 1..n |-> i], n + 1)
<1> DEFINE q == [i \in 1..n |-> i]
<1>1. q \in Seq(Nat) /\ Len(q) = n
  OBVIOUS
<1>2. \A i \in 1..n : q[i] = i
  OBVIOUS
<1> HIDE DEF q
<1>3. Append(q, n + 1) = [i \in 1..n + 1 |-> IF i = n + 1 THEN n + 1 ELSE q[i]]
  BY <1>1
<1>4. \A i \in 1..n + 1 : (IF i = n + 1 THEN n + 1 ELSE q[i]) = i
  BY <1>2
<1>5. Append(q, n + 1) = [i \in 1..n + 1 |-> i]
  BY <1>3, <1>4
<1>6. QED
  BY <1>1, <1>5 DEF q

LEMMA StepHolds ==
  ASSUME QueueInv, [Next]_vars
  PROVE  QueueInv' /\ [Channel!Next]_(Channel!vars)
<1> USE DEF ConsumersOK
<1>0. Holds /\ ConsumersOK /\ WokenForMessage /\ NotAllAsleep
  BY DEF QueueInv
<1>1. CASE PushFirst /\ pushed < MaxMsgs
  <2>1. Holds' /\ ring'.cur_size = ring.cur_size + 1
    BY <1>0, <1>1, PushAdds DEF PushFirst
  <2>2. ring.cur_size = 0 /\ ring'.cur_size = 1 /\ missed' = missed /\ Signal
    BY <1>0, <1>1, <2>1, HoldsNat DEF PushFirst, PushBack
  <2>3. ConsumersOK' /\ WokenForMessage' /\ NotAllAsleep'
    BY <1>0, <2>2, SignalWakes DEF WokenForMessage, NotAllAsleep
  <2>4. Channel!Send
    <3>1. pushed' = pushed + 1 /\ popped' = popped /\ pushed \in Nat
          /\ pushed + 1 \in Msgs
      BY <1>0, <1>1 DEF PushFirst, PushBack, Holds, Msgs
    <3>2. QED
      BY <3>1, SentAppends DEF Channel!Send
  <2>5. QED
    BY <2>1, <2>3, <2>4 DEF QueueInv, Channel!Next
<1>2. CASE PushMore /\ pushed < MaxMsgs
  <2>1. Holds' /\ ring'.cur_size = ring.cur_size + 1
    BY <1>0, <1>2, PushAdds DEF PushMore
  <2>2. /\ ring.cur_size > 0 /\ ring'.cur_size > 0 /\ missed' = missed
        /\ consumer' = consumer
    BY <1>0, <1>2, <2>1, HoldsNat DEF PushMore, PushBack
  <2>3. ConsumersOK' /\ WokenForMessage' /\ NotAllAsleep'
    BY <1>0, <2>2, SameRing DEF WokenForMessage, NotAllAsleep
  <2>4. Channel!Send
    <3>1. pushed' = pushed + 1 /\ popped' = popped /\ pushed \in Nat
          /\ pushed + 1 \in Msgs
      BY <1>0, <1>2 DEF PushMore, PushBack, Holds, Msgs
    <3>2. QED
      BY <3>1, SentAppends DEF Channel!Send
  <2>5. QED
    BY <2>1, <2>3, <2>4 DEF QueueInv, Channel!Next
<1>3. ASSUME NEW c \in Consumers, Take(c), ring.cur_size # 0
      PROVE  QueueInv' /\ Channel!Next
  <2>1. /\ Holds' /\ ring'.cur_size = ring.cur_size - 1
        /\ popped' = Append(popped, Len(popped) + 1) /\ Len(popped) < pushed
    BY <1>0, <1>3, TakeRemoves
  <2>2. /\ consumer' = [consumer EXCEPT ![c] = "idle"] /\ pushed' = pushed
        /\ missed' = (missed \/ \E d \in Consumers \ {c} : consumer[d] = "woken")
    BY <1>3 DEF Take
  <2>3. ConsumersOK' /\ WokenForMessage' /\ NotAllAsleep'
    BY <1>0, <1>3, <2>2 DEF WokenForMessage, NotAllAsleep
  <2>4. Channel!Deliver
    <3>1. pushed \in Nat /\ Len(popped) \in Nat
      BY <1>0, HoldsNat
    <3>2. Len([i \in 1..pushed |-> i]) = pushed
          /\ [i \in 1..pushed |-> i][Len(popped) + 1] = Len(popped) + 1
      BY <2>1, <3>1
    <3>3. QED
      BY <2>1, <2>2, <3>2 DEF Channel!Deliver
  <2>5. QED
    BY <2>1, <2>3, <2>4 DEF QueueInv, Channel!Next
  \* All other steps leave the ring and what was pushed and popped alone.
<1>4. ASSUME Holds', ring'.cur_size = ring.cur_size, ConsumersOK', WokenForMessage',
             Consumers # {} => \/ ring.cur_size = 0
                                \/ consumer' = consumer
                                \/ \E c \in Consumers : consumer'[c] # "waiting",
             UNCHANGED <<pushed, popped>>
      PROVE  QueueInv' /\ UNCHANGED Channel!vars
  <2>1. NotAllAsleep'
    BY <1>0, <1>4, SameRing DEF NotAllAsleep, Holds, RingP!RingOK
  <2>2. QED
    BY <1>4, <2>1 DEF QueueInv, Channel!vars
<1>5. CASE reset
  <2>1. ConsumersOK' /\ missed' = TRUE /\ UNCHANGED <<ring, pushed, popped>>
        /\ (Consumers # {} => \E c \in Consumers : consumer'[c] # "waiting")
    BY <1>0, <1>5, SignalWakes DEF reset
  <2>2. Holds' /\ WokenForMessage'
    BY <1>0, <2>1 DEF Holds, WokenForMessage
  <2>3. QED
    BY <1>4, <2>1, <2>2
<1>6. CASE resize
  <2>1. /\ Holds' /\ ring'.cur_size = ring.cur_size
        /\ UNCHANGED <<consumer, pushed, popped, missed>>
    BY <1>0, <1>6, ResizeHolds DEF resize
  <2>2. ConsumersOK' /\ WokenForMessage'
    BY <1>0, <2>1 DEF WokenForMessage
  <2>3. QED
    BY <1>4, <2>1, <2>2
<1>7. ASSUME NEW c \in Consumers, NEW s \in {"waiting", "woken", "failed"},
             consumer' = [consumer EXCEPT ![c] = s],
             UNCHANGED <<ring, pushed, popped>>, missed' \in BOOLEAN,
             missed => missed',
             s = "waiting" => ring.cur_size = 0,
             s \in {"woken", "failed"} => missed'
      PROVE  QueueInv' /\ UNCHANGED Channel!vars
  <2>1. Holds' /\ ConsumersOK'
    BY <1>0, <1>7 DEF Holds
  <2>2. WokenForMessage'
    BY <1>0, <1>7 DEF WokenForMessage
  <2>3. QED
    BY <1>0, <1>4, <1>7, <2>1, <2>2
<1>8. ASSUME NEW c \in Consumers, pop_msg(c) \/ WakeUp(c)
      PROVE  QueueInv' /\ [Channel!Next]_(Channel!vars)
  <2>1. CASE PopNow(c)
    BY <1>0, <1>3, <2>1, HoldsNat DEF PopNow
  <2>2. CASE PopWait(c)
    <3>1. ring.cur_size = 0
      BY <1>0, <2>2, HoldsNat DEF PopWait
    <3>2. QED
      BY <1>0, <1>7, <2>2, <3>1 DEF PopWait
  <2>3. CASE WakeUp(c)
    BY <1>7, <2>3 DEF WakeUp
  <2>4. CASE PopAfterWait(c)
    <3>1. CASE Ring!size(ring) > 0 /\ Take(c)
      BY <1>0, <1>3, <3>1, HoldsNat
    <3>2. CASE Ring!size(ring) = 0 /\ consumer' = [consumer EXCEPT ![c] = "failed"]
               /\ UNCHANGED <<ring, pushed, popped, missed>>
      <4>1. missed
        BY <1>0, <2>4, <3>2, HoldsNat DEF PopAfterWait, WokenForMessage
      <4>2. QED
        BY <1>0, <1>7, <3>2, <4>1
    <3>3. QED
      BY <2>4, <3>1, <3>2 DEF PopAfterWait
  <2>5. QED
    BY <1>8, <2>1, <2>2, <2>3, <2>4 DEF pop_msg
<1>9. CASE UNCHANGED vars
  <2>1. Holds' /\ WokenForMessage'
    BY <1>0, <1>9 DEF vars, Holds, WokenForMessage
  <2>2. QED
    BY <1>0, <1>4, <1>9, <2>1 DEF vars
<1>10. QED
  BY <1>1, <1>2, <1>5, <1>6, <1>8, <1>9 DEF Next, push_msg

-----------------------------------------------------------------------------
(* The theorems.                                                           *)

(* However many threads call pop_msg(), and although push_msg() signals    *)
(* only an empty queue: while there is a message, one thread is not        *)
(* asleep.                                                                 *)
THEOREM NotAllAsleepAlways == Spec => []NotAllAsleep
<1>1. QueueInv => NotAllAsleep
  BY DEF QueueInv
<1>2. QueueInv /\ [Next]_vars => QueueInv'
  BY StepHolds
<1>3. QED
  BY <1>1, <1>2, InitHolds, PTL DEF Spec

(* pop_msg() returns without a message only for one of the named reasons.  *)
THEOREM FailsForCauseAlways == Spec => []FailsForCause
<1>1. QueueInv => FailsForCause
  BY DEF QueueInv, WokenForMessage, ConsumersOK, FailsForCause
<1>2. QueueInv /\ [Next]_vars => QueueInv'
  BY StepHolds
<1>3. QED
  BY <1>1, <1>2, InitHolds, PTL DEF Spec

(* Whatever is accepted is returned once and in order: a push that is      *)
(* accepted is a Send of the channel, a pop a Deliver, and a resize or a   *)
(* wakeup neither loses nor moves anything.                                *)
THEOREM ImplementsChannelSafely == Spec => Channel!SafeSpec
<1>1. QueueInv /\ [Next]_vars => QueueInv' /\ [Channel!Next]_(Channel!vars)
  BY StepHolds
<1>2. QED
  BY <1>1, InitHolds, PTL DEF Spec, Channel!SafeSpec
=============================================================================
