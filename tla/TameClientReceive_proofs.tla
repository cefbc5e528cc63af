----------------------- MODULE TameClientReceive_proofs -----------------------
(* What holds of the receiving client for every number of readers, size    *)
(* of its queue, and whatever the server sends and wherever it ends.       *)
EXTENDS TameClientReceive, FiniteSetTheorems, SequenceTheorems,
        WellFoundedInduction, TLAPS

-----------------------------------------------------------------------------
(* The queue is a sequence and a reader is in one of its states.           *)
QueueOK  == \E S : user_data_queue \in Seq(S)
ReaderOK == reader \in [Readers -> {"idle", "fooled", "waiting", "woken"}]

(* The readers that are woken can be counted.                              *)
LEMMA WokenFinite == IsFiniteSet(Woken) /\ Cardinality(Woken) \in Nat
<1>1. Woken \subseteq Readers
  BY DEF Woken
<1>2. IsFiniteSet(Woken)
  BY <1>1, ReceiveAssumption, FS_Subset DEF ReceiveAssumption
<1>3. QED
  BY <1>2, FS_CardinalityType

(* What a push, a pop and the queue's emptiness mean for its length.       *)
LEMMA QueueSteps ==
  ASSUME QueueOK
  PROVE  /\ Len(user_data_queue) \in Nat
         /\ user_data_queue = <<>> <=> Len(user_data_queue) = 0
         /\ \A p : user_data_queue' = Append(user_data_queue, p) =>
              QueueOK' /\ Len(user_data_queue') = Len(user_data_queue) + 1
         /\ user_data_queue # <<>> /\ user_data_queue' = Tail(user_data_queue)
              => QueueOK' /\ Len(user_data_queue') = Len(user_data_queue) - 1
<1> PICK S : user_data_queue \in Seq(S)
  BY DEF QueueOK
<1>1. ASSUME NEW p, user_data_queue' = Append(user_data_queue, p)
      PROVE  QueueOK' /\ Len(user_data_queue') = Len(user_data_queue) + 1
  <2>1. user_data_queue \in Seq(S \cup {p})
    OBVIOUS
  <2>2. user_data_queue' \in Seq(S \cup {p})
    BY <1>1, <2>1
  <2>3. QED
    BY <1>1, <2>1, <2>2 DEF QueueOK
<1>2. ASSUME user_data_queue # <<>>, user_data_queue' = Tail(user_data_queue)
      PROVE  QueueOK' /\ Len(user_data_queue') = Len(user_data_queue) - 1
  <2>1. user_data_queue' \in Seq(S)
    BY <1>2
  <2>2. QED
    BY <1>2, <2>1 DEF QueueOK
<1>3. Len(user_data_queue) \in Nat /\ (user_data_queue = <<>> <=> Len(user_data_queue) = 0)
  OBVIOUS
<1>4. QED
  BY <1>1, <1>2, <1>3

(* A signal either wakes one more reader or finds none that waits.         *)
LEMMA SignalWakes ==
  ASSUME ReaderOK, Signal
  PROVE  /\ ReaderOK'
         /\ \A r \in Readers : reader'[r] = "fooled" => reader[r] = "fooled"
         /\ \/ Waiting = {} /\ Waiting' = {} /\ Woken' = Woken
            \/ /\ Waiting # {}
               /\ Cardinality(Woken') = Cardinality(Woken) + 1
<1> USE DEF ReaderOK
<1>1. CASE Waiting = {}
  BY <1>1 DEF Signal, Waiting, Woken
<1>2. CASE Waiting # {}
  <2>1. PICK r \in Waiting : reader' = [reader EXCEPT ![r] = "woken"]
    BY <1>2 DEF Signal
  <2>2. r \in Readers /\ r \notin Woken /\ Woken' = Woken \cup {r}
    BY <2>1 DEF Waiting, Woken
  <2>3. Cardinality(Woken') = Cardinality(Woken) + 1
    BY <2>2, WokenFinite, FS_AddElement
  <2>4. ReaderOK' /\ \A s \in Readers : reader'[s] = "fooled" => reader[s] = "fooled"
    BY <2>1, <2>2
  <2>5. QED
    BY <1>2, <2>3, <2>4
<1>3. QED
  BY <1>1, <1>2

(* A reader that takes a packet is woken no longer; nobody else changes.   *)
LEMMA TakeLeaves ==
  ASSUME ReaderOK, NEW r \in Readers, Take(r)
  PROVE  /\ ReaderOK' /\ Waiting' \subseteq Waiting /\ Woken' = Woken \ {r}
         /\ Cardinality(Woken') >= Cardinality(Woken) - 1
         /\ \A s \in Readers : reader'[s] = "fooled" => reader[s] = "fooled"
<1>1. /\ ReaderOK' /\ Waiting' \subseteq Waiting /\ Woken' = Woken \ {r}
      /\ \A s \in Readers : reader'[s] = "fooled" => reader[s] = "fooled"
  BY DEF Take, ReaderOK, Waiting, Woken
<1>2. Cardinality(Woken \ {r}) = IF r \in Woken THEN Cardinality(Woken) - 1
                                 ELSE Cardinality(Woken)
  BY WokenFinite, FS_RemoveElement
<1>3. Cardinality(Woken') >= Cardinality(Woken) - 1
  BY <1>1, <1>2, WokenFinite
<1>4. QED
  BY <1>1, <1>3

(* The steps that leave the queue and the readers alone.                   *)
Elsewhere == \/ RecvLength \/ RecvPayload \/ Reconnect
             \/ \E flag \in BOOLEAN : set_recv_blocking(flag)
             \/ UNCHANGED vars

LEMMA ElsewhereLeaves == Elsewhere => UNCHANGED queue_vars
BY DEF Elsewhere, RecvLength, RecvPayload, Reconnect, set_recv_blocking, vars,
       queue_vars

(* The steps that do not.                                                  *)
LEMMA StepCases ==
  ASSUME [Next]_vars
  PROVE  \/ Elsewhere
         \/ PushFits \/ PushDropped \/ PushRefused
         \/ \E r \in Readers : \/ ReadNow(r) \/ ReadWaits(r)
                               \/ ReadAfterWait(r) \/ WakeUp(r)
BY DEF Next, run, read, Elsewhere

-----------------------------------------------------------------------------
(* No reader sleeps beside more packets than readers are awake for.        *)
THEOREM NoSleepBesidePacketAlways == Spec => []NoSleepBesidePacket
<1> DEFINE Inv == QueueOK /\ ReaderOK /\ NoSleepBesidePacket
<1>1. Init => Inv
  <2> SUFFICES ASSUME Init PROVE Inv
    OBVIOUS
  <2>1. user_data_queue \in Seq({}) /\ ReaderOK /\ Waiting = {}
    BY DEF Init, ReaderOK, Waiting
  <2>2. QED
    BY <2>1 DEF QueueOK, NoSleepBesidePacket
<1>2. Inv /\ [Next]_vars => Inv'
  <2> SUFFICES ASSUME Inv, [Next]_vars PROVE Inv'
    OBVIOUS
  <2>1. /\ Len(user_data_queue) \in Nat /\ Cardinality(Woken) \in Nat
        /\ QueueOK /\ ReaderOK
    BY QueueSteps, WokenFinite
  <2>2. CASE Elsewhere
    <3>1. UNCHANGED <<user_data_queue, reader>>
      BY <2>2, ElsewhereLeaves DEF queue_vars
    <3>2. QED
      BY <3>1 DEF QueueOK, ReaderOK, NoSleepBesidePacket, Waiting, Woken
  <2>3. CASE PushFits
    <3>1. Signal /\ QueueOK' /\ Len(user_data_queue') = Len(user_data_queue) + 1
      BY <2>3, QueueSteps DEF PushFits
    <3>2. QED
      BY <2>1, <3>1, SignalWakes DEF NoSleepBesidePacket
  <2>4. CASE PushDropped \/ PushRefused
    <3>1. Signal /\ user_data_queue' = user_data_queue
      BY <2>4 DEF PushDropped, PushRefused
    <3>2. QED
      BY <2>1, <3>1, SignalWakes DEF NoSleepBesidePacket, QueueOK
  <2>5. ASSUME NEW r \in Readers, Take(r), user_data_queue # <<>> PROVE Inv'
    <3>1. QueueOK' /\ Len(user_data_queue') = Len(user_data_queue) - 1
      BY <2>5, QueueSteps DEF Take
    <3>2. /\ ReaderOK' /\ Waiting' \subseteq Waiting
          /\ Cardinality(Woken') >= Cardinality(Woken) - 1
      BY <2>5, TakeLeaves
    <3>3. Cardinality(Woken') \in Nat
      BY <3>2, <2>5, TakeLeaves, WokenFinite, FS_RemoveElement, FS_CardinalityType
    <3>4. QED
      BY <2>1, <3>1, <3>2, <3>3 DEF NoSleepBesidePacket
  <2>6. ASSUME NEW r \in Readers, user_data_queue = <<>>,
               user_data_queue' = user_data_queue,
               NEW s \in {"idle", "fooled", "waiting", "woken"},
               reader' = [reader EXCEPT ![r] = s]
        PROVE  Inv'
    <3>1. ReaderOK' /\ QueueOK' /\ Len(user_data_queue') = 0
      BY <2>1, <2>6 DEF ReaderOK, QueueOK
    <3>2. Woken' \subseteq Readers
      BY DEF Woken
    <3>3. Cardinality(Woken') \in Nat
      BY <3>2, ReceiveAssumption, FS_Subset, FS_CardinalityType DEF ReceiveAssumption
    <3>4. QED
      BY <3>1, <3>3 DEF NoSleepBesidePacket
  <2>7. ASSUME NEW r \in Readers, WakeUp(r) PROVE Inv'
    <3>1. /\ user_data_queue' = user_data_queue /\ reader[r] = "waiting"
          /\ reader' = [reader EXCEPT ![r] = "woken"]
      BY <2>7 DEF WakeUp
    <3>2. ReaderOK' /\ QueueOK' /\ r \in Waiting
      BY <2>1, <3>1 DEF ReaderOK, QueueOK, Waiting
    <3>3. Woken' = Woken \cup {r} /\ r \notin Woken
      BY <2>1, <3>1 DEF Woken, ReaderOK
    <3>4. Cardinality(Woken') = Cardinality(Woken) + 1
      BY <3>3, WokenFinite, FS_AddElement
    <3>5. QED
      BY <2>1, <3>1, <3>2, <3>4 DEF NoSleepBesidePacket
  <2>8. QED
    BY <2>2, <2>3, <2>4, <2>5, <2>6, <2>7, StepCases
       DEF ReadNow, ReadWaits, ReadAfterWait
<1>3. Inv => NoSleepBesidePacket
  OBVIOUS
<1>4. QED
  BY <1>1, <1>2, <1>3, PTL DEF Spec

-----------------------------------------------------------------------------
(* Unless somebody was faster or a wakeup was none, a woken reader finds a *)
(* packet; so read() never returns without one.                            *)
WokenForPacket == ~missed => Woken = {} \/ user_data_queue # <<>>

THEOREM ReturnsPacketsAlways == Spec => []ReturnsPackets
<1> DEFINE Inv == QueueOK /\ ReaderOK /\ WokenForPacket /\ ReturnsPackets
<1>1. Init => Inv
  <2> SUFFICES ASSUME Init PROVE Inv
    OBVIOUS
  <2>1. user_data_queue \in Seq({}) /\ ReaderOK /\ Woken = {}
    BY DEF Init, ReaderOK, Woken
  <2>2. \A r \in Readers : reader[r] # "fooled"
    BY DEF Init
  <2>3. QED
    BY <2>1, <2>2 DEF QueueOK, WokenForPacket, ReturnsPackets
<1>2. Inv /\ [Next]_vars => Inv'
  <2> SUFFICES ASSUME Inv, [Next]_vars PROVE Inv'
    OBVIOUS
  <2>1. QueueOK /\ ReaderOK
    OBVIOUS
  <2>2. CASE Elsewhere
    <3>1. UNCHANGED queue_vars
      BY <2>2, ElsewhereLeaves
    <3>2. QED
      BY <3>1 DEF QueueOK, ReaderOK, WokenForPacket, ReturnsPackets, Woken, queue_vars
  <2>3. ASSUME Signal, UNCHANGED missed, QueueOK', user_data_queue' # <<>>
        PROVE  Inv'
    BY <2>1, <2>3, SignalWakes DEF WokenForPacket, ReturnsPackets
  <2>4. CASE PushFits
    <3>1. QueueOK' /\ user_data_queue' # <<>>
      <4>1. /\ QueueOK' /\ Len(user_data_queue') = Len(user_data_queue) + 1
            /\ Len(user_data_queue) \in Nat
        BY <2>1, <2>4, QueueSteps DEF PushFits
      <4>2. QED
        BY <4>1
    <3>2. QED
      BY <2>3, <2>4, <3>1 DEF PushFits
  <2>5. CASE PushDropped \/ PushRefused
    <3>1. Full /\ user_data_queue' = user_data_queue /\ Signal /\ UNCHANGED missed
      BY <2>5 DEF PushDropped, PushRefused
    <3>2. QueueOK' /\ user_data_queue' # <<>>
      BY <2>1, <3>1, ReceiveAssumption DEF ReceiveAssumption, Full, QueueOK
    <3>3. QED
      BY <2>3, <3>1, <3>2
  <2>6. ASSUME NEW r \in Readers, Take(r), user_data_queue # <<>> PROVE Inv'
    <3>1. QueueOK'
      BY <2>6, QueueSteps DEF Take
    <3>2. /\ ReaderOK' /\ Woken' = Woken \ {r}
          /\ \A s \in Readers : reader'[s] = "fooled" => reader[s] = "fooled"
      BY <2>6, TakeLeaves
    <3>3. missed' = (missed \/ Woken \ {r} # {})
      BY <2>6 DEF Take
    <3>4. WokenForPacket'
      BY <3>2, <3>3, Zenon DEF WokenForPacket
    <3>5. ReturnsPackets'
      BY <3>2, <3>3, Zenon DEF ReturnsPackets
    <3>6. QED
      BY <3>1, <3>2, <3>4, <3>5
  <2>7. ASSUME NEW r \in Readers, ReadWaits(r) PROVE Inv'
    BY <2>7 DEF ReadWaits, QueueOK, ReaderOK, WokenForPacket, ReturnsPackets, Woken
  <2>8. ASSUME NEW r \in Readers, ReadAfterWait(r), user_data_queue = <<>>
        PROVE  Inv'
    <3>1. PICK s \in {"idle", "fooled"} : reader' = [reader EXCEPT ![r] = s]
      BY <2>8 DEF ReadAfterWait
    <3>2. UNCHANGED <<user_data_queue, missed>> /\ reader[r] = "woken"
      BY <2>8 DEF ReadAfterWait
    <3>3. r \in Woken
      BY <3>2 DEF Woken
    <3>4. missed
      BY <2>8, <3>3 DEF WokenForPacket
    <3>5. QED
      BY <3>1, <3>2, <3>4 DEF QueueOK, ReaderOK, WokenForPacket, ReturnsPackets
  <2>9. ASSUME NEW r \in Readers, WakeUp(r) PROVE Inv'
    BY <2>9 DEF WakeUp, QueueOK, ReaderOK, WokenForPacket, ReturnsPackets
  <2>10. QED
    BY <2>2, <2>4, <2>5, <2>6, <2>7, <2>8, <2>9, StepCases
       DEF ReadNow, ReadAfterWait
<1>3. Inv => ReturnsPackets
  OBVIOUS
<1>4. QED
  BY <1>1, <1>2, <1>3, PTL DEF Spec

-----------------------------------------------------------------------------
(* The length of a packet on the wire.                                     *)

(* Division: a quotient and a remainder less than the divisor, the only    *)
(* pair of the kind.                                                       *)
LEMMA Division ==
  ASSUME NEW n \in Nat, NEW b \in Nat \ {0}
  PROVE  /\ n \div b \in Nat /\ n % b \in 0..b - 1
         /\ n = b * (n \div b) + (n % b)
<1> DEFINE q == n \div b
           r == n % b
<1>1. r = n - b * q
  OBVIOUS
<1>2. r \in 0..b - 1
  OBVIOUS
<1>3. q \in Nat
  OBVIOUS
<1> HIDE DEF q, r
<1>4. b * q \in Nat
  BY <1>3
<1>5. n = b * q + r
  BY <1>1, <1>2, <1>4
<1>6. QED
  BY <1>2, <1>3, <1>5 DEF q, r

LEMMA OneDivision ==
  ASSUME NEW b \in Nat \ {0}, NEW q \in Nat, NEW p \in Nat,
         NEW r \in 0..b - 1, NEW s \in 0..b - 1, b * q + r = b * p + s
  PROVE  q = p /\ r = s
<1>1. ASSUME q < p PROVE FALSE
  <2>1. q + 1 <= p
    BY <1>1
  <2>2. b * (q + 1) <= b * p
    BY <2>1
  <2>3. b * (q + 1) = b * q + b
    OBVIOUS
  <2>4. QED
    BY <2>2, <2>3
<1>2. ASSUME p < q PROVE FALSE
  <2>1. p + 1 <= q
    BY <1>2
  <2>2. b * (p + 1) <= b * q
    BY <2>1
  <2>3. b * (p + 1) = b * p + b
    OBVIOUS
  <2>4. QED
    BY <2>2, <2>3
<1>3. QED
  BY <1>1, <1>2

(* A length that fits its two digits survives hton_t() and ntoh_t().       *)
LEMMA SwapTwice ==
  ASSUME NEW n \in Nat, n < Base * Base
  PROVE  Swap(Swap(n)) = n
<1> DEFINE d == n \div Base
           m == n % Base
<1>1. Base \in Nat \ {0} /\ d \in Nat /\ m \in 0..Base - 1 /\ n = Base * d + m
  BY ReceiveAssumption, Division DEF ReceiveAssumption
<1> HIDE DEF d, m
<1>2. d < Base
  <2>1. ASSUME Base <= d PROVE FALSE
    <3>1. Base * Base <= Base * d
      BY <1>1, <2>1
    <3>2. Base * Base \in Nat /\ Base * d \in Nat
      BY <1>1
    <3>3. QED
      BY <1>1, <3>1, <3>2
  <2>2. QED
    BY <1>1, <2>1
<1>3. Base * m \in Nat
  BY <1>1
<1> DEFINE k == Base * m + d
<1>4. k \in Nat /\ Swap(n) = k
  BY <1>1, <1>3 DEF Swap, d, m
<1>5. k \div Base = m /\ k % Base = d
  <2> DEFINE q == k \div Base
             r == k % Base
  <2>1. q \in Nat /\ r \in 0..Base - 1 /\ k = Base * q + r
    BY <1>1, <1>4, Division
  <2>2. m \in Nat /\ d \in 0..Base - 1 /\ Base * q + r = Base * m + d
    BY <1>1, <1>2, <2>1
  <2> HIDE DEF q, r
  <2>3. q = m /\ r = d
    BY <1>1, <2>1, <2>2, OneDivision
  <2>4. QED
    BY <2>3 DEF q, r
<1>6. Swap(k) = n
  BY <1>1, <1>5 DEF Swap
<1>7. QED
  BY <1>4, <1>6

-----------------------------------------------------------------------------
(* Stream, which is recursive.  A set of numbers that is not empty has a   *)
(* least one, so there is no first packet at which it could go astray.     *)

LEMMA LeastNumber ==
  ASSUME NEW T \in SUBSET Nat, T # {}
  PROVE  \E x \in T : \A y \in T : x <= y
<1> DEFINE R == OpToRel(<, Nat)
<1>1. IsWellFoundedOn(R, Nat)
  BY NatLessThanWellFounded
<1>2. \A y, x \in Nat : <<y, x>> \in R <=> y < x
  BY DEF OpToRel
<1> HIDE DEF R
<1>3. \E x \in T : \A y \in T : ~ (<<y, x>> \in R)
  BY <1>1, WFMin
<1>4. \A x, y \in T : ~ (y < x) => x <= y
  OBVIOUS
<1>5. QED
  BY <1>2, <1>3, <1>4

(* All the packets ps, one after the other, in s: packet j ends at off[j]. *)
Cut(ps, k, off, s) ==
  /\ off \in [0..k -> Nat] /\ off[0] = 0 /\ off[k] = Len(s)
  /\ \A j \in 1..k :
       /\ Len(ps[j]) \in Nat
       /\ off[j] = off[j - 1] + 1 + Len(ps[j]) /\ off[j] <= Len(s)
       /\ s[off[j - 1] + 1] = Swap(Len(ps[j]))
       /\ \A i \in 1..Len(ps[j]) : s[off[j - 1] + 1 + i] = ps[j][i]

(* How FlattenSeq joins the sequences qs: v[k] is the first k of them.     *)
Joins(v, qs, n) ==
  \A k \in 1..n : v[k] = IF k = 1 THEN qs[k] ELSE v[k - 1] \o qs[k]

LEMMA JoinsExist ==
  ASSUME NEW qs, NEW n \in Nat
  PROVE  \E v : v = [k \in 1..n |-> IF k = 1 THEN qs[k] ELSE v[k - 1] \o qs[k]]
<1> DEFINE Join(v, m) == [k \in 1..m |-> IF k = 1 THEN qs[k] ELSE v[k - 1] \o qs[k]]
           T == {m \in Nat : ~ \E v : v = Join(v, m)}
<1>1. T = {}
  <2> SUFFICES ASSUME T # {} PROVE FALSE
    OBVIOUS
  <2>1. PICK m \in T : \A y \in T : m <= y
    <3>1. T \in SUBSET Nat
      OBVIOUS
    <3>2. QED
      BY <3>1, LeastNumber
  <2>2. m # 0
    <3>1. SUFFICES ASSUME m = 0 PROVE FALSE
      OBVIOUS
    <3>2. PICK v : v = [k \in 1..0 |-> qs[k]]
      OBVIOUS
    <3>3. v = Join(v, 0)
      BY <3>2
    <3>4. QED
      BY <2>1, <3>1, <3>3
  <2>3. m - 1 \in Nat /\ m - 1 \notin T /\ m \in Nat
    <3>1. m \in Nat
      OBVIOUS
    <3>2. m - 1 \in Nat /\ ~ (m <= m - 1)
      BY <2>2, <3>1
    <3>3. QED
      BY <2>1, <3>1, <3>2
  <2>4. PICK v : v = Join(v, m - 1)
    BY <2>3
  <2>5. \A k \in 1..m - 1 : v[k] = IF k = 1 THEN qs[k] ELSE v[k - 1] \o qs[k]
    <3>1. \A k \in 1..m - 1 : v[k] = Join(v, m - 1)[k]
      BY <2>4
    <3>2. QED
      BY <3>1
  <2> DEFINE u == IF m = 1 THEN qs[m] ELSE v[m - 1] \o qs[m]
             w == [k \in 1..m |-> IF k = m THEN u ELSE v[k]]
  <2>6. \A k \in 1..m : (k \in 1..m - 1 /\ k # m) \/ k = m
    BY <2>3
  <2>7. \A k \in 1..m : k # 1 => k - 1 \in 1..m - 1 /\ k - 1 \in 1..m /\ k - 1 # m
    BY <2>3
  <2>8. \A k \in 1..m : w[k] = IF k = 1 THEN qs[k] ELSE w[k - 1] \o qs[k]
    BY <2>5, <2>6, <2>7
  <2>9. w = Join(w, m)
    <3>1. \A k \in 1..m : w[k] = Join(w, m)[k]
      BY <2>8
    <3>2. QED
      BY <3>1
  <2>10. QED
    BY <2>1, <2>9
<1>2. QED
  BY <1>1

LEMMA Concatenated ==
  ASSUME NEW D, NEW s \in Seq(D), NEW u \in Seq(D)
  PROVE  /\ s \o u \in Seq(D) /\ Len(s \o u) = Len(s) + Len(u)
         /\ \A i \in 1..Len(s) : (s \o u)[i] = s[i]
         /\ \A i \in 1..Len(u) : (s \o u)[Len(s) + i] = u[i]
<1>1. /\ s \o u \in Seq(D) /\ Len(s \o u) = Len(s) + Len(u)
      /\ \A i \in 1..Len(s) + Len(u) :
           (s \o u)[i] = IF i <= Len(s) THEN s[i] ELSE u[i - Len(s)]
  BY ConcatProperties
<1>2. Len(s) \in Nat /\ Len(u) \in Nat
  OBVIOUS
<1>3. \A i \in 1..Len(u) : /\ Len(s) + i \in 1..Len(s) + Len(u) /\ ~ (Len(s) + i <= Len(s))
                           /\ (Len(s) + i) - Len(s) = i
  BY <1>2
<1>4. \A i \in 1..Len(s) : i \in 1..Len(s) + Len(u) /\ i <= Len(s)
  BY <1>2
<1>5. QED
  BY <1>1, <1>3, <1>4

(* Joining one packet more.                                                *)
LEMMA CutMore ==
  ASSUME NEW D, NEW ps, NEW k \in Nat, NEW off, NEW s \in Seq(D), Cut(ps, k, off, s),
         NEW q \in Seq(D), NEW h \in D, ps[k + 1] = q, h = Swap(Len(q))
  PROVE  \E off2 : Cut(ps, k + 1, off2, s \o (<<h>> \o q))
<1> DEFINE t == s \o (<<h>> \o q)
           l == Len(s) + 1 + Len(q)
           off2 == [j \in 0..k + 1 |-> IF j <= k THEN off[j] ELSE l]
<1>1. /\ t \in Seq(D) /\ Len(t) = l /\ l \in Nat /\ Len(s) \in Nat /\ Len(q) \in Nat
      /\ \A i \in 1..Len(s) : t[i] = s[i]
      /\ t[Len(s) + 1] = h
      /\ \A i \in 1..Len(q) : t[Len(s) + 1 + i] = q[i]
  <2> DEFINE u == <<h>> \o q
  <2>1. u \in Seq(D) /\ Len(u) = 1 + Len(q) /\ u[1] = h
        /\ \A i \in 1..Len(q) : u[1 + i] = q[i]
    OBVIOUS
  <2>2. u \in Seq(D)
    BY <2>1
  <2> HIDE DEF u
  <2>3. /\ s \o u \in Seq(D) /\ Len(s \o u) = Len(s) + Len(u)
        /\ \A i \in 1..Len(s) : (s \o u)[i] = s[i]
        /\ \A i \in 1..Len(u) : (s \o u)[Len(s) + i] = u[i]
    BY <2>2, Concatenated
  <2>4. \A i \in 1..Len(q) : 1 + i \in 1..Len(u) /\ Len(s) + (1 + i) = Len(s) + 1 + i
    BY <2>1
  <2>5. 1 \in 1..Len(u)
    BY <2>1
  <2>6. t = s \o u /\ l = Len(s) + Len(u)
    BY <2>1 DEF u
  <2>7. Len(s) \in Nat /\ Len(q) \in Nat /\ l \in Nat
    OBVIOUS
  <2> HIDE DEF t, l
  <2>8. t[Len(s) + 1] = h
    BY <2>1, <2>3, <2>5, <2>6
  <2>9. ASSUME NEW i \in 1..Len(q) PROVE t[Len(s) + 1 + i] = q[i]
    <3>1. 1 + i \in 1..Len(u) /\ Len(s) + (1 + i) = Len(s) + 1 + i
      BY <2>4
    <3>2. t[Len(s) + (1 + i)] = u[1 + i]
      BY <2>3, <2>6, <3>1
    <3>3. QED
      BY <2>1, <3>1, <3>2
  <2>10. QED
    BY <2>3, <2>6, <2>7, <2>8, <2>9
<1> HIDE DEF t, l
<1>2. /\ off \in [0..k -> Nat] /\ off[0] = 0 /\ off[k] = Len(s)
      /\ \A j \in 1..k :
           /\ Len(ps[j]) \in Nat
           /\ off[j] = off[j - 1] + 1 + Len(ps[j]) /\ off[j] <= Len(s)
           /\ s[off[j - 1] + 1] = Swap(Len(ps[j]))
           /\ \A i \in 1..Len(ps[j]) : s[off[j - 1] + 1 + i] = ps[j][i]
  BY DEF Cut
<1>3. /\ off2 \in [0..k + 1 -> Nat] /\ off2[0] = 0 /\ off2[k + 1] = l
      /\ \A j \in 0..k : off2[j] = off[j]
  <2>1. \A j \in 0..k + 1 : j <= k => j \in 0..k
    OBVIOUS
  <2>2. 0 \in 0..k + 1 /\ 0 <= k /\ k + 1 \in 0..k + 1 /\ ~ (k + 1 <= k)
    OBVIOUS
  <2>3. \A j \in 0..k : j \in 0..k + 1 /\ j <= k
    OBVIOUS
  <2>4. QED
    BY <1>1, <1>2, <2>1, <2>2, <2>3
<1> HIDE DEF off2
<1>4. ASSUME NEW j \in 1..k
      PROVE  /\ Len(ps[j]) \in Nat
             /\ off2[j] = off2[j - 1] + 1 + Len(ps[j]) /\ off2[j] <= Len(t)
             /\ t[off2[j - 1] + 1] = Swap(Len(ps[j]))
             /\ \A i \in 1..Len(ps[j]) : t[off2[j - 1] + 1 + i] = ps[j][i]
  <2>1. j \in 0..k /\ j - 1 \in 0..k
    OBVIOUS
  <2>2. off[j] \in Nat /\ off[j - 1] \in Nat
    BY <1>2, <2>1
  <2>3. /\ Len(ps[j]) \in Nat
        /\ off[j] = off[j - 1] + 1 + Len(ps[j]) /\ off[j] <= Len(s)
    BY <1>2
  <2>4. /\ s[off[j - 1] + 1] = Swap(Len(ps[j]))
        /\ \A i \in 1..Len(ps[j]) : s[off[j - 1] + 1 + i] = ps[j][i]
    BY <1>2
  <2>5. /\ off[j - 1] + 1 \in 1..Len(s)
        /\ \A i \in 1..Len(ps[j]) : off[j - 1] + 1 + i \in 1..Len(s)
    <3>1. PICK a, b, c, d : a = off[j - 1] /\ b = Len(ps[j]) /\ c = off[j] /\ d = Len(s)
      OBVIOUS
    <3>2. a \in Nat /\ b \in Nat /\ c = a + 1 + b /\ c <= d /\ d \in Nat
      BY <1>1, <2>2, <2>3, <3>1
    <3>3. a + 1 \in 1..d /\ \A i \in 1..b : a + 1 + i \in 1..d
      BY <3>2
    <3>4. QED
      BY <3>1, <3>3
  <2>6. off2[j] = off[j] /\ off2[j - 1] = off[j - 1]
    BY <1>3, <2>1
  <2>7. QED
    <3>1. off2[j] <= Len(t)
      BY <1>1, <2>2, <2>3, <2>6 DEF l
    <3>2. t[off[j - 1] + 1] = Swap(Len(ps[j]))
      BY <1>1, <2>4, <2>5
    <3>3. \A i \in 1..Len(ps[j]) : t[off[j - 1] + 1 + i] = ps[j][i]
      BY <1>1, <2>4, <2>5
    <3>4. QED
      BY <2>3, <2>6, <3>1, <3>2, <3>3
<1>5. /\ Len(ps[k + 1]) \in Nat
      /\ off2[k + 1] = off2[k] + 1 + Len(ps[k + 1]) /\ off2[k + 1] <= Len(t)
      /\ t[off2[k] + 1] = Swap(Len(ps[k + 1]))
      /\ \A i \in 1..Len(ps[k + 1]) : t[off2[k] + 1 + i] = ps[k + 1][i]
  <2>1. off2[k] = Len(s)
    BY <1>2, <1>3
  <2>2. QED
    BY <1>1, <1>3, <2>1 DEF l
<1>6. \A j \in 1..k + 1 : j \in 1..k \/ j = k + 1
  OBVIOUS
<1>7. (k + 1) - 1 = k
  OBVIOUS
<1>8. Cut(ps, k + 1, off2, t)
  <2>1. off2[k + 1] = Len(t)
    BY <1>1, <1>3
  <2>2. ASSUME NEW j \in 1..k + 1
        PROVE  /\ Len(ps[j]) \in Nat
               /\ off2[j] = off2[j - 1] + 1 + Len(ps[j]) /\ off2[j] <= Len(t)
               /\ t[off2[j - 1] + 1] = Swap(Len(ps[j]))
               /\ \A i \in 1..Len(ps[j]) : t[off2[j - 1] + 1 + i] = ps[j][i]
    BY <1>4, <1>5, <1>6, <1>7
  <2>3. QED
    BY <1>3, <2>1, <2>2 DEF Cut
<1>9. QED
  BY <1>8 DEF t

LEMMA EmptyCut == ASSUME NEW ps PROVE \E off : Cut(ps, 0, off, <<>>)
<1>1. Cut(ps, 0, [j \in 0..0 |-> 0], <<>>)
  BY DEF Cut
<1>2. QED
  BY <1>1

(* What the server writes is its packets one after the other.              *)
LEMMA StreamCut ==
  ASSUME NEW n \in Nat, NEW ps \in [1..n -> Seq(Nat)],
         \A j \in 1..n : Swap(Len(ps[j])) \in Nat
  PROVE  Stream(ps) \in Seq(Nat) /\ \E off : Cut(ps, n, off, Stream(ps))
<1> DEFINE qs == [i \in DOMAIN ps |-> <<Swap(Len(ps[i]))>> \o ps[i]]
           Join(v) == [k \in 1..n |-> IF k = 1 THEN qs[k] ELSE v[k - 1] \o qs[k]]
<1>1. Stream(ps) = FlattenSeq(qs)
  BY DEF Stream
<1>2. DOMAIN ps = 1..n /\ DOMAIN qs = 1..n /\ Len(qs) = n
  OBVIOUS
<1>3. \A i \in 1..n : qs[i] = <<Swap(Len(ps[i]))>> \o ps[i] /\ qs[i] \in Seq(Nat)
  BY <1>2
<1> HIDE DEF qs
<1>4. CASE n = 0
  <2>1. Stream(ps) = qs
    BY <1>1, <1>2, <1>4 DEF FlattenSeq
  <2>2. qs = <<>>
    BY <1>2, <1>4 DEF qs
  <2>3. QED
    BY <1>4, <2>1, <2>2, EmptyCut
<1>5. CASE n # 0
  <2>1. PICK v : v = Join(v) /\ Stream(ps) = v[n]
    <3>1. \E v : v = Join(v)
      BY JoinsExist
    <3>2. QED
      BY <1>1, <1>2, <1>5, <3>1 DEF FlattenSeq
  <2>2. \A k \in 1..n : v[k] = IF k = 1 THEN qs[k] ELSE v[k - 1] \o qs[k]
    <3>1. \A k \in 1..n : v[k] = Join(v)[k]
      BY <2>1
    <3>2. QED
      BY <3>1
  <2> DEFINE Good(k) == v[k] \in Seq(Nat) /\ \E off : Cut(ps, k, off, v[k])
             T == {k \in 1..n : ~ Good(k)}
  <2>3. T = {}
    <3> SUFFICES ASSUME T # {} PROVE FALSE
      OBVIOUS
    <3>1. PICK m \in T : \A y \in T : m <= y
      <4>1. T \in SUBSET Nat
        OBVIOUS
      <4>2. QED
        BY <4>1, LeastNumber
    <3>2. m \in 1..n /\ ~ Good(m)
      BY <3>1
    <3>3. m # 1 => m - 1 \in 1..n /\ Good(m - 1)
      <4>1. m # 1 => m - 1 \in 1..n /\ ~ (m <= m - 1)
        BY <3>2
      <4>2. QED
        BY <3>1, <4>1
    <3>4. PICK k \in Nat, s \in Seq(Nat) : /\ k = m - 1 /\ v[m] = s \o qs[m]
                                         /\ \E off : Cut(ps, k, off, s)
      <4>1. CASE m = 1
        <5>1. v[1] = <<>> \o qs[1]
          BY <1>3, <1>5, <2>2
        <5>2. 0 = m - 1 /\ v[m] = <<>> \o qs[m]
          BY <4>1, <5>1
        <5>3. \E off : Cut(ps, 0, off, <<>>)
          BY EmptyCut
        <5>4. <<>> \in Seq(Nat)
          OBVIOUS
        <5> WITNESS 0 \in Nat, <<>> \in Seq(Nat)
        <5>5. QED
          BY <5>2, <5>3
      <4>2. CASE m # 1
        <5>1. m - 1 \in Nat /\ v[m - 1] \in Seq(Nat)
          BY <3>3, <4>2
        <5>2. v[m] = v[m - 1] \o qs[m] /\ \E off : Cut(ps, m - 1, off, v[m - 1])
          BY <2>2, <3>2, <3>3, <4>2
        <5>3. PICK k, s : k = m - 1 /\ s = v[m - 1]
          OBVIOUS
        <5>4. k \in Nat /\ s \in Seq(Nat)
          BY <5>1, <5>3
        <5> USE <5>4
        <5> WITNESS k \in Nat, s \in Seq(Nat)
        <5>5. QED
          BY <5>2, <5>3
      <4>3. QED
        BY <4>1, <4>2
    <3>5. PICK off : Cut(ps, k, off, s)
      BY <3>4
    <3>6. k + 1 = m /\ ps[m] \in Seq(Nat) /\ Swap(Len(ps[m])) \in Nat
      BY <3>2, <3>4
    <3>7. qs[m] = <<Swap(Len(ps[m]))>> \o ps[m] /\ qs[m] \in Seq(Nat)
      BY <1>3, <3>2
    <3>8. \E off2 : Cut(ps, m, off2, s \o qs[m])
      <4>1. PICK h, q : h = Swap(Len(ps[m])) /\ q = ps[m]
        OBVIOUS
      <4>2. h \in Nat /\ q \in Seq(Nat) /\ ps[k + 1] = q /\ h = Swap(Len(q))
        BY <3>6, <4>1
      <4>3. \E off2 : Cut(ps, k + 1, off2, s \o (<<h>> \o q))
        BY <3>5, <4>2, CutMore
      <4>4. QED
        BY <3>6, <3>7, <4>1, <4>3
    <3>9. s \o qs[m] \in Seq(Nat)
      BY <3>4, <3>7, Concatenated
    <3>10. QED
      BY <3>2, <3>4, <3>8, <3>9
  <2>4. n \in 1..n
    BY <1>5
  <2>5. Good(n)
    BY <2>3, <2>4
  <2>6. QED
    BY <2>1, <2>5
<1>6. QED
  BY <1>4, <1>5

-----------------------------------------------------------------------------
(* What the invariant says of a connection that is not out of step.  s is  *)
(* what the server writes, packet j of it ends at off[j]; run() has read   *)
(* the packets up to j and stands before the length of the next one, or    *)
(* between it and the payload.                                             *)

(* What can still be received follows position p of s.                     *)
Ahead(s, p) == /\ p \in Nat /\ p + Len(wire) <= Len(s)
               /\ \A i \in 1..Len(wire) : wire[i] = s[p + i]

OnTrack(s, off, j) ==
  /\ s \in Seq(Nat) /\ Cut(sent, Len(sent), off, s)
  /\ pc # "payload" => Ahead(s, off[j])
  /\ pc = "payload" => /\ Ahead(s, off[j] + 1)
                       /\ j + 1 \in 1..Len(sent)
                       /\ total_pkt_len = Len(sent[j + 1])

(* Of the packets up to j those that are not empty were received.          *)
Matched(at, j) ==
  /\ at \in [0..Len(received) -> 0..Len(sent)]
  /\ Follows(at, Len(received)) /\ at[Len(received)] <= j
  /\ \A k \in at[Len(received)] + 1..j : sent[k] = <<>>

Whole(at) == \A i \in 1..Len(received) : received[i] = sent[at[i]]

(* The connection has ended, perhaps within the last packet.               *)
Ended(at) ==
  LET n == Len(received)
  IN  /\ wire = <<>> /\ pc # "payload"
      /\ \A i \in 1..n - 1 : received[i] = sent[at[i]]
      /\ n > 0 => received[n] = sent[at[n]] \/ IsPrefix(received[n], sent[at[n]])

Types ==
  /\ sent \in Seq(Seq(Nat)) /\ wire \in Seq(Nat) /\ received \in Seq(Seq(Nat))
  /\ total_pkt_len \in Nat
  /\ \A i \in 1..Len(sent) : Len(sent[i]) < Base * Base

Track == ~derailed => \E j \in 0..Len(sent) : \E at :
  /\ Matched(at, j)
  /\ \/ Whole(at) /\ pc = "overrun"
     \/ Whole(at) /\ \E s, off : OnTrack(s, off, j)
     \/ Ended(at)

ClientInv == Types /\ Track /\ OverrunForCause

-----------------------------------------------------------------------------
LEMMA TrackIsInStep == ASSUME ClientInv PROVE InStep
<1> SUFFICES ASSUME ~derailed PROVE InStep
  BY DEF InStep
<1>1. PICK j \in 0..Len(sent) : \E at : Matched(at, j) /\ (Whole(at) \/ Ended(at))
  BY DEF ClientInv, Track
<1>2. PICK at : Matched(at, j) /\ (Whole(at) \/ Ended(at))
  BY <1>1
<1>3. Len(received) \in Nat
  BY DEF ClientInv, Types
<1>4. at \in [0..Len(received) -> 0..Len(sent)] /\ Follows(at, Len(received))
  BY <1>2 DEF Matched
<1>5. \A i \in 1..Len(received) - 1 : i \in 1..Len(received)
  BY <1>3
<1>6. Len(received) > 0 => Len(received) \in 1..Len(received)
  BY <1>3
<1>7. QED
  BY <1>4, <1>5, <1>6, <1>2 DEF InStep, Whole, Ended

(* A packet that is not empty is matched to the next place.                *)
LEMMA MatchMore ==
  ASSUME Types, NEW j \in 0..Len(sent), NEW at, Matched(at, j),
         j + 1 \in 1..Len(sent), sent[j + 1] # <<>>,
         NEW a \in Seq(Nat), received' = Append(received, a), sent' = sent
  PROVE  \E at2 : /\ Matched(at2, j + 1)'
                  /\ \A i \in 1..Len(received) : at2[i] = at[i]
                  /\ at2[Len(received) + 1] = j + 1
                  /\ Len(received') = Len(received) + 1
                  /\ \A i \in 1..Len(received) : received'[i] = received[i]
                  /\ received'[Len(received) + 1] = a
<1>1. PICK n : n = Len(received)
  OBVIOUS
<1> DEFINE ext == [i \in 0..n + 1 |-> IF i <= n THEN at[i] ELSE j + 1]
<1>2. PICK at2 : at2 = ext
  OBVIOUS
<1>3. /\ n \in Nat /\ Len(received') = n + 1
      /\ \A i \in 1..n : received'[i] = received[i]
      /\ received'[n + 1] = a
  BY <1>1 DEF Types
<1>4. /\ at \in [0..n -> 0..Len(sent)] /\ at[0] = 0
      /\ \A i \in 1..n :
           /\ at[i - 1] < at[i] /\ sent[at[i]] # <<>>
           /\ \A k \in at[i - 1] + 1..at[i] - 1 : sent[k] = <<>>
      /\ at[n] <= j
      /\ \A k \in at[n] + 1..j : sent[k] = <<>>
  BY <1>1 DEF Matched, Follows
<1>5. j \in Nat /\ j + 1 \in 0..Len(sent) /\ Len(sent) \in Nat
  BY DEF Types
<1>6. /\ at2 \in [0..n + 1 -> 0..Len(sent)] /\ at2[n + 1] = j + 1
      /\ \A i \in 0..n : at2[i] = at[i]
  <2>1. \A i \in 0..n + 1 : i <= n => i \in 0..n
    BY <1>3
  <2>2. n + 1 \in 0..n + 1 /\ ~ (n + 1 <= n)
    BY <1>3
  <2>3. \A i \in 0..n : i \in 0..n + 1 /\ i <= n
    BY <1>3
  <2>4. QED
    BY <1>4, <1>5, <1>2, <2>1, <2>2, <2>3
<1> HIDE DEF ext
<1>7. at2[0] = 0 /\ at2[n] = at[n]
  BY <1>3, <1>4, <1>6
<1>8. ASSUME NEW i \in 1..n
      PROVE  /\ at2[i - 1] < at2[i] /\ sent[at2[i]] # <<>>
             /\ \A k \in at2[i - 1] + 1..at2[i] - 1 : sent[k] = <<>>
  <2>1. i \in 0..n /\ i - 1 \in 0..n
    BY <1>3
  <2>2. QED
    BY <1>4, <1>6, <2>1
<1>9. /\ at2[n] < at2[n + 1] /\ sent[at2[n + 1]] # <<>>
      /\ \A k \in at2[n] + 1..at2[n + 1] - 1 : sent[k] = <<>>
  <2>1. at[n] \in Nat
    BY <1>3, <1>4
  <2>2. at[n] < j + 1 /\ (j + 1) - 1 = j
    BY <1>4, <1>5, <2>1
  <2>3. QED
    BY <1>4, <1>6, <1>7, <2>2
<1>10. \A i \in 1..n + 1 : i \in 1..n \/ (i = n + 1 /\ i - 1 = n)
  BY <1>3
<1>11. \A i \in 1..n + 1 :
        /\ at2[i - 1] < at2[i] /\ sent[at2[i]] # <<>>
        /\ \A k \in at2[i - 1] + 1..at2[i] - 1 : sent[k] = <<>>
  BY <1>8, <1>9, <1>10
<1>12. at2[n + 1] <= j + 1 /\ \A k \in at2[n + 1] + 1..j + 1 : sent[k] = <<>>
  BY <1>5, <1>6
<1>13. Matched(at2, j + 1)'
  <2>1. Follows(at2, n + 1)'
    BY <1>7, <1>6, <1>11 DEF Follows
  <2>2. Follows(at2, Len(received))'
    BY <1>3, <2>1
  <2>3. /\ at2 \in [0..Len(received') -> 0..Len(sent')]
        /\ at2[Len(received')] <= j + 1
        /\ \A k \in at2[Len(received')] + 1..j + 1 : sent'[k] = <<>>
    BY <1>3, <1>6, <1>12
  <2>4. QED
    BY <2>2, <2>3 DEF Matched
<1>14. \A i \in 1..n : at2[i] = at[i]
  <2>1. \A i \in 1..n : i \in 0..n
    BY <1>3
  <2>2. QED
    BY <1>6, <2>1
<1>15. QED
  BY <1>1, <1>3, <1>6, <1>13, <1>14

-----------------------------------------------------------------------------
(* The two halves of a sequence.                                           *)
LEMMA Halves ==
  ASSUME NEW D, NEW w \in Seq(D), NEW m \in 0..Len(w)
  PROVE  /\ SubSeq(w, 1, m) \in Seq(D) /\ Len(SubSeq(w, 1, m)) = m
         /\ \A i \in 1..m : SubSeq(w, 1, m)[i] = w[i]
         /\ SubSeq(w, m + 1, Len(w)) \in Seq(D)
         /\ Len(SubSeq(w, m + 1, Len(w))) = Len(w) - m
         /\ \A i \in 1..Len(w) - m : SubSeq(w, m + 1, Len(w))[i] = w[m + i]
OBVIOUS

(* The length of a length, and of a payload, is a number.                  *)
LEMMA SwapIsNat == ASSUME NEW n \in Nat PROVE Swap(n) \in Nat
<1> DEFINE d == n \div Base
           m == n % Base
<1>1. Base \in Nat /\ d \in Nat /\ m \in Nat
  BY ReceiveAssumption, Division DEF ReceiveAssumption
<1> HIDE DEF d, m
<1>2. Base * m \in Nat
  BY <1>1
<1>3. Base * m + d \in Nat
  BY <1>1, <1>2
<1>4. QED
  BY <1>3 DEF Swap, d, m

LEMMA ArrivingTyped ==
  ASSUME Types
  PROVE  /\ Arriving \in Seq(Nat) /\ Len(Arriving) \in 0..Len(wire)
         /\ SubSeq(wire, Len(Arriving) + 1, Len(wire)) \in Seq(Nat)
<1> DEFINE k == IF total_pkt_len <= Len(wire) THEN total_pkt_len ELSE Len(wire)
<1>1. wire \in Seq(Nat) /\ k \in 0..Len(wire) /\ Arriving = SubSeq(wire, 1, k)
  BY DEF Types, Arriving
<1> HIDE DEF k
<1>2. /\ SubSeq(wire, 1, k) \in Seq(Nat) /\ Len(SubSeq(wire, 1, k)) = k
      /\ SubSeq(wire, k + 1, Len(wire)) \in Seq(Nat)
  BY <1>1, Halves
<1>3. QED
  BY <1>1, <1>2

(* A sequence that agrees with the first elements of another one.          *)
LEMMA AgreesIsPrefix ==
  ASSUME NEW D, NEW a \in Seq(D), NEW q \in Seq(D), Len(a) <= Len(q),
         \A i \in 1..Len(a) : a[i] = q[i]
  PROVE  IsPrefix(a, q) /\ (Len(a) = Len(q) => a = q)
<1>1. SubSeq(a, 1, Len(a)) = SubSeq(q, 1, Len(a))
  OBVIOUS
<1>2. Len(a) = Len(q) => a = q
  OBVIOUS
<1>3. QED
  BY <1>1, <1>2 DEF IsPrefix

(* What read_pkt() gets for a payload: the whole packet, or what there is  *)
(* of it when the connection ends.                                         *)
LEMMA PayloadRead ==
  ASSUME Types, NEW s, NEW off, NEW j \in 0..Len(sent), OnTrack(s, off, j),
         RecvPayload
  PROVE  /\ Arriving \in Seq(Nat) /\ wire' \in Seq(Nat)
         /\ j + 1 \in 1..Len(sent) /\ Len(Arriving) <= Len(sent[j + 1])
         /\ \/ Arriving = sent[j + 1] /\ Ahead(s, off[j + 1])'
            \/ IsPrefix(Arriving, sent[j + 1]) /\ wire' = <<>>
<1>1. /\ pc = "payload" /\ wire' = SubSeq(wire, Len(Arriving) + 1, Len(wire))
      /\ sent' = sent
  BY DEF RecvPayload
<1>2. PICK q, p, o, l, m : /\ q = sent[j + 1] /\ p = off[j] + 1 /\ o = off[j + 1]
                           /\ l = Len(wire) /\ m = Len(q)
  OBVIOUS
<1>3. /\ j + 1 \in 1..Len(sent) /\ total_pkt_len = m
      /\ p \in Nat /\ l \in Nat /\ p + l <= Len(s)
      /\ \A i \in 1..l : wire[i] = s[p + i]
      /\ s \in Seq(Nat) /\ wire \in Seq(Nat)
  BY <1>1, <1>2 DEF OnTrack, Ahead, Types
<1>4. q \in Seq(Nat) /\ Len(q) = m /\ m \in Nat
  BY <1>2, <1>3 DEF Types
<1>5. /\ o = p + m /\ o <= Len(s)
      /\ \A i \in 1..m : s[p + i] = q[i]
  <2>1. (j + 1) - 1 = j
    OBVIOUS
  <2>2. Cut(sent, Len(sent), off, s)
    BY DEF OnTrack
  <2>3. /\ off[j + 1] = off[j] + 1 + Len(sent[j + 1]) /\ off[j + 1] <= Len(s)
        /\ \A i \in 1..Len(sent[j + 1]) : s[off[j] + 1 + i] = sent[j + 1][i]
    BY <1>3, <2>1, <2>2 DEF Cut
  <2>4. QED
    BY <1>2, <2>3
<1>6. /\ p \in Nat /\ l \in Nat /\ m \in Nat /\ Len(s) \in Nat
      /\ o = p + m /\ p + l <= Len(s)
  BY <1>3, <1>4, <1>5
<1>7. CASE m <= l
  <2>1. m \in 0..Len(wire) /\ Arriving = SubSeq(wire, 1, m)
    BY <1>2, <1>3, <1>4, <1>7 DEF Arriving
  <2>2. /\ Arriving \in Seq(Nat) /\ Len(Arriving) = m
        /\ \A i \in 1..m : Arriving[i] = wire[i]
        /\ wire' \in Seq(Nat) /\ Len(wire') = l - m
        /\ \A i \in 1..l - m : wire'[i] = wire[m + i]
    <3>1. /\ SubSeq(wire, 1, m) \in Seq(Nat) /\ Len(SubSeq(wire, 1, m)) = m
          /\ \A i \in 1..m : SubSeq(wire, 1, m)[i] = wire[i]
          /\ SubSeq(wire, m + 1, Len(wire)) \in Seq(Nat)
          /\ Len(SubSeq(wire, m + 1, Len(wire))) = Len(wire) - m
          /\ \A i \in 1..Len(wire) - m :
               SubSeq(wire, m + 1, Len(wire))[i] = wire[m + i]
      BY <1>3, <2>1, Halves
    <3>2. wire' = SubSeq(wire, m + 1, Len(wire))
      BY <1>1, <2>1, <3>1
    <3>3. QED
      BY <1>2, <2>1, <3>1, <3>2
  <2>3. \A i \in 1..m : i \in 1..l
    BY <1>2, <1>4, <1>7
  <2>4. Arriving = q
    <3>1. \A i \in 1..m : Arriving[i] = q[i]
      BY <1>3, <1>5, <2>2, <2>3
    <3>2. QED
      BY <1>4, <2>2, <3>1, AgreesIsPrefix
  <2>5. \A i \in 1..l - m : m + i \in 1..l /\ p + (m + i) = o + i
    BY <1>7, <1>6
  <2>6. ASSUME NEW i \in 1..l - m PROVE wire'[i] = s[o + i]
    <3>1. wire'[i] = wire[m + i]
      BY <2>2
    <3>2. m + i \in 1..l /\ p + (m + i) = o + i
      BY <2>5
    <3>3. wire[m + i] = s[p + (m + i)]
      BY <1>3, <3>2
    <3>4. QED
      BY <3>1, <3>2, <3>3
  <2>7. o \in Nat /\ o + (l - m) <= Len(s)
    BY <1>7, <1>6
  <2>8. Ahead(s, o)'
    BY <2>2, <2>6, <2>7 DEF Ahead
  <2>9. QED
    BY <1>1, <1>2, <1>3, <1>4, <2>2, <2>4, <2>8
<1>8. CASE ~ (m <= l)
  <2>1. Len(wire) \in 0..Len(wire) /\ Arriving = SubSeq(wire, 1, Len(wire))
    BY <1>2, <1>3, <1>8 DEF Arriving
  <2>2. /\ Arriving \in Seq(Nat) /\ Len(Arriving) = l
        /\ \A i \in 1..l : Arriving[i] = wire[i]
        /\ wire' \in Seq(Nat) /\ Len(wire') = l - l
    <3>1. /\ SubSeq(wire, 1, l) \in Seq(Nat) /\ Len(SubSeq(wire, 1, l)) = l
          /\ \A i \in 1..l : SubSeq(wire, 1, l)[i] = wire[i]
          /\ SubSeq(wire, l + 1, Len(wire)) \in Seq(Nat)
          /\ Len(SubSeq(wire, l + 1, Len(wire))) = Len(wire) - l
      <4>1. wire \in Seq(Nat) /\ l \in 0..Len(wire)
        BY <1>2, <1>3
      <4>2. QED
        BY <4>1, Halves
    <3>2. wire' = SubSeq(wire, l + 1, Len(wire))
      BY <1>1, <1>2, <2>1, <3>1
    <3>3. QED
      BY <1>2, <2>1, <3>1, <3>2
  <2>3. wire' = <<>>
    BY <1>2, <2>2
  <2>4. \A i \in 1..l : i \in 1..m
    BY <1>2, <1>4, <1>8
  <2>5. \A i \in 1..Len(Arriving) : Arriving[i] = q[i]
    BY <1>3, <1>5, <2>2, <2>4
  <2>6. Len(Arriving) <= m
    BY <1>2, <1>4, <1>8, <2>2
  <2>7. IsPrefix(Arriving, q)
    BY <1>4, <2>2, <2>5, <2>6, AgreesIsPrefix
  <2>8. QED
    BY <1>1, <1>2, <1>3, <2>2, <2>3, <2>6, <2>7
<1>9. QED
  BY <1>7, <1>8

-----------------------------------------------------------------------------
(* The stack is overrun only by a packet that does not fit; one that is    *)
(* not empty is received, whole unless the connection has ended.           *)
LEMMA PayloadStep == ASSUME ClientInv, RecvPayload PROVE ClientInv'
<1>1. /\ pc = "payload" /\ UNCHANGED <<sent, derailed>>
      /\ pc' = IF Len(Arriving) > BufLen THEN "overrun"
               ELSE IF Arriving = <<>> THEN "length" ELSE "push"
      /\ received' = IF pc' = "push" THEN Append(received, Arriving) ELSE received
      /\ wire' = SubSeq(wire, Len(Arriving) + 1, Len(wire))
      /\ total_pkt_len' = 0
  BY DEF RecvPayload
<1>2. Types
  BY DEF ClientInv
<1>3. Types' /\ Arriving \in Seq(Nat)
  <2>1. Arriving \in Seq(Nat) /\ wire' \in Seq(Nat)
    BY <1>1, <1>2, ArrivingTyped
  <2>2. received' \in Seq(Seq(Nat))
    BY <1>1, <1>2, <2>1 DEF Types
  <2>3. QED
    BY <1>1, <1>2, <2>1, <2>2 DEF Types
<1>4. CASE derailed
  BY <1>1, <1>3, <1>4 DEF ClientInv, Track, OverrunForCause
<1>5. CASE ~ derailed
  <2>1. PICK j \in 0..Len(sent) : \E at, s, off :
          Matched(at, j) /\ Whole(at) /\ OnTrack(s, off, j)
    BY <1>1, <1>5 DEF ClientInv, Track, Ended
  <2>2. PICK at, s, off : Matched(at, j) /\ Whole(at) /\ OnTrack(s, off, j)
    BY <2>1
  <2>3. /\ j + 1 \in 1..Len(sent) /\ j + 1 \in 0..Len(sent)
        /\ Len(Arriving) <= Len(sent[j + 1])
        /\ \/ Arriving = sent[j + 1] /\ Ahead(s, off[j + 1])'
           \/ IsPrefix(Arriving, sent[j + 1]) /\ wire' = <<>>
    <3>1. /\ j + 1 \in 1..Len(sent) /\ Len(Arriving) <= Len(sent[j + 1])
          /\ \/ Arriving = sent[j + 1] /\ Ahead(s, off[j + 1])'
             \/ IsPrefix(Arriving, sent[j + 1]) /\ wire' = <<>>
      BY <1>2, <2>2, PayloadRead
    <3>2. QED
      BY <3>1
  <2>4. CASE Len(Arriving) > BufLen
    <3>1. Len(sent[j + 1]) > BufLen
      <4>1. Len(sent[j + 1]) \in Nat /\ Len(Arriving) \in Nat
        <5>1. sent[j + 1] \in Seq(Nat)
          BY <1>2, <2>3 DEF Types
        <5>2. QED
          BY <1>3, <5>1
      <4>2. BufLen \in Nat
        BY ReceiveAssumption DEF ReceiveAssumption
      <4>3. QED
        BY <2>3, <2>4, <4>1, <4>2
    <3>2. OverrunForCause'
      BY <1>1, <1>2, <2>3, <3>1 DEF OverrunForCause, Types
    <3>3. Matched(at, j)' /\ Whole(at)' /\ pc' = "overrun"
      BY <1>1, <2>2, <2>4 DEF Matched, Whole, Follows
    <3>4. Track'
      BY <1>1, <3>3 DEF Track
    <3>5. QED
      BY <1>3, <3>2, <3>4 DEF ClientInv
  <2>5. CASE ~ (Len(Arriving) > BufLen)
    <3>1. pc' \in {"length", "push"} /\ OverrunForCause'
      BY <1>1, <2>5 DEF OverrunForCause
    <3>2. CASE Arriving = <<>>
      <4>1. pc' = "length" /\ received' = received
        BY <1>1, <2>5, <3>2
      <4>2. CASE Arriving = sent[j + 1] /\ Ahead(s, off[j + 1])'
        <5>1. Matched(at, j + 1)'
          <6>1. /\ at \in [0..Len(received) -> 0..Len(sent)]
                /\ Follows(at, Len(received)) /\ at[Len(received)] <= j
                /\ \A k \in at[Len(received)] + 1..j : sent[k] = <<>>
            BY <2>2 DEF Matched
          <6>2. Len(received) \in 0..Len(received) /\ at[Len(received)] \in Nat
            <7>1. Len(received) \in Nat /\ Len(sent) \in Nat
              BY <1>2 DEF Types
            <7>2. Len(received) \in 0..Len(received)
              BY <7>1
            <7>3. at[Len(received)] \in 0..Len(sent)
              BY <6>1, <7>2
            <7>4. QED
              BY <7>1, <7>2, <7>3
          <6>3. at[Len(received)] <= j + 1
            BY <6>1, <6>2
          <6>4. \A k \in at[Len(received)] + 1..j + 1 :
                  k \in at[Len(received)] + 1..j \/ k = j + 1
            BY <6>2
          <6>5. \A k \in at[Len(received)] + 1..j + 1 : sent[k] = <<>>
            BY <3>2, <4>2, <6>1, <6>4
          <6>6. QED
            BY <1>1, <4>1, <6>1, <6>3, <6>5 DEF Matched, Follows
        <5>2. Whole(at)' /\ OnTrack(s, off, j + 1)'
          BY <1>1, <2>2, <4>1, <4>2 DEF Whole, OnTrack
        <5>3. Track'
          BY <1>1, <2>3, <5>1, <5>2 DEF Track
        <5>4. QED
          BY <1>3, <3>1, <5>3 DEF ClientInv
      <4>3. CASE IsPrefix(Arriving, sent[j + 1]) /\ wire' = <<>>
        <5>1. Matched(at, j)' /\ Ended(at)'
          <6>1. Matched(at, j)'
            BY <1>1, <2>2, <4>1 DEF Matched, Follows
          <6>2. Len(received) \in Nat
            BY <1>2 DEF Types
          <6>3. /\ \A i \in 1..Len(received) - 1 : i \in 1..Len(received)
                /\ Len(received) > 0 => Len(received) \in 1..Len(received)
            BY <6>2
          <6>4. QED
            BY <1>1, <2>2, <4>1, <4>3, <6>1, <6>3 DEF Ended, Whole
        <5>2. Track'
          BY <1>1, <2>3, <5>1 DEF Track
        <5>3. QED
          BY <1>3, <3>1, <5>2 DEF ClientInv
      <4>4. QED
        BY <2>3, <4>2, <4>3
    <3>3. CASE Arriving # <<>>
      <4>1. pc' = "push" /\ received' = Append(received, Arriving) /\ sent' = sent
        BY <1>1, <2>5, <3>3
      <4>2. sent[j + 1] # <<>>
        <5>1. Len(Arriving) \in Nat /\ Len(Arriving) # 0
          BY <1>3, <3>3
        <5>2. Len(sent[j + 1]) # 0
          BY <2>3, <5>1, <1>2 DEF Types
        <5>3. QED
          BY <5>2
      <4>3. PICK n, a : n = Len(received) /\ a = Arriving
        OBVIOUS
      <4>4. PICK at2 : /\ Matched(at2, j + 1)'
                       /\ \A i \in 1..n : at2[i] = at[i]
                       /\ at2[n + 1] = j + 1 /\ Len(received') = n + 1
                       /\ \A i \in 1..n : received'[i] = received[i]
                       /\ received'[n + 1] = a
        <5>1. received' = Append(received, a) /\ a \in Seq(Nat)
          BY <1>3, <4>1, <4>3
        <5>2. QED
          BY <1>2, <2>2, <2>3, <4>1, <4>2, <4>3, <5>1, MatchMore
      <4>5. n \in Nat /\ \A i \in 1..n : received'[i] = sent[at2[i]]
        <5>1. n \in Nat
          BY <1>2, <4>3 DEF Types
        <5>2. \A i \in 1..n : received[i] = sent[at[i]]
          BY <2>2, <4>3 DEF Whole
        <5>3. QED
          BY <4>4, <5>1, <5>2
      <4>6. CASE Arriving = sent[j + 1] /\ Ahead(s, off[j + 1])'
        <5>1. \A i \in 1..n + 1 : i \in 1..n \/ i = n + 1
          BY <4>5
        <5>2. \A i \in 1..n + 1 : received'[i] = sent'[at2[i]]
          BY <4>1, <4>3, <4>4, <4>5, <4>6, <5>1
        <5>3. Whole(at2)'
          BY <4>4, <5>2 DEF Whole
        <5>4. OnTrack(s, off, j + 1)'
          BY <1>1, <2>2, <4>1, <4>6 DEF OnTrack
        <5>5. Track'
          BY <1>1, <2>3, <4>4, <5>3, <5>4 DEF Track
        <5>6. QED
          BY <1>3, <3>1, <5>5 DEF ClientInv
      <4>7. CASE IsPrefix(Arriving, sent[j + 1]) /\ wire' = <<>>
        <5>1. IsPrefix(received'[n + 1], sent'[at2[n + 1]])
          BY <4>1, <4>3, <4>4, <4>7
        <5>2. (n + 1) - 1 = n
          BY <4>5
        <5>3. Ended(at2)'
          BY <4>1, <4>4, <4>5, <4>7, <5>1, <5>2 DEF Ended
        <5>4. Track'
          BY <1>1, <2>3, <4>4, <5>3 DEF Track
        <5>5. QED
          BY <1>3, <3>1, <5>4 DEF ClientInv
      <4>8. QED
        BY <2>3, <4>6, <4>7
    <3>4. QED
      BY <3>2, <3>3
  <2>6. QED
    BY <2>4, <2>5
<1>6. QED
  BY <1>4, <1>5

(* Between two packets what comes next is a length, which ntoh_t() turns   *)
(* into that of the next packet.                                           *)
LEMMA LengthRead ==
  ASSUME Types, NEW s, NEW off, NEW j \in 0..Len(sent), OnTrack(s, off, j),
         pc = "length", wire # <<>>, wire' = Tail(wire)
  PROVE  /\ j + 1 \in 1..Len(sent) /\ Swap(Head(wire)) = Len(sent[j + 1])
         /\ Ahead(s, off[j] + 1)'
<1>1. PICK p, l : p = off[j] /\ l = Len(wire)
  OBVIOUS
<1>2. /\ wire \in Seq(Nat) /\ l \in Nat /\ l # 0 /\ Head(wire) = wire[1]
      /\ Len(wire') = l - 1 /\ \A i \in 1..l - 1 : wire'[i] = wire[i + 1]
  BY <1>1 DEF Types
<1>3. /\ s \in Seq(Nat) /\ p \in Nat /\ p + l <= Len(s)
      /\ \A i \in 1..l : wire[i] = s[p + i]
  BY <1>1 DEF OnTrack, Ahead
<1>4. Len(s) \in Nat /\ Len(sent) \in Nat /\ j \in Nat /\ j <= Len(sent)
  BY <1>3 DEF Types
<1>5. Cut(sent, Len(sent), off, s)
  BY DEF OnTrack
<1>6. j # Len(sent)
  BY <1>1, <1>2, <1>3, <1>4, <1>5 DEF Cut
<1>7. j + 1 \in 1..Len(sent) /\ (j + 1) - 1 = j
  BY <1>4, <1>6
<1>8. s[p + 1] = Swap(Len(sent[j + 1]))
  BY <1>1, <1>5, <1>7 DEF Cut
<1>9. wire[1] = s[p + 1]
  BY <1>2, <1>3
<1>10. Swap(Head(wire)) = Len(sent[j + 1])
  <2>1. Len(sent[j + 1]) \in Nat /\ Len(sent[j + 1]) < Base * Base
    BY <1>7 DEF Types
  <2>2. Swap(Swap(Len(sent[j + 1]))) = Len(sent[j + 1])
    BY <2>1, SwapTwice
  <2>3. QED
    BY <1>2, <1>8, <1>9, <2>2
<1>11. Ahead(s, p + 1)'
  <2>1. \A i \in 1..l - 1 : i + 1 \in 1..l /\ p + (i + 1) = (p + 1) + i
    BY <1>2, <1>3
  <2>2. \A i \in 1..l - 1 : wire'[i] = s[(p + 1) + i]
    BY <1>2, <1>3, <2>1
  <2>3. p + 1 \in Nat /\ (p + 1) + (l - 1) <= Len(s)
    BY <1>2, <1>3, <1>4
  <2>4. QED
    BY <1>2, <2>2, <2>3 DEF Ahead
<1>12. QED
  BY <1>1, <1>7, <1>10, <1>11

LEMMA LengthStep == ASSUME ClientInv, RecvLength PROVE ClientInv'
<1>1. /\ pc = "length" /\ wire # <<>> /\ wire' = Tail(wire)
      /\ UNCHANGED <<sent, received>>
  BY DEF RecvLength
<1>2. Types
  BY DEF ClientInv
<1>3. /\ wire' \in Seq(Nat) /\ Head(wire) \in Nat
  BY <1>1, <1>2 DEF Types
<1>4. Swap(Head(wire)) \in Nat
  BY <1>3, SwapIsNat
<1>5. Types'
  BY <1>1, <1>2, <1>3, <1>4 DEF RecvLength, Types
<1>6. pc' # "overrun"
  BY <1>1 DEF RecvLength
<1>7. OverrunForCause'
  BY <1>6 DEF OverrunForCause
<1>8. Track'
  <2>1. SUFFICES ASSUME ~ derailed' PROVE Track'
    BY DEF Track
  <2>2. /\ ~ derailed /\ pc' = "payload" /\ total_pkt_len' = Swap(Head(wire))
    BY <2>1 DEF RecvLength
  <2>3. PICK j \in 0..Len(sent) : \E at, s, off :
          Matched(at, j) /\ Whole(at) /\ OnTrack(s, off, j)
    BY <1>1, <2>2 DEF ClientInv, Track, Ended
  <2>4. PICK at, s, off : Matched(at, j) /\ Whole(at) /\ OnTrack(s, off, j)
    BY <2>3
  <2>5. /\ j + 1 \in 1..Len(sent) /\ Swap(Head(wire)) = Len(sent[j + 1])
        /\ Ahead(s, off[j] + 1)'
    BY <1>1, <1>2, <2>4, LengthRead
  <2>6. OnTrack(s, off, j)'
    BY <1>1, <2>2, <2>4, <2>5 DEF OnTrack
  <2>7. Matched(at, j)' /\ Whole(at)'
    BY <1>1, <2>4 DEF Matched, Whole, Follows
  <2>8. QED
    BY <1>1, <2>6, <2>7 DEF Track
<1>9. QED
  BY <1>5, <1>7, <1>8 DEF ClientInv

(* The steps that do not touch the connection.                             *)
LEMMA OtherStep ==
  ASSUME ClientInv, UNCHANGED <<wire, total_pkt_len, sent, received, derailed>>,
         \/ pc' = pc
         \/ pc \notin {"payload", "overrun"} /\ pc' \notin {"payload", "overrun"}
  PROVE  ClientInv'
<1>1. Types' /\ OverrunForCause'
  BY DEF ClientInv, Types, OverrunForCause
<1>2. Track'
  <2>1. SUFFICES ASSUME ~ derailed PROVE Track'
    BY DEF Track
  <2>2. PICK j \in 0..Len(sent) : \E at :
          /\ Matched(at, j)
          /\ \/ Whole(at) /\ pc = "overrun"
             \/ Whole(at) /\ \E s, off : OnTrack(s, off, j)
             \/ Ended(at)
    BY <2>1 DEF ClientInv, Track
  <2>3. PICK at : /\ Matched(at, j)
                  /\ \/ Whole(at) /\ pc = "overrun"
                     \/ Whole(at) /\ \E s, off : OnTrack(s, off, j)
                     \/ Ended(at)
    BY <2>2
  <2>4. Matched(at, j)' /\ (Whole(at) => Whole(at)')
    BY <2>3 DEF Matched, Whole, Follows
  <2>5. CASE Whole(at) /\ pc = "overrun"
    BY <2>4, <2>5 DEF Track
  <2>6. CASE Whole(at) /\ \E s, off : OnTrack(s, off, j)
    <3>1. PICK s, off : OnTrack(s, off, j)
      BY <2>6
    <3>2. OnTrack(s, off, j)'
      BY <3>1 DEF OnTrack, Ahead
    <3>3. QED
      BY <2>4, <2>6, <3>2 DEF Track
  <2>7. CASE Ended(at)
    <3>1. Ended(at)'
      BY <2>7 DEF Ended
    <3>2. QED
      BY <2>4, <3>1 DEF Track
  <2>8. QED
    BY <2>3, <2>5, <2>6, <2>7
<1>3. QED
  BY <1>1, <1>2 DEF ClientInv

-----------------------------------------------------------------------------
(* A new connection, which nothing was received on.                        *)
Fresh ==
  /\ received = <<>> /\ pc \notin {"payload", "overrun"}
  /\ \E s, off : /\ s \in Seq(Nat) /\ Cut(sent, Len(sent), off, s)
                 /\ Ahead(s, 0)

LEMMA FreshOnTrack == Types /\ Fresh => Track
<1> SUFFICES ASSUME Types, Fresh PROVE Track
  OBVIOUS
<1>1. PICK s, off : s \in Seq(Nat) /\ Cut(sent, Len(sent), off, s) /\ Ahead(s, 0)
  BY DEF Fresh
<1>2. off[0] = 0 /\ Len(sent) \in Nat
  BY <1>1 DEF Cut, Types
<1>3. OnTrack(s, off, 0)
  BY <1>1, <1>2 DEF OnTrack, Fresh
<1>4. PICK at : at = [i \in 0..0 |-> 0]
  OBVIOUS
<1>5. Len(received) = 0 /\ at \in [0..0 -> 0..Len(sent)] /\ at[0] = 0
  BY <1>2, <1>4 DEF Fresh
<1>6. Matched(at, 0) /\ Whole(at)
  BY <1>5 DEF Matched, Follows, Whole
<1>7. 0 \in 0..Len(sent)
  BY <1>2
<1>8. QED
  BY <1>3, <1>6, <1>7 DEF Track

(* What a server may send, and what of it arrives.                         *)
Arrives(ps, k, w) == w = SubSeq(Stream(ps), 1, k)

LEMMA ConnectionBegins ==
  ASSUME NEW ps \in PktSeqs, NEW k \in 0..Len(Stream(ps)), NEW w,
         Arrives(ps, k, w)
  PROVE  /\ ps \in Seq(Seq(Nat)) /\ w \in Seq(Nat)
         /\ \A i \in 1..Len(ps) : Len(ps[i]) < Base * Base
         /\ \E s, off : /\ s \in Seq(Nat) /\ Cut(ps, Len(ps), off, s)
                        /\ Len(w) \in Nat /\ Len(w) <= Len(s)
                        /\ \A i \in 1..Len(w) : w[i] = s[i]
<1>1. PICK n \in Nat : ps \in [1..n -> Payloads]
  <2>1. PICK n \in 0..MaxPkts : ps \in [1..n -> Payloads]
    BY DEF PktSeqs
  <2>2. QED
    BY <2>1
<1>2. ASSUME NEW p \in Payloads PROVE p \in Seq(Nat) /\ Len(p) < Base * Base
  <2>1. p \in Seq(0..Base * Base - 1) /\ Len(p) < Base * Base
    BY ReceiveAssumption DEF ReceiveAssumption
  <2>2. PICK b \in Int : b = Base * Base - 1
    <3>1. Base * Base \in Int
      BY ReceiveAssumption DEF ReceiveAssumption
    <3>2. QED
      BY <3>1
  <2>3. p \in Seq(Nat)
    <3>1. p \in Seq(0..b)
      BY <2>1, <2>2
    <3>2. \A i \in 1..Len(p) : p[i] \in Nat
      BY <3>1
    <3>3. Len(p) \in Nat /\ p = [i \in 1..Len(p) |-> p[i]]
      BY <2>1
    <3>4. QED
      BY <3>2, <3>3
  <2>4. QED
    BY <2>1, <2>3
<1>3. ps \in [1..n -> Seq(Nat)] /\ Len(ps) = n
  BY <1>1, <1>2
<1>4. ps \in Seq(Seq(Nat))
  BY <1>3
<1>5. \A i \in 1..n : Len(ps[i]) \in Nat /\ Len(ps[i]) < Base * Base
  BY <1>1, <1>2, <1>3
<1>6. \A i \in 1..n : Swap(Len(ps[i])) \in Nat
  BY <1>5, SwapIsNat
<1>7. PICK s, off : s = Stream(ps) /\ s \in Seq(Nat) /\ Cut(ps, n, off, s)
  BY <1>3, <1>6, StreamCut
<1>8. w \in Seq(Nat) /\ Len(w) = k /\ \A i \in 1..k : w[i] = s[i]
  <2>1. k \in 0..Len(s) /\ w = SubSeq(s, 1, k)
    BY <1>7 DEF Arrives
  <2>2. QED
    BY <1>7, <2>1, Halves
<1>9. Len(w) \in Nat /\ Len(w) <= Len(s)
  BY <1>7, <1>8
<1>10. QED
  BY <1>3, <1>4, <1>5, <1>7, <1>8, <1>9

LEMMA InitBegins == Init => ClientInv
<1> SUFFICES ASSUME Init PROVE ClientInv
  OBVIOUS
<1>1. PICK ps \in PktSeqs, k \in 0..MaxPkts * Base * Base :
        k <= Len(Stream(ps)) /\ sent = ps /\ wire = SubSeq(Stream(ps), 1, k)
  BY DEF Init
<1>2. k \in 0..Len(Stream(ps))
  BY <1>1
<1>3. /\ sent \in Seq(Seq(Nat)) /\ wire \in Seq(Nat)
      /\ \A i \in 1..Len(sent) : Len(sent[i]) < Base * Base
      /\ \E s, off : /\ s \in Seq(Nat) /\ Cut(sent, Len(sent), off, s)
                     /\ Len(wire) \in Nat /\ Len(wire) <= Len(s)
                     /\ \A i \in 1..Len(wire) : wire[i] = s[i]
  <2>1. ps = sent /\ Arrives(ps, k, wire)
    BY <1>1 DEF Arrives
  <2>2. QED
    BY <1>2, <2>1, ConnectionBegins
<1>4. received = <<>> /\ total_pkt_len = 0 /\ pc = "length"
  BY DEF Init
<1>5. Types /\ Fresh /\ OverrunForCause
  BY <1>3, <1>4 DEF Types, Fresh, Ahead, OverrunForCause
<1>6. QED
  BY <1>5, FreshOnTrack DEF ClientInv

LEMMA ReconnectStep == ASSUME ClientInv, Reconnect PROVE ClientInv'
<1>1. PICK ps \in PktSeqs : Connection(ps)
  BY DEF Reconnect
<1>2. PICK k \in 0..Len(Stream(ps)) : sent' = ps /\ wire' = SubSeq(Stream(ps), 1, k)
  BY <1>1 DEF Connection
<1>3. /\ sent' \in Seq(Seq(Nat)) /\ wire' \in Seq(Nat)
      /\ \A i \in 1..Len(sent') : Len(sent'[i]) < Base * Base
      /\ \E s, off : /\ s \in Seq(Nat) /\ Cut(sent', Len(sent'), off, s)
                     /\ Len(wire') \in Nat /\ Len(wire') <= Len(s)
                     /\ \A i \in 1..Len(wire') : wire'[i] = s[i]
  <2>1. ps = sent' /\ Arrives(ps, k, wire')
    BY <1>2 DEF Arrives
  <2>2. QED
    BY <2>1, ConnectionBegins
<1>4. /\ received' = <<>> /\ pc' = pc /\ pc # "overrun"
      /\ total_pkt_len' = total_pkt_len /\ derailed' = (pc = "payload")
  BY DEF Reconnect
<1>5. Types' /\ OverrunForCause'
  BY <1>3, <1>4 DEF ClientInv, Types, OverrunForCause
<1>6. pc # "payload" => Fresh'
  BY <1>3, <1>4 DEF Fresh, Ahead
<1>7. Types' /\ Fresh' => Track'
  BY FreshOnTrack, PTL
<1>8. pc = "payload" => Track'
  BY <1>4 DEF Track
<1>9. QED
  BY <1>5, <1>6, <1>7, <1>8 DEF ClientInv

LEMMA ClientStep == ClientInv /\ [Next]_vars => ClientInv'
<1> SUFFICES ASSUME ClientInv, [Next]_vars PROVE ClientInv'
  OBVIOUS
<1>1. CASE RecvLength
  BY <1>1, LengthStep
<1>2. CASE RecvPayload
  BY <1>2, PayloadStep
<1>3. CASE Reconnect
  BY <1>3, ReconnectStep
<1>4. CASE PushFits \/ PushDropped \/ PushRefused
  <2>1. /\ UNCHANGED <<wire, total_pkt_len, sent, received, derailed>>
        /\ pc \notin {"payload", "overrun"} /\ pc' \notin {"payload", "overrun"}
    BY <1>4 DEF PushFits, PushDropped, PushRefused, Done, recv_vars
  <2>2. QED
    BY <2>1, OtherStep
<1>5. CASE \/ \E flag \in BOOLEAN : set_recv_blocking(flag)
           \/ \E r \in Readers : read(r) \/ WakeUp(r)
           \/ UNCHANGED vars
  <2>1. UNCHANGED <<pc, wire, total_pkt_len, sent, received, derailed>>
    BY <1>5 DEF set_recv_blocking, read, ReadNow, ReadWaits, ReadAfterWait, Take,
                WakeUp, recv_vars, vars
  <2>2. QED
    BY <2>1, OtherStep
<1>6. QED
  BY <1>1, <1>2, <1>3, <1>4, <1>5 DEF Next, run

LEMMA ClientKept == Spec => []ClientInv
BY InitBegins, ClientStep, PTL DEF Spec

(* Every packet read is one of those sent on this connection, in order and *)
(* whole, as long as no length was refused and no connection replaced      *)
(* before a payload.                                                       *)
THEOREM InStepAlways == Spec => []InStep
<1>1. ClientInv => InStep
  BY TrackIsInStep
<1>2. QED
  BY <1>1, ClientKept, PTL

(* Comparing a length before it is converted overruns the stack only when  *)
(* run() is out of step or the server sent more than the buffer holds.     *)
THEOREM OverrunForCauseAlways == Spec => []OverrunForCause
<1>1. ClientInv => OverrunForCause
  BY DEF ClientInv
<1>2. QED
  BY <1>1, ClientKept, PTL
=============================================================================
