------------------------ MODULE TCircularQueue_proofs ------------------------
(* The ring is a sequence, whatever its size and however often it wraps:   *)
(* each operation of the class is one of a deque with a capacity.          *)
EXTENDS TCircularQueue, SequenceTheorems, TLAPS

-----------------------------------------------------------------------------
(* Indices go around once at most.                                         *)
Wrapped(i, m) == IF i < m THEN i ELSE i - m

LEMMA WrapsOnce ==
  ASSUME NEW m \in Nat \ {0}, NEW i \in 0..2 * m - 1
  PROVE  i % m = Wrapped(i, m) /\ Wrapped(i, m) \in 0..m - 1
<1>1. CASE i < m
  BY <1>1 DEF Wrapped
<1>2. CASE i >= m
  BY <1>2 DEF Wrapped
<1>3. QED
  BY <1>1, <1>2

LEMMA OneCellFree ==
  ASSUME NEW m \in Nat \ {0}, NEW f \in 0..m - 1, NEW c \in 0..m - 1
  PROVE  Wrapped(Wrapped(f + c, m) + 1, m) = f <=> c = m - 1
  BY DEF Wrapped

(* The i-th element of a ring.                                             *)
Cell(r, i)  == r.queue[Wrapped(r.front + i, r.max_size)]
Contents(r) == [i \in 1..r.cur_size |-> Cell(r, i)]

(* The counter and the indices tell the same, and every cell between them  *)
(* was written.                                                            *)
RingTyped(r) ==
  /\ r = [front |-> r.front, rear |-> r.rear, max_size |-> r.max_size,
          cur_size |-> r.cur_size, queue |-> r.queue]
  /\ r.max_size \in Nat /\ r.max_size > 1
  /\ r.front \in 0..r.max_size - 1 /\ r.rear \in 0..r.max_size - 1
  /\ r.cur_size \in 0..r.max_size - 1
  /\ r.queue \in [0..r.max_size - 1 -> Values \cup {NoValue}]
RingOK(r) ==
  /\ RingTyped(r)
  /\ r.rear = Wrapped(r.front + r.cur_size, r.max_size)
  /\ \A i \in 1..r.cur_size : Cell(r, i) \in Values

LEMMA Indices ==
  ASSUME NEW r, RingTyped(r)
  PROVE  /\ r.max_size \in Nat \ {0} /\ r.max_size > 1
         /\ r.front \in 0..r.max_size - 1 /\ r.rear \in 0..r.max_size - 1
         /\ r.cur_size \in 0..r.max_size - 1 /\ r.cur_size \in Nat
         /\ r.front + 1 \in 0..2 * r.max_size - 1
         /\ r.rear + 1 \in 0..2 * r.max_size - 1
         /\ \A i \in 0..r.max_size : r.front + i \in 0..2 * r.max_size - 1
<1>1. /\ r.max_size \in Nat /\ r.max_size > 1
      /\ r.front \in 0..r.max_size - 1 /\ r.rear \in 0..r.max_size - 1
      /\ r.cur_size \in 0..r.max_size - 1
  BY DEF RingTyped
<1>2. QED
  BY <1>1

LEMMA ContentsAreSequence ==
  ASSUME NEW r, RingOK(r)
  PROVE  /\ Contents(r) \in Seq(Values) /\ Len(Contents(r)) = r.cur_size
         /\ \A i \in 1..r.cur_size : Contents(r)[i] = Cell(r, i)
<1>1. r.cur_size \in Nat /\ \A i \in 1..r.cur_size : Cell(r, i) \in Values
  BY Indices DEF RingOK
<1>2. QED
  BY <1>1 DEF Contents

(* A ring whose elements are those of a sequence stands for it.            *)
LEMMA ContentsEqual ==
  ASSUME NEW r, RingOK(r), NEW q \in Seq(Values), Len(q) = r.cur_size,
         \A i \in 1..r.cur_size : Cell(r, i) = q[i]
  PROVE  Contents(r) = q
  BY ContentsAreSequence, SeqEqual

(* What the class reads by get_at() are these elements, and its tests      *)
(* agree with their number.                                                *)
LEMMA ReadsContents ==
  ASSUME NEW r, RingOK(r)
  PROVE  /\ is_empty(r) <=> r.cur_size = 0
         /\ is_full(r) <=> r.cur_size = capacity(r)
         /\ capacity(r) \in Nat \ {0}
         /\ \A i \in 1..r.cur_size : get_at(r, i - 1) = Cell(r, i)
<1>0. RingTyped(r) /\ r.rear = Wrapped(r.front + r.cur_size, r.max_size)
  BY DEF RingOK
<1>1. is_empty(r) <=> r.cur_size = 0
  BY <1>0, Indices DEF is_empty, Wrapped
<1>2. (r.rear + 1) % r.max_size = Wrapped(r.rear + 1, r.max_size)
  BY <1>0, Indices, WrapsOnce
<1>3. is_full(r) <=> r.cur_size = capacity(r)
  <2>1. is_full(r) <=> Wrapped(r.rear + 1, r.max_size) = r.front
    BY <1>2 DEF is_full
  <2>2. /\ r.max_size \in Nat \ {0} /\ r.front \in 0..r.max_size - 1
        /\ r.cur_size \in 0..r.max_size - 1
    BY <1>0, Indices
  <2>3. is_full(r) <=> r.cur_size = r.max_size - 1
    BY <1>0, <2>1, <2>2, OneCellFree
  <2>4. QED
    BY <2>2, <2>3 DEF capacity
<1>4. ASSUME NEW i \in 1..r.cur_size
      PROVE  get_at(r, i - 1) = Cell(r, i)
  <2>1. /\ r.front + (i - 1) + 1 = r.front + i
        /\ r.max_size \in Nat \ {0} /\ r.front + i \in 0..2 * r.max_size - 1
    BY <1>0, Indices
  <2>2. QED
    BY <2>1, WrapsOnce DEF get_at, Cell
<1>5. QED
  BY <1>0, <1>1, <1>3, <1>4, Indices DEF capacity

LEMMA NewIsEmpty ==
  ASSUME NEW n \in Nat \ {0}
  PROVE  /\ RingOK(NewRing(n)) /\ Contents(NewRing(n)) = <<>>
         /\ capacity(NewRing(n)) = n
<1>1. RingOK(NewRing(n))
  BY DEF RingOK, RingTyped, NewRing, Wrapped
<1>2. NewRing(n).cur_size = 0 /\ NewRing(n).max_size = n + 1
  BY DEF NewRing
<1>3. Contents(NewRing(n)) = <<>>
  BY <1>1, <1>2, ContentsAreSequence, EmptySeq
<1>4. QED
  BY <1>1, <1>2, <1>3 DEF capacity

LEMMA ClearEmpties ==
  ASSUME NEW r, RingOK(r)
  PROVE  /\ RingOK(clear(r)) /\ Contents(clear(r)) = <<>>
         /\ capacity(clear(r)) = capacity(r)
<1> DEFINE s == clear(r)
<1>0. RingTyped(r)
  BY DEF RingOK
<1>1. /\ s.front = 0 /\ s.rear = 0 /\ s.cur_size = 0
      /\ s.max_size = r.max_size /\ s.queue = r.queue
      /\ s = [front |-> s.front, rear |-> s.rear, max_size |-> s.max_size,
              cur_size |-> s.cur_size, queue |-> s.queue]
  <2>1. r = [front |-> r.front, rear |-> r.rear, max_size |-> r.max_size,
             cur_size |-> r.cur_size, queue |-> r.queue]
    BY <1>0 DEF RingTyped
  <2>2. s = [r EXCEPT !.front = 0, !.rear = 0, !.cur_size = 0]
    BY DEF clear
  <2> HIDE DEF s
  <2>3. s = [front |-> 0, rear |-> 0, max_size |-> r.max_size,
             cur_size |-> 0, queue |-> r.queue]
    BY <2>1, <2>2
  <2>4. QED
    BY <2>3
<1> HIDE DEF s
<1>2. RingTyped(s)
  BY <1>1 DEF RingOK, RingTyped
<1>3. RingOK(s)
  BY <1>1, <1>2, Indices DEF RingOK, Wrapped
<1>4. Contents(s) = <<>>
  BY <1>1, <1>3, ContentsAreSequence, EmptySeq
<1>5. QED
  BY <1>1, <1>3, <1>4 DEF capacity, s

LEMMA PopFrontIsTail ==
  ASSUME NEW r, RingOK(r), r.cur_size # 0
  PROVE  /\ RingOK(pop_front(r)) /\ Contents(pop_front(r)) = Tail(Contents(r))
         /\ First(r) = Head(Contents(r)) /\ capacity(pop_front(r)) = capacity(r)
<1> DEFINE s == pop_front(r)
<1>0. RingTyped(r) /\ r.rear = Wrapped(r.front + r.cur_size, r.max_size)
  BY DEF RingOK
<1>1. (r.front + 1) % r.max_size = Wrapped(r.front + 1, r.max_size)
  BY <1>0, Indices, WrapsOnce
<1>2. /\ s = [r EXCEPT !.cur_size = r.cur_size - 1,
                       !.front = Wrapped(r.front + 1, r.max_size)]
      /\ First(r) = Cell(r, 1)
  BY <1>1 DEF pop_front, First, Cell
<1>3. /\ s.cur_size = r.cur_size - 1 /\ s.front = Wrapped(r.front + 1, r.max_size)
      /\ s.rear = r.rear /\ s.max_size = r.max_size /\ s.queue = r.queue
      /\ s = [front |-> s.front, rear |-> s.rear, max_size |-> s.max_size,
              cur_size |-> s.cur_size, queue |-> s.queue]
  BY <1>0, <1>2 DEF RingTyped
<1> HIDE DEF s
<1>4. /\ s.front \in 0..r.max_size - 1 /\ s.cur_size \in 0..r.max_size - 1
      /\ s.rear = Wrapped(s.front + s.cur_size, s.max_size)
      /\ \A i \in 1..s.cur_size :
           /\ Wrapped(s.front + i, s.max_size) = Wrapped(r.front + (i + 1), r.max_size)
           /\ i + 1 \in 1..r.cur_size
  BY <1>0, <1>3, Indices DEF Wrapped
<1>5. \A i \in 1..s.cur_size : Cell(s, i) = Cell(r, i + 1)
  BY <1>3, <1>4 DEF Cell
<1>6. RingTyped(s)
  BY <1>0, <1>3, <1>4 DEF RingTyped
<1>7. RingOK(s)
  BY <1>4, <1>5, <1>6 DEF RingOK
<1>8. /\ Tail(Contents(r)) \in Seq(Values) /\ Len(Tail(Contents(r))) = s.cur_size
      /\ \A i \in 1..s.cur_size : Tail(Contents(r))[i] = Cell(r, i + 1)
      /\ First(r) = Head(Contents(r))
  <2>1. Contents(r) # <<>> /\ r.cur_size \in Nat
    BY <1>0, Indices, ContentsAreSequence
  <2>2. Contents(r) \in Seq(Values) /\ Len(Contents(r)) = r.cur_size
    BY ContentsAreSequence
  <2>3. /\ Tail(Contents(r)) \in Seq(Values)
        /\ Len(Tail(Contents(r))) = r.cur_size - 1
        /\ \A i \in 1..r.cur_size - 1 : Tail(Contents(r))[i] = Contents(r)[i + 1]
        /\ Head(Contents(r)) = Contents(r)[1]
    BY <2>1, <2>2
  <2>4. Head(Contents(r)) = Cell(r, 1)
    BY <2>1, <2>2, <2>3 DEF Contents
  <2>5. QED
    BY <1>2, <1>3, <1>4, <2>3, <2>4, ContentsAreSequence
<1>9. Contents(s) = Tail(Contents(r))
  BY <1>5, <1>7, <1>8, ContentsEqual
<1>10. QED
  BY <1>3, <1>7, <1>8, <1>9 DEF capacity, s

LEMMA PopBackIsFront ==
  ASSUME NEW r, RingOK(r), r.cur_size # 0
  PROVE  /\ RingOK(pop_back(r)) /\ capacity(pop_back(r)) = capacity(r)
         /\ Contents(pop_back(r)) = SubSeq(Contents(r), 1, r.cur_size - 1)
         /\ Last(r) = Contents(r)[r.cur_size]
<1> DEFINE s == pop_back(r)
           rear == IF r.rear = 0 THEN r.max_size - 1 ELSE r.rear - 1
<1>0. RingTyped(r) /\ r.rear = Wrapped(r.front + r.cur_size, r.max_size)
  BY DEF RingOK
<1>1. s = [r EXCEPT !.cur_size = r.cur_size - 1, !.rear = rear]
  BY DEF pop_back
<1>2. rear \in 0..r.max_size - 1
      /\ rear = Wrapped(r.front + (r.cur_size - 1), r.max_size)
  BY <1>0, Indices DEF Wrapped
<1> HIDE DEF rear
<1>3. /\ s.cur_size = r.cur_size - 1 /\ s.front = r.front /\ s.rear = rear
      /\ s.max_size = r.max_size /\ s.queue = r.queue
      /\ s = [front |-> s.front, rear |-> s.rear, max_size |-> s.max_size,
              cur_size |-> s.cur_size, queue |-> s.queue]
  BY <1>0, <1>1 DEF RingTyped
<1> HIDE DEF s
<1>4. r.cur_size \in 1..r.max_size - 1 /\ s.cur_size \in 0..r.max_size - 1
  BY <1>0, <1>3, Indices
<1>5. \A i \in 1..s.cur_size : Cell(s, i) = Cell(r, i) /\ i \in 1..r.cur_size
  BY <1>3, <1>4 DEF Cell
<1>6. RingTyped(s)
  BY <1>0, <1>2, <1>3, <1>4 DEF RingTyped
<1>7. RingOK(s)
  BY <1>2, <1>3, <1>5, <1>6 DEF RingOK
<1>8. /\ SubSeq(Contents(r), 1, r.cur_size - 1) \in Seq(Values)
      /\ Len(SubSeq(Contents(r), 1, r.cur_size - 1)) = s.cur_size
      /\ \A i \in 1..s.cur_size :
           SubSeq(Contents(r), 1, r.cur_size - 1)[i] = Cell(r, i)
  BY <1>3, <1>4, <1>5, ContentsAreSequence, SubSeqProperties
<1>9. Contents(s) = SubSeq(Contents(r), 1, r.cur_size - 1)
  BY <1>5, <1>7, <1>8, ContentsEqual
<1>10. Last(r) = Contents(r)[r.cur_size]
  BY <1>0, <1>4, ContentsAreSequence DEF Last, Cell
<1>11. QED
  BY <1>3, <1>7, <1>9, <1>10 DEF capacity, s

(* A push into a ring that is not full.                                    *)
Appended(r, v) ==
  LET rear == (r.rear + 1) % r.max_size
  IN  [r EXCEPT !.rear = rear, !.queue[rear] = v, !.cur_size = @ + 1]
Prepended(r, v) ==
  [r EXCEPT !.queue[r.front] = v, !.cur_size = @ + 1,
            !.front = IF @ = 0 THEN r.max_size - 1 ELSE @ - 1]

LEMMA PushesMakeRoom ==
  ASSUME NEW r, NEW v
  PROVE  /\ push_back(r, v) = Appended(MakeRoom(r), v)
         /\ push_front(r, v) = Prepended(MakeRoom(r), v)
  BY DEF push_back, push_front, Appended, Prepended

LEMMA AppendedIsAppend ==
  ASSUME NEW r, RingOK(r), r.cur_size # capacity(r), NEW v \in Values
  PROVE  /\ RingOK(Appended(r, v)) /\ capacity(Appended(r, v)) = capacity(r)
         /\ Contents(Appended(r, v)) = Append(Contents(r), v)
<1> DEFINE rear == Wrapped(r.rear + 1, r.max_size)
           s    == Appended(r, v)
<1>0. RingTyped(r) /\ r.rear = Wrapped(r.front + r.cur_size, r.max_size)
  BY DEF RingOK
<1>1. (r.rear + 1) % r.max_size = rear
  BY <1>0, Indices, WrapsOnce
<1>2. s = [r EXCEPT !.rear = rear, !.queue = [r.queue EXCEPT ![rear] = v],
                    !.cur_size = r.cur_size + 1]
  BY <1>1 DEF Appended
<1>3. /\ rear \in 0..r.max_size - 1
      /\ rear = Wrapped(r.front + (r.cur_size + 1), r.max_size)
      /\ r.cur_size + 1 \in 0..r.max_size - 1
  BY <1>0, Indices DEF Wrapped, capacity
<1>4. \A i \in 1..r.cur_size : Wrapped(r.front + i, r.max_size) # rear
  BY <1>0, <1>3, Indices DEF Wrapped
<1> HIDE DEF rear
<1>5. /\ s.cur_size = r.cur_size + 1 /\ s.front = r.front /\ s.rear = rear
      /\ s.max_size = r.max_size /\ s.queue = [r.queue EXCEPT ![rear] = v]
      /\ s = [front |-> s.front, rear |-> s.rear, max_size |-> s.max_size,
              cur_size |-> s.cur_size, queue |-> s.queue]
  BY <1>0, <1>2 DEF RingTyped
<1> HIDE DEF s
<1>6. /\ s.queue \in [0..r.max_size - 1 -> Values \cup {NoValue}]
      /\ s.queue[rear] = v
      /\ \A j \in 0..r.max_size - 1 : j # rear => s.queue[j] = r.queue[j]
  BY <1>0, <1>3, <1>5 DEF RingTyped
<1>7. \A i \in 1..r.cur_size : Cell(s, i) = Cell(r, i)
  <2>1. \A i \in 1..r.cur_size : Wrapped(r.front + i, r.max_size) \in 0..r.max_size - 1
    BY <1>0, Indices DEF Wrapped
  <2>2. QED
    BY <1>4, <1>5, <1>6, <2>1 DEF Cell
<1>8. Cell(s, s.cur_size) = v
  BY <1>3, <1>5, <1>6 DEF Cell
<1>9. RingTyped(s)
  BY <1>0, <1>3, <1>5, <1>6 DEF RingTyped
<1>10. \A i \in 1..s.cur_size : i \in 1..r.cur_size \/ i = s.cur_size
  BY <1>0, <1>5, Indices
<1>11. RingOK(s)
  BY <1>3, <1>5, <1>7, <1>8, <1>9, <1>10 DEF RingOK
<1>12. Contents(s) = Append(Contents(r), v)
  BY <1>5, <1>7, <1>8, <1>10, <1>11, ContentsAreSequence, ContentsEqual,
     AppendProperties
<1>13. QED
  BY <1>5, <1>11, <1>12 DEF capacity, s

LEMMA PrependedIsFirst ==
  ASSUME NEW r, RingOK(r), r.cur_size # capacity(r), NEW v \in Values
  PROVE  /\ RingOK(Prepended(r, v)) /\ capacity(Prepended(r, v)) = capacity(r)
         /\ Contents(Prepended(r, v)) = <<v>> \o Contents(r)
<1> DEFINE front == IF r.front = 0 THEN r.max_size - 1 ELSE r.front - 1
           s     == Prepended(r, v)
<1>0. RingTyped(r) /\ r.rear = Wrapped(r.front + r.cur_size, r.max_size)
  BY DEF RingOK
<1>1. s = [r EXCEPT !.queue = [r.queue EXCEPT ![r.front] = v],
                    !.cur_size = r.cur_size + 1, !.front = front]
  BY DEF Prepended
<1>2. /\ front \in 0..r.max_size - 1 /\ r.front = Wrapped(front + 1, r.max_size)
      /\ r.cur_size + 1 \in 0..r.max_size - 1
      /\ r.rear = Wrapped(front + (r.cur_size + 1), r.max_size)
  <2>1. /\ r.max_size \in Nat \ {0} /\ r.front \in 0..r.max_size - 1
        /\ r.cur_size \in 0..r.max_size - 1 /\ r.cur_size # r.max_size - 1
    BY <1>0, Indices DEF capacity
  <2>2. QED
    BY <1>0, <2>1 DEF Wrapped
<1>3. \A i \in 1..r.cur_size :
        /\ Wrapped(r.front + i, r.max_size) # r.front
        /\ Wrapped(front + (i + 1), r.max_size) = Wrapped(r.front + i, r.max_size)
        /\ Wrapped(r.front + i, r.max_size) \in 0..r.max_size - 1
  BY <1>0, Indices DEF Wrapped
<1> HIDE DEF front
<1>4. /\ s.cur_size = r.cur_size + 1 /\ s.front = front /\ s.rear = r.rear
      /\ s.max_size = r.max_size /\ s.queue = [r.queue EXCEPT ![r.front] = v]
      /\ s = [front |-> s.front, rear |-> s.rear, max_size |-> s.max_size,
              cur_size |-> s.cur_size, queue |-> s.queue]
  BY <1>0, <1>1 DEF RingTyped
<1> HIDE DEF s
<1>5. /\ s.queue \in [0..r.max_size - 1 -> Values \cup {NoValue}]
      /\ s.queue[r.front] = v
      /\ \A j \in 0..r.max_size - 1 : j # r.front => s.queue[j] = r.queue[j]
  BY <1>0, <1>4 DEF RingTyped
<1>6. \A i \in 1..r.cur_size : Cell(s, i + 1) = Cell(r, i)
  BY <1>3, <1>4, <1>5 DEF Cell
<1>7. Cell(s, 1) = v
  BY <1>2, <1>4, <1>5 DEF Cell
<1>8. \A i \in 1..s.cur_size : i = 1 \/ (i - 1 \in 1..r.cur_size /\ i = (i - 1) + 1)
  BY <1>0, <1>4, Indices
<1>9. RingTyped(s)
  BY <1>0, <1>2, <1>4, <1>5 DEF RingTyped
<1>10. RingOK(s)
  <2>1. \A i \in 1..s.cur_size : Cell(s, i) \in Values
    BY <1>6, <1>7, <1>8 DEF RingOK
  <2>2. QED
    BY <1>2, <1>4, <1>9, <2>1 DEF RingOK
<1>11. Contents(s) = <<v>> \o Contents(r)
  <2> DEFINE q == <<v>> \o Contents(r)
  <2>1. Contents(r) \in Seq(Values) /\ Len(Contents(r)) = r.cur_size
        /\ r.cur_size \in Nat
    BY <1>0, Indices, ContentsAreSequence
  <2>2. /\ q \in Seq(Values) /\ Len(q) = s.cur_size /\ q[1] = v
        /\ \A i \in 1..r.cur_size : q[i + 1] = Contents(r)[i]
    BY <1>4, <2>1
  <2>3. \A i \in 1..r.cur_size : q[i + 1] = Cell(r, i)
    BY <2>2, ContentsAreSequence
  <2> HIDE DEF q
  <2>4. \A i \in 1..s.cur_size : Cell(s, i) = q[i]
    BY <1>6, <1>7, <1>8, <2>2, <2>3
  <2>5. QED
    BY <1>10, <2>2, <2>4, ContentsEqual DEF q
<1>12. QED
  BY <1>4, <1>10, <1>11 DEF capacity, s

(* The two copies of resize() find the elements in order; none is lost     *)
(* when the new array is large enough.                                     *)
LEMMA ResizeKeeps ==
  ASSUME NEW r, RingOK(r), NEW n \in Nat \ {0}, n >= r.cur_size
  PROVE  /\ RingOK(resize(r, n)) /\ capacity(resize(r, n)) = n
         /\ Contents(resize(r, n)) = Contents(r)
<1> DEFINE s == resize(r, n)
<1>0. RingTyped(r) /\ r.rear = Wrapped(r.front + r.cur_size, r.max_size)
  BY DEF RingOK
<1>1. /\ r.max_size \in Nat \ {0} /\ r.front \in 0..r.max_size - 1
      /\ r.cur_size \in 0..r.max_size - 1
  BY <1>0, Indices
<1>2. ASSUME NEW i \in 1..r.cur_size PROVE Unwrapped(r)[i] = Cell(r, i)
  <2> DEFINE offset == r.max_size - (r.front + 1)
  <2>1. Unwrapped(r)[i] = r.queue[IF r.front < r.rear \/ i <= offset
                                  THEN r.front + i ELSE i - 1 - offset]
    BY DEF Unwrapped
  <2>2. (IF r.front < r.rear \/ i <= offset THEN r.front + i ELSE i - 1 - offset)
          = Wrapped(r.front + i, r.max_size)
    BY <1>0, <1>1 DEF Wrapped
  <2>3. QED
    BY <2>1, <2>2 DEF Cell
<1>3. /\ s.front = 0 /\ s.rear = r.cur_size /\ s.max_size = n + 1
      /\ s.cur_size = r.cur_size
      /\ s.queue = [i \in 0..n |-> IF i \in 1..r.cur_size
                                   THEN Unwrapped(r)[i] ELSE NoValue]
      /\ s = [front |-> s.front, rear |-> s.rear, max_size |-> s.max_size,
              cur_size |-> s.cur_size, queue |-> s.queue]
  BY DEF resize
<1> HIDE DEF s
<1>4. \A i \in 1..r.cur_size : i \in 0..n /\ Wrapped(s.front + i, s.max_size) = i
  BY <1>1, <1>3 DEF Wrapped
<1>5. \A i \in 1..r.cur_size : Cell(s, i) = Cell(r, i)
  BY <1>2, <1>3, <1>4 DEF Cell
<1>6. /\ 0..s.max_size - 1 = 0..n /\ s.rear = Wrapped(s.front + s.cur_size, s.max_size)
      /\ s.rear \in 0..n /\ s.front \in 0..n /\ s.cur_size \in 0..n
      /\ s.max_size \in Nat /\ s.max_size > 1
  BY <1>1, <1>3 DEF Wrapped
<1>7. s.queue \in [0..n -> Values \cup {NoValue}]
  BY <1>2, <1>3 DEF RingOK
<1>8. RingTyped(s)
  BY <1>3, <1>6, <1>7 DEF RingTyped
<1>9. RingOK(s)
  BY <1>3, <1>5, <1>6, <1>8 DEF RingOK
<1>10. Contents(s) = Contents(r)
  BY <1>3, <1>5, <1>9, ContentsAreSequence, ContentsEqual
<1>11. QED
  BY <1>1, <1>3, <1>9, <1>10 DEF capacity, s

(* A full ring discards its first element, or doubles.                     *)
LEMMA MakesRoom ==
  ASSUME NEW r, RingOK(r)
  PROVE  LET s == MakeRoom(r)
             full == Len(Contents(r)) = capacity(r)
         IN  /\ RingOK(s) /\ s.cur_size # capacity(s)
             /\ Contents(s) = IF full /\ ~unlimited THEN Tail(Contents(r))
                              ELSE Contents(r)
             /\ capacity(s) = IF full /\ unlimited THEN 2 * capacity(r)
                              ELSE capacity(r)
<1>1. /\ Len(Contents(r)) = r.cur_size /\ r.cur_size \in Nat
      /\ capacity(r) \in Nat \ {0} /\ (is_full(r) <=> r.cur_size = capacity(r))
  BY ContentsAreSequence, ReadsContents
<1>2. CASE ~is_full(r)
  BY <1>1, <1>2 DEF MakeRoom
<1>3. CASE is_full(r) /\ unlimited
  <2> DEFINE n == capacity(r) * 2
  <2>1. n \in Nat \ {0} /\ n >= r.cur_size /\ n # r.cur_size /\ n = 2 * capacity(r)
    BY <1>1, <1>3
  <2>2. MakeRoom(r) = resize(r, n)
    BY <1>3 DEF MakeRoom
  <2>3. resize(r, n).cur_size = r.cur_size
    BY DEF resize
  <2> HIDE DEF n
  <2>4. QED
    BY <1>1, <1>3, <2>1, <2>2, <2>3, ResizeKeeps
<1>4. CASE is_full(r) /\ ~unlimited
  <2>1. r.cur_size # 0 /\ MakeRoom(r) = pop_front(r)
    BY <1>1, <1>4 DEF MakeRoom
  <2>2. /\ RingOK(pop_front(r)) /\ Contents(pop_front(r)) = Tail(Contents(r))
        /\ capacity(pop_front(r)) = capacity(r)
    BY <2>1, PopFrontIsTail
  <2>3. Len(Contents(pop_front(r))) = pop_front(r).cur_size
        /\ Contents(r) \in Seq(Values) /\ Contents(r) # <<>>
    BY <1>1, <2>1, <2>2, ContentsAreSequence
  <2>4. pop_front(r).cur_size # capacity(pop_front(r))
    BY <1>1, <1>4, <2>2, <2>3
  <2>5. QED
    BY <1>1, <1>4, <2>1, <2>2, <2>4
<1>5. QED
  BY <1>2, <1>3, <1>4

LEMMA PushBackAppends ==
  ASSUME NEW r, RingOK(r), NEW v \in Values
  PROVE  LET full == Len(Contents(r)) = capacity(r)
             kept == IF full /\ ~unlimited THEN Tail(Contents(r)) ELSE Contents(r)
         IN  /\ RingOK(push_back(r, v)) /\ Contents(push_back(r, v)) = Append(kept, v)
             /\ capacity(push_back(r, v)) =
                  IF full /\ unlimited THEN 2 * capacity(r) ELSE capacity(r)
<1> DEFINE s == MakeRoom(r)
<1>1. RingOK(s) /\ s.cur_size # capacity(s)
  BY MakesRoom
<1> HIDE DEF s
<1>2. /\ RingOK(Appended(s, v)) /\ capacity(Appended(s, v)) = capacity(s)
      /\ Contents(Appended(s, v)) = Append(Contents(s), v)
  BY <1>1, AppendedIsAppend
<1>3. push_back(r, v) = Appended(s, v)
  BY PushesMakeRoom DEF s
<1>4. QED
  BY <1>2, <1>3, MakesRoom DEF s

LEMMA PushFrontPrepends ==
  ASSUME NEW r, RingOK(r), NEW v \in Values
  PROVE  LET full == Len(Contents(r)) = capacity(r)
             kept == IF full /\ ~unlimited THEN Tail(Contents(r)) ELSE Contents(r)
         IN  /\ RingOK(push_front(r, v))
             /\ Contents(push_front(r, v)) = <<v>> \o kept
             /\ capacity(push_front(r, v)) =
                  IF full /\ unlimited THEN 2 * capacity(r) ELSE capacity(r)
<1> DEFINE s == MakeRoom(r)
<1>1. RingOK(s) /\ s.cur_size # capacity(s)
  BY MakesRoom
<1> HIDE DEF s
<1>2. /\ RingOK(Prepended(s, v)) /\ capacity(Prepended(s, v)) = capacity(s)
      /\ Contents(Prepended(s, v)) = <<v>> \o Contents(s)
  BY <1>1, PrependedIsFirst
<1>3. push_front(r, v) = Prepended(s, v)
  BY PushesMakeRoom DEF s
<1>4. QED
  BY <1>2, <1>3, MakesRoom DEF s

-----------------------------------------------------------------------------
(* The theorems.                                                           *)

RingInv == RingOK(ring) /\ unlimited \in BOOLEAN
           /\ returned \in Values \cup {NoValue}

(* The deque that Deque speaks of.                                         *)
Listed(r) == [i \in 1..size(r) |-> get_at(r, i - 1)]

LEMMA ListedIsContents ==
  ASSUME NEW r, RingOK(r)
  PROVE  Listed(r) = Contents(r)
  BY ReadsContents DEF Listed, Contents, size

(* What an operation on the deque means for the ring.                      *)
LEMMA InitIsDeque == Init => RingInv /\ Deque!Init
<1> SUFFICES ASSUME Init PROVE RingInv /\ Deque!Init
  OBVIOUS
<1>1. PICK n \in Sizes : ring = NewRing(n)
  BY DEF Init
<1>2. n \in Nat \ {0}
  BY RingAssumption DEF RingAssumption
<1>3. RingOK(ring) /\ Contents(ring) = <<>> /\ capacity(ring) = n
  BY <1>1, <1>2, NewIsEmpty
<1>4. Listed(ring) = <<>>
  BY <1>3, ListedIsContents
<1>5. QED
  BY <1>2, <1>3, <1>4 DEF Init, RingInv, Deque!Init, Listed

LEMMA StepIsDeque ==
  ASSUME RingInv, [Next]_vars
  PROVE  RingInv' /\ [Deque!Next]_(Deque!vars)
<1> DEFINE d == Listed(ring)
<1>0. /\ RingOK(ring) /\ d = Contents(ring) /\ d \in Seq(Values)
      /\ Len(d) = ring.cur_size /\ ring.cur_size \in Nat
      /\ (d = <<>> <=> is_empty(ring)) /\ capacity(ring) \in Nat \ {0}
      /\ unlimited \in BOOLEAN /\ returned \in Values \cup {NoValue}
  BY ListedIsContents, ContentsAreSequence, ReadsContents DEF RingInv
<1>1. ASSUME NEW v \in Values, ring' = push_back(ring, v),
             UNCHANGED <<unlimited, returned>>
      PROVE  RingInv' /\ Deque!Next
  <2>1. /\ RingOK(ring') /\ capacity(ring)' = IF Len(d) = capacity(ring) /\ unlimited
                                              THEN 2 * capacity(ring) ELSE capacity(ring)
        /\ Contents(ring') = Append(IF Len(d) = capacity(ring) /\ ~unlimited
                                    THEN Tail(d) ELSE d, v)
    BY <1>0, <1>1, PushBackAppends DEF capacity
  <2>2. Listed(ring)' = Contents(ring')
    BY <2>1, ListedIsContents DEF Listed
  <2>3. Deque!PushBack(v)
    BY <2>1, <2>2 DEF Deque!PushBack, Deque!Kept, Deque!Grow, Deque!Full, Listed
  <2>4. QED
    BY <1>0, <1>1, <2>1, <2>3 DEF RingInv, Deque!Next
<1>2. ASSUME NEW v \in Values, ring' = push_front(ring, v),
             UNCHANGED <<unlimited, returned>>
      PROVE  RingInv' /\ Deque!Next
  <2>1. /\ RingOK(ring') /\ capacity(ring)' = IF Len(d) = capacity(ring) /\ unlimited
                                              THEN 2 * capacity(ring) ELSE capacity(ring)
        /\ Contents(ring') = <<v>> \o (IF Len(d) = capacity(ring) /\ ~unlimited
                                       THEN Tail(d) ELSE d)
    BY <1>0, <1>2, PushFrontPrepends DEF capacity
  <2>2. Listed(ring)' = Contents(ring')
    BY <2>1, ListedIsContents DEF Listed
  <2>3. Deque!PushFront(v)
    BY <2>1, <2>2 DEF Deque!PushFront, Deque!Kept, Deque!Grow, Deque!Full, Listed
  <2>4. QED
    BY <1>0, <1>2, <2>1, <2>3 DEF RingInv, Deque!Next
<1>3. CASE Pop
  <2>1. d # <<>> /\ ring.cur_size # 0 /\ UNCHANGED unlimited
    BY <1>0, <1>3 DEF Pop
  <2>2. ASSUME ring' = pop_front(ring), returned' = First(ring)
        PROVE  RingInv' /\ Deque!Next
    <3>1. /\ RingOK(ring') /\ Contents(ring') = Tail(d) /\ returned' = Head(d)
          /\ capacity(ring)' = capacity(ring)
      BY <1>0, <2>1, <2>2, PopFrontIsTail DEF capacity
    <3>2. Listed(ring)' = Tail(d)
      BY <3>1, ListedIsContents DEF Listed
    <3>3. Deque!PopFront
      BY <2>1, <3>1, <3>2 DEF Deque!PopFront, Listed
    <3>4. Head(d) \in Values
      BY <1>0, <2>1
    <3>5. QED
      BY <1>0, <2>1, <3>1, <3>3, <3>4 DEF RingInv, Deque!Next
  <2>3. ASSUME ring' = pop_back(ring), returned' = Last(ring)
        PROVE  RingInv' /\ Deque!Next
    <3>1. /\ RingOK(ring') /\ Contents(ring') = SubSeq(d, 1, Len(d) - 1)
          /\ returned' = d[Len(d)] /\ capacity(ring)' = capacity(ring)
      BY <1>0, <2>1, <2>3, PopBackIsFront DEF capacity
    <3>2. Listed(ring)' = SubSeq(d, 1, Len(d) - 1)
      BY <3>1, ListedIsContents DEF Listed
    <3>3. Deque!PopBack
      BY <2>1, <3>1, <3>2 DEF Deque!PopBack, Listed
    <3>4. d[Len(d)] \in Values
      BY <1>0, <2>1
    <3>5. QED
      BY <1>0, <2>1, <3>1, <3>3, <3>4 DEF RingInv, Deque!Next
  <2>4. QED
    BY <1>3, <2>2, <2>3 DEF Pop
<1>4. CASE Peek
  <2>1. d # <<>> /\ ring.cur_size \in Nat \ {0} /\ UNCHANGED <<ring, unlimited>>
    BY <1>0, <1>4 DEF Peek
  <2>2. get_first(ring) = d[1] /\ get_last(ring) = d[Len(d)]
    BY <1>0, <2>1 DEF get_first, get_last, Listed, size
  <2>3. Head(d) = d[1] /\ d[1] \in Values /\ d[Len(d)] \in Values
    BY <1>0, <2>1
  <2>4. returned' \in {Head(d), d[Len(d)]}
    BY <1>4, <2>2, <2>3 DEF Peek
  <2>5. Deque!Peek /\ UNCHANGED <<Listed(ring), capacity(ring), unlimited>>
    BY <2>1, <2>4 DEF Deque!Peek, Listed, capacity, size, get_at
  <2>6. QED
    BY <1>0, <2>1, <2>3, <2>4, <2>5 DEF RingInv, Deque!Next, Listed
<1>5. CASE Reserve
  <2>1. PICK n \in Sizes : ring' = NewRing(n)
    BY <1>5 DEF Reserve
  <2>2. n \in Nat \ {0} /\ UNCHANGED <<unlimited, returned>>
    BY <1>5, RingAssumption DEF Reserve, RingAssumption
  <2>3. RingOK(ring') /\ Contents(ring') = <<>> /\ capacity(ring)' = n
    BY <2>1, <2>2, NewIsEmpty DEF capacity
  <2>4. Listed(ring)' = <<>>
    BY <2>3, ListedIsContents DEF Listed
  <2>5. Deque!Renew
    BY <2>2, <2>3, <2>4 DEF Deque!Renew, Listed
  <2>6. QED
    BY <1>0, <2>2, <2>3, <2>5 DEF RingInv, Deque!Next
<1>6. CASE Resize
  <2>1. PICK n \in Sizes : n >= size(ring) /\ ring' = resize(ring, n)
    BY <1>6 DEF Resize
  <2>2. n \in Nat \ {0} /\ UNCHANGED <<unlimited, returned>> /\ n >= ring.cur_size
    BY <1>6, <2>1, RingAssumption DEF Resize, RingAssumption, size
  <2>3. RingOK(ring') /\ Contents(ring') = d /\ capacity(ring)' = n
    BY <1>0, <2>1, <2>2, ResizeKeeps DEF capacity
  <2>4. Listed(ring)' = d
    BY <2>3, ListedIsContents DEF Listed
  <2>5. Deque!Resize
    BY <1>0, <2>2, <2>3, <2>4 DEF Deque!Resize, Listed
  <2>6. QED
    BY <1>0, <2>2, <2>3, <2>5 DEF RingInv, Deque!Next
<1>7. CASE Clear
  <2>1. RingOK(ring') /\ Contents(ring') = <<>> /\ capacity(ring)' = capacity(ring)
    BY <1>0, <1>7, ClearEmpties DEF Clear, capacity
  <2>2. Listed(ring)' = <<>>
    BY <2>1, ListedIsContents DEF Listed
  <2>3. Deque!Clear
    BY <2>1, <2>2 DEF Deque!Clear, Listed
  <2>4. QED
    BY <1>0, <1>7, <2>1, <2>3 DEF Clear, RingInv, Deque!Next
<1>8. CASE SetUnlimited
  BY <1>0, <1>8 DEF SetUnlimited, RingInv, Deque!Next, Listed, capacity, size, get_at
<1>9. CASE UNCHANGED vars
  BY <1>0, <1>9 DEF vars, RingInv, Deque!vars, Listed, capacity, size, get_at
<1>10. QED
  BY <1>1, <1>2, <1>3, <1>4, <1>5, <1>6, <1>7, <1>8, <1>9 DEF Next, Push

(* The indices and the counter stay in their ranges, and every cell holds  *)
(* a value or what nobody wrote.                                           *)
THEOREM TypeCorrect == Spec => []TypeOK
<1>1. RingInv => TypeOK
  BY DEF RingInv, RingOK, RingTyped, TypeOK
<1>2. RingInv /\ [Next]_vars => RingInv'
  BY StepIsDeque
<1>3. QED
  BY <1>1, <1>2, InitIsDeque, PTL DEF Spec

(* "Empty?" and "full?", answered from the indices, agree with "how        *)
(* many?", answered from the counter, in rings of every size and after     *)
(* every mixture of operations.                                            *)
THEOREM TestsAgreeAlways == Spec => []TestsAgree
<1>1. RingInv => TestsAgree
  BY ReadsContents DEF RingInv, TestsAgree, size
<1>2. RingInv /\ [Next]_vars => RingInv'
  BY StepIsDeque
<1>3. QED
  BY <1>1, <1>2, InitIsDeque, PTL DEF Spec

(* The ring is a deque with a capacity: it begins as one, and each step is *)
(* one of BoundedDeque or changes nothing of it.                           *)
THEOREM ImplementsDequeAlways == Spec => ImplementsBoundedDeque
<1>1. RingInv /\ [Next]_vars => RingInv' /\ [Deque!Next]_(Deque!vars)
  BY StepIsDeque
<1>2. QED
  BY <1>1, InitIsDeque, PTL DEF Spec, ImplementsBoundedDeque, Deque!Spec
=============================================================================
