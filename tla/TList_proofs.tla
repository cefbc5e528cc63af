---------------------------- MODULE TList_proofs ----------------------------
(* What holds of the list for every number of nodes, size of the pool,     *)
(* limit and sequence of calls.                                            *)
EXTENDS TList, FiniteSetTheorems, SequenceTheorems, WellFoundedInduction, TLAPS

-----------------------------------------------------------------------------
(* Walk, which is recursive: a set of numbers that is not empty has a      *)
(* least one, so there is no first step at which it could go astray.       *)

LEMMA LeastNumber ==
  ASSUME NEW T \in SUBSET Nat, T # {}
  PROVE  \E x \in T : \A y \in T : x <= y
<1> DEFINE R == OpToRel(<, Nat)
<1>1. IsWellFoundedOn(R, Nat)
  BY NatLessThanWellFounded
<1>2. \A y, x \in Nat : <<y, x>> \in R <=> y < x
  BY DEF OpToRel
<1> HIDE DEF R
<1>3. \E x \in T : \A y \in T : ~ (<<y, x>> \in R)
  BY <1>1, WFMin
<1>4. \A x, y \in T : ~ (y < x) => x <= y
  OBVIOUS
<1>5. QED
  BY <1>2, <1>3, <1>4

(* k steps along f from `at[0]' lead to `at[k]' when each one does.        *)
LEMMA WalkFollows ==
  ASSUME NEW f, NEW k \in Nat, NEW at,
         \A i \in 0..k - 1 : f[at[i]] = at[i + 1]
  PROVE  Walk(f, at[0], k) = at[k]
<1> DEFINE n == at[0]
           Step(v) == [i \in 0..k |-> IF i = 0 THEN n ELSE f[v[i - 1]]]
           w == [i \in 0..k |-> at[i]]
<1>1. \A i \in 0..k : w[i] = IF i = 0 THEN n ELSE f[w[i - 1]]
  <2> SUFFICES ASSUME NEW i \in 0..k, i # 0 PROVE at[i] = f[w[i - 1]]
    OBVIOUS
  <2>1. i - 1 \in 0..k - 1 /\ i - 1 \in 0..k /\ (i - 1) + 1 = i
    OBVIOUS
  <2>2. w[i - 1] = at[i - 1] /\ f[at[i - 1]] = at[i]
    BY <2>1
  <2>3. QED
    BY <2>2
<1>2. w = Step(w)
  <2>1. \A i \in 0..k : w[i] = Step(w)[i]
    BY <1>1
  <2>2. QED
    BY <2>1
<1>3. PICK v : v = Step(v) /\ Walk(f, n, k) = v[k]
  BY <1>2 DEF Walk
<1> DEFINE T == {i \in 0..k : v[i] # at[i]}
<1>4. T = {}
  <2> SUFFICES ASSUME T # {} PROVE FALSE
    OBVIOUS
  <2>1. PICK x \in T : \A y \in T : x <= y
    <3>1. T \in SUBSET Nat
      OBVIOUS
    <3>2. QED
      BY <3>1, LeastNumber
  <2>2. \A i \in 0..k : v[i] = IF i = 0 THEN n ELSE f[v[i - 1]]
    BY <1>3
  <2>3. x # 0
    BY <2>1, <2>2
  <2>4. x \in 0..k /\ x - 1 \in 0..k - 1 /\ x - 1 \in 0..k /\ (x - 1) + 1 = x
    BY <2>1, <2>3
  <2>5. x - 1 \notin T
    BY <2>1, <2>4
  <2>6. v[x - 1] = at[x - 1]
    BY <2>4, <2>5
  <2>7. v[x] = f[at[x - 1]]
    BY <2>2, <2>3, <2>4, <2>6
  <2>8. v[x] = at[x]
    BY <2>4, <2>7
  <2>9. QED
    BY <2>1, <2>8
<1>5. v[k] = at[k]
  BY <1>4
<1>6. QED
  BY <1>3, <1>5

-----------------------------------------------------------------------------
(* A ring and a chain, as what is found at each of their positions.        *)

(* r[0] and r[size + 1] are the head, between them the nodes in order.     *)
IsRing(nx, pv, h, size, r) ==
  /\ r \in [0..size + 1 -> Nodes]
  /\ r[0] = h /\ r[size + 1] = h
  /\ \A i, j \in 0..size : r[i] = r[j] => i = j
  /\ \A i \in 0..size : nx[r[i]] = r[i + 1] /\ pv[r[i + 1]] = r[i]

(* c[m] is the node on top, c[1] the lowest, c[0] the end.                 *)
IsChain(nx, top, m, c) ==
  /\ c \in [0..m -> Nodes \cup {Null}]
  /\ c[0] = Null /\ c[m] = top
  /\ \A i \in 1..m : c[i] \in Nodes /\ nx[c[i]] = c[i - 1]
  /\ \A i, j \in 1..m : c[i] = c[j] => i = j

Inserted(r, size, p, n) ==
  [i \in 0..size + 2 |-> IF i < p THEN r[i] ELSE IF i = p THEN n ELSE r[i - 1]]

Removed(r, size, p) == [i \in 0..size |-> IF i < p THEN r[i] ELSE r[i + 1]]

(* Only the two ends of the ring are the same node.                        *)
LEMMA RingPositions ==
  ASSUME NEW nx, NEW pv, NEW h, NEW size \in Nat, NEW r,
         IsRing(nx, pv, h, size, r)
  PROVE  \A i, j \in 1..size + 1 : r[i] = r[j] => i = j
<1>1. \A i \in 1..size + 1 : i \in 0..size \/ i = size + 1
  OBVIOUS
<1>2. \A i \in 1..size : i \in 0..size /\ i # 0
  OBVIOUS
<1>3. 0 \in 0..size
  OBVIOUS
<1>4. \A i \in 1..size + 1 : i # size + 1 => i \in 1..size
  OBVIOUS
<1>5. QED
  BY <1>1, <1>2, <1>3, <1>4 DEF IsRing

(* insert() before position p.                                             *)
LEMMA InsertKeepsRing ==
  ASSUME NEW nx \in [Nodes -> Nodes \cup {Null}],
         NEW pv \in [Nodes -> Nodes \cup {Null}],
         NEW h, NEW size \in Nat, NEW r, IsRing(nx, pv, h, size, r),
         NEW p \in 1..size + 1, NEW n \in Nodes, \A i \in 0..size : r[i] # n
  PROVE  IsRing([nx EXCEPT ![n] = r[p], ![pv[r[p]]] = n],
                [pv EXCEPT ![n] = pv[r[p]], ![r[p]] = n],
                h, size + 1, Inserted(r, size, p, n))
<1> DEFINE r2  == Inserted(r, size, p, n)
           nx2 == [nx EXCEPT ![n] = r[p], ![pv[r[p]]] = n]
           pv2 == [pv EXCEPT ![n] = pv[r[p]], ![r[p]] = n]
<1>1. /\ r \in [0..size + 1 -> Nodes] /\ r[0] = h /\ r[size + 1] = h
      /\ \A i, j \in 0..size : r[i] = r[j] => i = j
      /\ \A i \in 0..size : nx[r[i]] = r[i + 1] /\ pv[r[i + 1]] = r[i]
  BY DEF IsRing
<1>0. \A i, j \in 1..size + 1 : r[i] = r[j] => i = j
  BY RingPositions
<1>2. p - 1 \in 0..size /\ (p - 1) + 1 = p /\ p \in 0..size + 1
  OBVIOUS
<1>3. pv[r[p]] = r[p - 1] /\ nx[r[p - 1]] = r[p]
  BY <1>1, <1>2
<1>4. /\ n # r[p - 1] /\ n # r[p] /\ r[p] \in Nodes /\ r[p - 1] \in Nodes
      /\ \A i \in 0..size + 1 : r[i] # n
  <2>1. \A i \in 0..size + 1 : i \in 0..size \/ i = size + 1
    OBVIOUS
  <2>2. r[0] # n
    OBVIOUS
  <2>3. QED
    BY <1>1, <1>2, <2>1, <2>2
<1>5. /\ nx2[n] = r[p] /\ nx2[r[p - 1]] = n
      /\ \A m \in Nodes : m # n /\ m # r[p - 1] => nx2[m] = nx[m]
      /\ pv2[n] = r[p - 1] /\ pv2[r[p]] = n
      /\ \A m \in Nodes : m # n /\ m # r[p] => pv2[m] = pv[m]
  BY <1>3, <1>4
<1>6. /\ \A i \in 0..p - 1 : r2[i] = r[i]
      /\ r2[p] = n
      /\ \A i \in p + 1..size + 2 : r2[i] = r[i - 1]
  BY DEF Inserted
<1>7. r2 \in [0..size + 2 -> Nodes]
  <2>1. ASSUME NEW i \in 0..size + 2
        PROVE  (IF i < p THEN r[i] ELSE IF i = p THEN n ELSE r[i - 1]) \in Nodes
    <3>1. CASE i < p
      <4>1. i \in 0..size + 1
        BY <3>1
      <4>2. QED
        BY <1>1, <3>1, <4>1
    <3>2. CASE i = p
      BY <3>2
    <3>3. CASE i > p
      <4>1. i - 1 \in 0..size + 1 /\ ~(i < p) /\ i # p
        BY <3>3
      <4>2. QED
        BY <1>1, <4>1
    <3>4. QED
      BY <3>1, <3>2, <3>3
  <2>2. QED
    BY <2>1 DEF Inserted
<1> HIDE DEF r2, nx2, pv2
<1>8. r2[0] = h /\ r2[size + 2] = h
  <2>1. 0 \in 0..p - 1 /\ size + 2 \in p + 1..size + 2 /\ (size + 2) - 1 = size + 1
    OBVIOUS
  <2>2. QED
    BY <1>1, <1>6, <2>1
<1>9. ASSUME NEW i \in 0..size + 1
      PROVE  nx2[r2[i]] = r2[i + 1] /\ pv2[r2[i + 1]] = r2[i]
  <2>1. CASE i < p - 1
    <3>1. /\ i \in 0..p - 1 /\ i + 1 \in 0..p - 1 /\ i \in 0..size
          /\ i + 1 \in 0..size /\ i # p - 1 /\ i + 1 # p
      BY <2>1
    <3>2. r[i] # r[p - 1] /\ r[i] \in Nodes /\ r[i + 1] \in Nodes
      BY <1>1, <1>2, <3>1
    <3>3. r[i + 1] # r[p]
      <4>1. i + 1 \in 1..size + 1
        BY <3>1
      <4>2. QED
        BY <3>1, <4>1, <1>0
    <3>4. r[i] # n /\ r[i + 1] # n
      BY <1>4, <3>1
    <3>5. QED
      BY <1>1, <1>5, <1>6, <3>1, <3>2, <3>3, <3>4
  <2>2. CASE i = p - 1
    <3>1. i \in 0..p - 1 /\ i + 1 = p
      BY <2>2
    <3>2. QED
      BY <1>5, <1>6, <2>2, <3>1
  <2>3. CASE i = p
    <3>1. i + 1 \in p + 1..size + 2 /\ (i + 1) - 1 = p
      BY <2>3
    <3>2. QED
      BY <1>5, <1>6, <2>3, <3>1
  <2>4. CASE i > p
    <3>1. /\ i \in p + 1..size + 2 /\ i + 1 \in p + 1..size + 2
          /\ i - 1 \in 0..size /\ i \in 0..size + 1 /\ (i + 1) - 1 = i
          /\ (i - 1) + 1 = i /\ i - 1 # p - 1
      BY <2>4
    <3>2. r[i - 1] # r[p - 1] /\ r[i - 1] \in Nodes /\ r[i] \in Nodes
      BY <1>1, <1>2, <3>1
    <3>3. r[i] # r[p]
      <4>1. i # p /\ i \in 1..size + 1
        BY <2>4
      <4>2. QED
        BY <4>1, <1>0
    <3>4. r[i - 1] # n /\ r[i] # n
      BY <1>4, <3>1
    <3>5. nx[r[i - 1]] = r[i] /\ pv[r[i]] = r[i - 1]
      BY <1>1, <3>1
    <3>6. r2[i] = r[i - 1] /\ r2[i + 1] = r[i]
      BY <1>6, <3>1
    <3>7. QED
      BY <1>5, <3>2, <3>3, <3>4, <3>5, <3>6
  <2>5. QED
    BY <2>1, <2>2, <2>3, <2>4
<1>10. ASSUME NEW i \in 0..size + 1, NEW j \in 0..size + 1, r2[i] = r2[j]
       PROVE  i = j
  <2>1. ASSUME NEW l \in 0..size + 1
        PROVE  \/ l < p /\ l \in 0..size /\ r2[l] = r[l]
               \/ l = p /\ r2[l] = n
               \/ l > p /\ l - 1 \in 0..size /\ r2[l] = r[l - 1]
    <3>1. l \in 0..p - 1 \/ l = p \/ l \in p + 1..size + 2
      OBVIOUS
    <3>2. l < p => l \in 0..size
      OBVIOUS
    <3>3. l > p => l - 1 \in 0..size
      OBVIOUS
    <3>4. QED
      BY <1>6, <3>1, <3>2, <3>3
  <2>2. (i < p /\ j < p) => i = j
    BY <1>1, <1>10, <2>1
  <2>3. (i > p /\ j > p) => i = j
    <3>1. i > p /\ j > p => i - 1 = j - 1
      BY <1>1, <1>10, <2>1
    <3>2. QED
      BY <3>1
  <2>4. ~(i < p /\ j > p) /\ ~(j < p /\ i > p)
    BY <1>1, <1>10, <2>1
  <2>5. (i = p <=> j = p)
    BY <1>10, <2>1
  <2>6. QED
    BY <2>2, <2>3, <2>4, <2>5
<1>11. IsRing(nx2, pv2, h, size + 1, r2)
  <2>1. (size + 1) + 1 = size + 2
    OBVIOUS
  <2>2. QED
    BY <1>7, <1>8, <1>9, <1>10, <2>1 DEF IsRing
<1>12. QED
  BY <1>11 DEF r2, nx2, pv2

(* Taking out the node at position p; what becomes of its own pointers is  *)
(* of no concern.                                                          *)
LEMMA EraseKeepsRing ==
  ASSUME NEW nx \in [Nodes -> Nodes \cup {Null}],
         NEW pv \in [Nodes -> Nodes \cup {Null}],
         NEW h, NEW size \in Nat, NEW r, IsRing(nx, pv, h, size, r),
         NEW p \in 1..size, NEW a, NEW b
  PROVE  IsRing([[nx EXCEPT ![pv[r[p]]] = nx[r[p]]] EXCEPT ![r[p]] = a],
                [[pv EXCEPT ![nx[r[p]]] = pv[r[p]]] EXCEPT ![r[p]] = b],
                h, size - 1, Removed(r, size, p))
<1> DEFINE r2  == Removed(r, size, p)
           nx2 == [[nx EXCEPT ![pv[r[p]]] = nx[r[p]]] EXCEPT ![r[p]] = a]
           pv2 == [[pv EXCEPT ![nx[r[p]]] = pv[r[p]]] EXCEPT ![r[p]] = b]
<1>1. /\ r \in [0..size + 1 -> Nodes] /\ r[0] = h /\ r[size + 1] = h
      /\ \A i, j \in 0..size : r[i] = r[j] => i = j
      /\ \A i \in 0..size : nx[r[i]] = r[i + 1] /\ pv[r[i + 1]] = r[i]
  BY DEF IsRing
<1>0. \A i, j \in 1..size + 1 : r[i] = r[j] => i = j
  BY RingPositions
<1>2. p - 1 \in 0..size /\ (p - 1) + 1 = p /\ p \in 0..size /\ p + 1 \in 1..size + 1
  OBVIOUS
<1>3. pv[r[p]] = r[p - 1] /\ nx[r[p]] = r[p + 1]
  BY <1>1, <1>2
<1>4. /\ r[p] \in Nodes /\ r[p - 1] \in Nodes /\ r[p + 1] \in Nodes
      /\ r[p] # r[p - 1] /\ r[p] # r[p + 1]
  <2>1. /\ p # p + 1 /\ p \in 1..size + 1 /\ p + 1 \in 1..size + 1
        /\ p - 1 # p /\ p - 1 \in 0..size + 1
    OBVIOUS
  <2>2. r[p] # r[p + 1]
    BY <2>1, <1>0
  <2>3. QED
    BY <1>1, <1>2, <2>1, <2>2
<1>5. /\ nx2[r[p - 1]] = r[p + 1]
      /\ \A m \in Nodes : m # r[p] /\ m # r[p - 1] => nx2[m] = nx[m]
      /\ pv2[r[p + 1]] = r[p - 1]
      /\ \A m \in Nodes : m # r[p] /\ m # r[p + 1] => pv2[m] = pv[m]
  BY <1>3, <1>4
<1>6. /\ \A i \in 0..p - 1 : r2[i] = r[i]
      /\ \A i \in p..size : r2[i] = r[i + 1]
  BY DEF Removed
<1>7. r2 \in [0..size -> Nodes]
  <2>1. ASSUME NEW i \in 0..size
        PROVE  (IF i < p THEN r[i] ELSE r[i + 1]) \in Nodes
    <3>1. i \in 0..size + 1 /\ i + 1 \in 0..size + 1
      OBVIOUS
    <3>2. QED
      BY <1>1, <3>1
  <2>2. QED
    BY <2>1 DEF Removed
<1> HIDE DEF r2, nx2, pv2
<1>8. r2[0] = h /\ r2[size] = h
  <2>1. 0 \in 0..p - 1 /\ size \in p..size
    OBVIOUS
  <2>2. QED
    BY <1>1, <1>6, <2>1
<1>9. ASSUME NEW i \in 0..size - 1
      PROVE  nx2[r2[i]] = r2[i + 1] /\ pv2[r2[i + 1]] = r2[i]
  <2>1. CASE i < p - 1
    <3>1. /\ i \in 0..p - 1 /\ i + 1 \in 0..p - 1 /\ i \in 0..size
          /\ i + 1 \in 0..size /\ i # p - 1 /\ i + 1 # p /\ i # p
          /\ i + 1 \in 1..size + 1 /\ p + 1 \in 1..size + 1 /\ i + 1 # p + 1
      BY <2>1
    <3>2. r[i] # r[p - 1] /\ r[i] # r[p] /\ r[i + 1] # r[p]
          /\ r[i] \in Nodes /\ r[i + 1] \in Nodes
      BY <1>1, <1>2, <3>1
    <3>3. r[i + 1] # r[p + 1]
      BY <3>1, <1>0
    <3>4. r2[i] = r[i] /\ r2[i + 1] = r[i + 1]
      BY <1>6, <3>1
    <3>5. nx[r[i]] = r[i + 1] /\ pv[r[i + 1]] = r[i]
      BY <1>1, <3>1
    <3>6. QED
      BY <1>5, <3>2, <3>3, <3>4, <3>5
  <2>2. CASE i = p - 1
    <3>1. i \in 0..p - 1 /\ i + 1 \in p..size /\ (i + 1) + 1 = p + 1
      BY <2>2
    <3>2. QED
      BY <1>5, <1>6, <2>2, <3>1
  <2>3. CASE i > p - 1
    <3>1. /\ i \in p..size /\ i + 1 \in p..size /\ i + 1 \in 0..size
          /\ i + 1 # p /\ i + 1 # p - 1 /\ (i + 1) + 1 \in 1..size + 1
          /\ (i + 1) + 1 # p + 1 /\ (i + 1) + 1 # p
          /\ p + 1 \in 1..size + 1 /\ p \in 1..size + 1
      BY <2>3
    <3>2. r[i + 1] # r[p] /\ r[i + 1] # r[p - 1] /\ r[i + 1] \in Nodes
          /\ r[(i + 1) + 1] \in Nodes
      BY <1>1, <1>2, <3>1
    <3>3. r[(i + 1) + 1] # r[p + 1] /\ r[(i + 1) + 1] # r[p]
      BY <3>1, <1>0
    <3>4. nx[r[i + 1]] = r[(i + 1) + 1] /\ pv[r[(i + 1) + 1]] = r[i + 1]
      BY <1>1, <3>1
    <3>5. r2[i] = r[i + 1] /\ r2[i + 1] = r[(i + 1) + 1]
      BY <1>6, <3>1
    <3>6. QED
      BY <1>5, <3>2, <3>3, <3>4, <3>5
  <2>4. QED
    BY <2>1, <2>2, <2>3
<1>10. ASSUME NEW i \in 0..size - 1, NEW j \in 0..size - 1, r2[i] = r2[j]
       PROVE  i = j
  <2>1. ASSUME NEW l \in 0..size - 1
        PROVE  \/ l < p /\ l \in 0..size /\ r2[l] = r[l]
               \/ l >= p /\ l + 1 \in 0..size /\ r2[l] = r[l + 1]
    <3>1. l \in 0..p - 1 \/ l \in p..size
      OBVIOUS
    <3>2. l \in 0..size /\ l + 1 \in 0..size
      OBVIOUS
    <3>3. QED
      BY <1>6, <3>1, <3>2
  <2>2. (i < p /\ j < p) => i = j
    BY <1>1, <1>10, <2>1
  <2>3. (i >= p /\ j >= p) => i = j
    <3>1. i >= p /\ j >= p => i + 1 = j + 1
      BY <1>1, <1>10, <2>1
    <3>2. QED
      BY <3>1
  <2>4. ~(i < p /\ j >= p) /\ ~(j < p /\ i >= p)
    BY <1>1, <1>10, <2>1
  <2>5. QED
    BY <2>2, <2>3, <2>4
<1>11. IsRing(nx2, pv2, h, size - 1, r2)
  <2>1. (size - 1) + 1 = size
    OBVIOUS
  <2>2. QED
    BY <1>7, <1>8, <1>9, <1>10, <2>1 DEF IsRing
<1>12. QED
  BY <1>11 DEF r2, nx2, pv2

(* The pool gets a node, gives one away, or stays as it is.                *)
Pushed(c, m, n) == [i \in 0..m + 1 |-> IF i <= m THEN c[i] ELSE n]
Popped(c, m) == [i \in 0..m - 1 |-> c[i]]

LEMMA ChainTop ==
  ASSUME NEW nx, NEW top, NEW m \in Nat, NEW c, IsChain(nx, top, m, c)
  PROVE  /\ top = Null <=> m = 0
         /\ m # 0 => top \in Nodes /\ m \in 1..m /\ c[m] = top /\ nx[top] = c[m - 1]
<1>1. m # 0 => m \in 1..m
  OBVIOUS
<1>2. QED
  BY <1>1, ListAssumption DEF IsChain, ListAssumption

LEMMA PushKeepsChain ==
  ASSUME NEW nx, NEW top, NEW m \in Nat, NEW c, IsChain(nx, top, m, c),
         NEW n \in Nodes, NEW nx2, nx2[n] = top,
         \A i \in 1..m : c[i] # n /\ nx2[c[i]] = nx[c[i]]
  PROVE  IsChain(nx2, n, m + 1, Pushed(c, m, n))
<1> DEFINE c2 == Pushed(c, m, n)
<1>1. /\ c \in [0..m -> Nodes \cup {Null}] /\ c[0] = Null /\ c[m] = top
      /\ \A i \in 1..m : c[i] \in Nodes /\ nx[c[i]] = c[i - 1]
      /\ \A i, j \in 1..m : c[i] = c[j] => i = j
  BY DEF IsChain
<1>2. /\ \A i \in 0..m : c2[i] = c[i]
      /\ c2[m + 1] = n
  BY DEF Pushed
<1>3. c2 \in [0..m + 1 -> Nodes \cup {Null}]
  BY <1>1 DEF Pushed
<1> HIDE DEF c2
<1>4. \A i \in 1..m + 1 : (i \in 1..m /\ i \in 0..m /\ i - 1 \in 0..m) \/ i = m + 1
  OBVIOUS
<1>5. 0 \in 0..m /\ m \in 0..m /\ (m + 1) - 1 = m
  OBVIOUS
<1>6. ASSUME NEW i \in 1..m + 1
      PROVE  c2[i] \in Nodes /\ nx2[c2[i]] = c2[i - 1]
  <2>1. CASE i \in 1..m
    BY <1>1, <1>2, <1>4, <2>1
  <2>2. CASE i = m + 1
    BY <1>1, <1>2, <1>5, <2>2
  <2>3. QED
    BY <1>4, <2>1, <2>2
<1>7. ASSUME NEW i \in 1..m + 1, NEW j \in 1..m + 1, c2[i] = c2[j]
      PROVE  i = j
  BY <1>1, <1>2, <1>4, <1>7
<1>8. c2[0] = Null
  BY <1>1, <1>2, <1>5
<1>9. IsChain(nx2, n, m + 1, c2)
  BY <1>2, <1>3, <1>6, <1>7, <1>8 DEF IsChain
<1>10. QED
  BY <1>9 DEF c2

LEMMA PopKeepsChain ==
  ASSUME NEW nx, NEW top, NEW m \in Nat \ {0}, NEW c, IsChain(nx, top, m, c),
         NEW nx2, \A i \in 1..m - 1 : nx2[c[i]] = nx[c[i]]
  PROVE  /\ IsChain(nx2, nx[top], m - 1, Popped(c, m))
         /\ \A i \in 1..m - 1 : Popped(c, m)[i] = c[i] /\ c[i] # top
<1> DEFINE c2 == Popped(c, m)
<1>1. /\ c \in [0..m -> Nodes \cup {Null}] /\ c[0] = Null /\ c[m] = top
      /\ \A i \in 1..m : c[i] \in Nodes /\ nx[c[i]] = c[i - 1]
      /\ \A i, j \in 1..m : c[i] = c[j] => i = j
  BY DEF IsChain
<1>2. \A i \in 0..m - 1 : c2[i] = c[i]
  BY DEF Popped
<1>3. c2 \in [0..m - 1 -> Nodes \cup {Null}]
  BY <1>1 DEF Popped
<1> HIDE DEF c2
<1>4. \A i \in 1..m - 1 : i \in 1..m /\ i # m /\ i \in 0..m - 1 /\ i - 1 \in 0..m - 1
  OBVIOUS
<1>5. 0 \in 0..m - 1 /\ m - 1 \in 0..m - 1 /\ m \in 1..m
  OBVIOUS
<1>6. \A i \in 1..m - 1 : c2[i] = c[i] /\ c[i] # top
  BY <1>1, <1>2, <1>4, <1>5
<1>7. \A i \in 1..m - 1 : c2[i] \in Nodes /\ nx2[c2[i]] = c2[i - 1]
  BY <1>1, <1>2, <1>4
<1>8. c2[0] = Null /\ c2[m - 1] = nx[top]
  BY <1>1, <1>2, <1>5
<1>9. \A i, j \in 1..m - 1 : c2[i] = c2[j] => i = j
  BY <1>1, <1>4, <1>6
<1>10. QED
  BY <1>3, <1>6, <1>7, <1>8, <1>9 DEF IsChain, c2

LEMMA ChainStays ==
  ASSUME NEW nx, NEW top, NEW m \in Nat, NEW c, IsChain(nx, top, m, c),
         NEW nx2, \A i \in 1..m : nx2[c[i]] = nx[c[i]]
  PROVE  IsChain(nx2, top, m, c)
BY DEF IsChain

-----------------------------------------------------------------------------
(* The invariant: the ring r and the chain c of the pool have no node in   *)
(* common, and every other node is the memory's.                           *)

Types ==
  /\ next \in [Nodes -> Nodes \cup {Null}]
  /\ prev \in [Nodes -> Nodes \cup {Null}]
  /\ owner \in [Nodes -> Nodes \cup {Null}]
  /\ element \in [Nodes -> Values \cup {NoValue}]
  /\ head \in Nodes /\ list_size \in Nat /\ unused_size \in Nat
  /\ allocated \subseteq Nodes

InRing(r, size, n) == \E i \in 0..size : r[i] = n
InChain(c, m, n) == \E i \in 1..m : c[i] = n

Sound(r, c) ==
  /\ IsRing(next, prev, head, list_size, r)
  /\ IsChain(next, unused, unused_size, c)
  /\ \A n \in Nodes : ~ (InRing(r, list_size, n) /\ InChain(c, unused_size, n))
  /\ \A n \in Nodes : n \in allocated <=>
                          InRing(r, list_size, n) \/ InChain(c, unused_size, n)
  /\ \A n \in Nodes : InRing(r, list_size, n) => owner[n] = head

(* Where the ring begins and ends.                                         *)
LEMMA RingEnds ==
  ASSUME Types, NEW r, NEW c, Sound(r, c)
  PROVE  /\ head = r[0] /\ next[head] = r[1] /\ prev[head] = r[list_size]
         /\ next[prev[head]] = r[list_size + 1]
         /\ InRing(r, list_size, head)
         /\ \A p \in 1..list_size + 1 : prev[r[p]] = r[p - 1]
                                      /\ p - 1 \in 0..list_size
         /\ \A p \in 0..list_size + 1 : r[p] \in Nodes /\ InRing(r, list_size, r[p])
<1>1. /\ r \in [0..list_size + 1 -> Nodes] /\ r[0] = head
      /\ r[list_size + 1] = head
      /\ \A i \in 0..list_size : next[r[i]] = r[i + 1] /\ prev[r[i + 1]] = r[i]
  BY DEF Sound, IsRing
<1>2. list_size \in Nat
  BY DEF Types
<1>3. 0 \in 0..list_size /\ list_size \in 0..list_size
  BY <1>2
<1>4. \A p \in 1..list_size + 1 : p - 1 \in 0..list_size /\ (p - 1) + 1 = p
  BY <1>2
<1>5. \A p \in 0..list_size + 1 : p \in 0..list_size \/ p = list_size + 1
  BY <1>2
<1>6. \A p \in 0..list_size + 1 : r[p] \in Nodes /\ InRing(r, list_size, r[p])
  BY <1>1, <1>3, <1>5 DEF InRing
<1>7. \A p \in 1..list_size + 1 : prev[r[p]] = r[p - 1] /\ p - 1 \in 0..list_size
  BY <1>1, <1>4
<1>8. head = r[0] /\ next[head] = r[1] /\ prev[head] = r[list_size]
  BY <1>1, <1>3
<1>9. next[prev[head]] = r[list_size + 1] /\ InRing(r, list_size, head)
  BY <1>1, <1>3, <1>8 DEF InRing
<1>10. QED
  BY <1>6, <1>7, <1>8, <1>9

LEMMA PushStep ==
  ASSUME Types, NEW r, NEW c, Sound(r, c), NEW e \in Values, Push(e)
  PROVE  /\ Types'
         /\ \E n \in Nodes, p \in {1, list_size + 1} : \E r2, c2 :
              /\ Sound(r2, c2)' /\ r2 = Inserted(r, list_size, p, n)
              /\ list_size' = list_size + 1
              /\ element' = [element EXCEPT ![n] = e]
              /\ ~ InRing(r, list_size, n)
<1>1. PICK n \in Nodes : /\ createSingleNode(e, n)
                         /\ insert(next[prev[head]], n) \/ insert(next[head], n)
  BY DEF Push
<1>2. head' = head /\ list_size \in Nat /\ unused_size \in Nat
  BY DEF Push, Types
<1>3. PICK p \in {1, list_size + 1} : insert(r[p], n)
  BY <1>1, RingEnds
<1>4. /\ p \in 1..list_size + 1 /\ r[p] \in Nodes /\ prev[r[p]] = r[p - 1]
      /\ r[p - 1] \in Nodes /\ InRing(r, list_size, r[p - 1])
  <2>1. p \in 1..list_size + 1 /\ p \in 0..list_size + 1 /\ p - 1 \in 0..list_size + 1
    BY <1>2
  <2>2. QED
    BY <2>1, RingEnds
<1>5. /\ next' = [next EXCEPT ![n] = r[p], ![prev[r[p]]] = n]
      /\ prev' = [prev EXCEPT ![n] = prev[r[p]], ![r[p]] = n]
      /\ list_size' = list_size + 1
  BY <1>3 DEF insert
<1>6. /\ element' = [element EXCEPT ![n] = e] /\ owner' = [owner EXCEPT ![n] = head]
      /\ getSingleNode(n)
  BY <1>1 DEF createSingleNode
\* The pool gives n away, or does not know it.
<1>7. /\ ~ InRing(r, list_size, n) /\ unused_size' \in Nat
      /\ \E c2 : /\ IsChain(next', unused', unused_size', c2)
                 /\ ~ InChain(c2, unused_size', n)
                 /\ \A m \in Nodes : m # n =>
                      (InChain(c2, unused_size', m) <=> InChain(c, unused_size, m))
                 /\ \A m \in Nodes : m \in allocated' <=> m \in allocated \/ m = n
  <2>1. /\ IsChain(next, unused, unused_size, c)
        /\ \A i \in 1..unused_size : c[i] \in Nodes
    BY DEF Sound, IsChain
  <2>2. ASSUME ~ InRing(r, list_size, n), NEW i \in 1..unused_size, c[i] # n
        PROVE  next'[c[i]] = next[c[i]]
    <3>1. c[i] # r[p - 1]
      BY <1>4, <2>1 DEF Sound, InChain
    <3>2. QED
      BY <1>4, <1>5, <2>1, <2>2, <3>1 DEF Types
  <2>3. CASE pooled /\ unused # Null
    <3>1. n = unused /\ unused' = next[n] /\ unused_size' = unused_size - 1
          /\ allocated' = allocated
      BY <1>6, <2>3 DEF getSingleNode
    <3>2. unused_size \in Nat \ {0} /\ unused_size \in 1..unused_size
          /\ c[unused_size] = n
      BY <1>2, <2>1, <2>3, <3>1, ChainTop
    <3>3. InChain(c, unused_size, n) /\ ~ InRing(r, list_size, n) /\ n \in allocated
      BY <3>2 DEF Sound, InChain
    <3> DEFINE c2 == Popped(c, unused_size)
    <3>4. \A i \in 1..unused_size - 1 : i \in 1..unused_size /\ i # unused_size
      BY <3>2
    <3>5. \A i \in 1..unused_size - 1 : c[i] # n
      BY <2>1, <3>2, <3>4 DEF IsChain
    <3>6. \A i \in 1..unused_size - 1 : next'[c[i]] = next[c[i]]
      BY <2>2, <3>3, <3>4, <3>5
    <3>7. /\ IsChain(next', next[unused], unused_size - 1, c2)
          /\ \A i \in 1..unused_size - 1 : c2[i] = c[i]
      BY <2>1, <3>2, <3>6, PopKeepsChain
    <3> HIDE DEF c2
    <3>8. ~ InChain(c2, unused_size', n)
      BY <3>1, <3>5, <3>7 DEF InChain
    <3>9. \A i \in 1..unused_size : i = unused_size \/ i \in 1..unused_size - 1
      BY <3>2
    <3>10. ASSUME NEW m \in Nodes, m # n
           PROVE  InChain(c2, unused_size', m) <=> InChain(c, unused_size, m)
      BY <3>1, <3>2, <3>4, <3>7, <3>9, <3>10 DEF InChain
    <3>11. QED
      BY <3>1, <3>2, <3>3, <3>7, <3>8, <3>10
  <2>4. CASE ~ (pooled /\ unused # Null)
    <3>1. /\ n \notin allocated /\ allocated' = allocated \cup {n}
          /\ unused' = unused /\ unused_size' = unused_size
      BY <1>6, <2>4 DEF getSingleNode
    <3>2. ~ InRing(r, list_size, n) /\ ~ InChain(c, unused_size, n)
      BY <3>1 DEF Sound
    <3>3. \A i \in 1..unused_size : next'[c[i]] = next[c[i]]
      BY <2>2, <3>2 DEF InChain
    <3>4. IsChain(next', unused', unused_size', c)
      BY <1>2, <2>1, <3>1, <3>3, ChainStays
    <3>5. QED
      BY <1>2, <3>1, <3>2, <3>4
  <2>5. QED
    BY <2>3, <2>4
<1>8. PICK c2 : /\ IsChain(next', unused', unused_size', c2)
                /\ ~ InChain(c2, unused_size', n)
                /\ \A m \in Nodes : m # n =>
                     (InChain(c2, unused_size', m) <=> InChain(c, unused_size, m))
                /\ \A m \in Nodes : m \in allocated' <=> m \in allocated \/ m = n
  BY <1>7
<1>0. PICK r2 : r2 = Inserted(r, list_size, p, n)
  OBVIOUS
<1>9. IsRing(next', prev', head', list_size', r2)
  <2>1. \A i \in 0..list_size : r[i] # n
    BY <1>7 DEF InRing
  <2>2. IsRing(next, prev, head, list_size, r)
        /\ next \in [Nodes -> Nodes \cup {Null}] /\ prev \in [Nodes -> Nodes \cup {Null}]
    BY DEF Sound, Types
  <2>3. QED
    BY <1>0, <1>2, <1>4, <1>5, <2>1, <2>2, InsertKeepsRing
<1>10. ASSUME NEW m \in Nodes
       PROVE  InRing(r2, list_size', m) <=> InRing(r, list_size, m) \/ m = n
  <2>1. /\ \A i \in 0..list_size + 2 :
             r2[i] = IF i < p THEN r[i] ELSE IF i = p THEN n ELSE r[i - 1]
    BY <1>0 DEF Inserted
  <2>2. ASSUME NEW i \in 0..list_size PROVE \E j \in 0..list_size + 1 : r2[j] = r[i]
    <3>1. CASE i < p
      BY <1>2, <2>1, <3>1
    <3>2. CASE i >= p
      <4>1. i + 1 \in 0..list_size + 1 /\ i + 1 > p /\ (i + 1) - 1 = i
            /\ i + 1 \in 0..list_size + 2
        BY <1>2, <1>4, <3>2
      <4>2. r2[i + 1] = r[i]
        BY <1>4, <2>1, <4>1
      <4>3. QED
        BY <4>1, <4>2
    <3>3. QED
      BY <1>4, <3>1, <3>2
  <2>3. ASSUME NEW j \in 0..list_size + 1
        PROVE  r2[j] = n \/ \E i \in 0..list_size : r2[j] = r[i]
    <3>1. CASE j < p
      <4>1. j \in 0..list_size /\ j \in 0..list_size + 2
        BY <1>2, <1>4, <3>1
      <4>2. QED
        BY <2>1, <3>1, <4>1
    <3>2. CASE j = p
      BY <1>2, <2>1, <3>2
    <3>3. CASE j > p
      <4>1. j - 1 \in 0..list_size /\ j \in 0..list_size + 2 /\ ~(j < p) /\ j # p
        BY <1>2, <1>4, <3>3
      <4>2. r2[j] = r[j - 1]
        BY <2>1, <4>1
      <4>3. QED
        BY <4>1, <4>2
    <3>4. QED
      BY <1>2, <1>4, <3>1, <3>2, <3>3
  <2>4. r2[p] = n /\ p \in 0..list_size + 1
    BY <1>2, <1>4, <2>1
  <2>5. QED
    BY <1>5, <2>2, <2>3, <2>4 DEF InRing
<1>11. Types'
  <2>1. allocated' \subseteq Nodes
    BY <1>6 DEF getSingleNode, Types
  <2>2. QED
    BY <1>2, <1>4, <1>5, <1>6, <1>7, <2>1 DEF Types
<1>12. Sound(r2, c2)'
  <2>1. \A m \in Nodes :
          ~ (InRing(r2, list_size', m) /\ InChain(c2, unused_size', m))
    BY <1>7, <1>8, <1>10 DEF Sound
  <2>2. \A m \in Nodes : m \in allocated' <=>
          InRing(r2, list_size', m) \/ InChain(c2, unused_size', m)
    BY <1>8, <1>10 DEF Sound
  <2>3. \A m \in Nodes : InRing(r2, list_size', m) => owner'[m] = head'
    BY <1>2, <1>6, <1>10 DEF Sound, Types
  <2>4. QED
    BY <1>8, <1>9, <2>1, <2>2, <2>3 DEF Sound, InRing, InChain
<1>13. QED
  BY <1>0, <1>5, <1>6, <1>7, <1>11, <1>12

(* putSingleNode() of a node that is not in the pool: it goes there or to  *)
(* the memory.                                                             *)
LEMMA PutNode ==
  ASSUME Types, NEW c, IsChain(next, unused, unused_size, c),
         NEW n \in Nodes, n \in allocated, ~ InChain(c, unused_size, n),
         putSingleNode(n), next'[n] = IF unused' = n THEN unused ELSE Null,
         \A i \in 1..unused_size : next'[c[i]] = next[c[i]]
  PROVE  /\ unused_size' \in Nat /\ allocated' \subseteq allocated
         /\ \A m \in Nodes : m # n => (m \in allocated' <=> m \in allocated)
         /\ \E c2 : /\ IsChain(next', unused', unused_size', c2)
                    /\ \A m \in Nodes : m # n =>
                         (InChain(c2, unused_size', m) <=> InChain(c, unused_size, m))
                    /\ InChain(c2, unused_size', n) <=> n \in allocated'
<1>1. unused_size \in Nat
  BY DEF Types
<1>2. unused # n
  <2>1. unused = Null \/ (unused_size \in 1..unused_size /\ c[unused_size] = unused)
    BY <1>1 DEF IsChain
  <2>2. Null # n
    BY ListAssumption DEF ListAssumption
  <2>3. QED
    BY <2>1, <2>2 DEF InChain
<1>3. CASE pooled /\ unused_size <= MaxUnused
  <2>1. unused' = n /\ unused_size' = unused_size + 1 /\ allocated' = allocated
    BY <1>3 DEF putSingleNode
  <2>2. PICK c2 : c2 = Pushed(c, unused_size, n)
    OBVIOUS
  <2>3. IsChain(next', unused', unused_size', c2)
    BY <1>1, <2>1, <2>2, PushKeepsChain DEF InChain
  <2>4. /\ \A i \in 1..unused_size : c2[i] = c[i] /\ i \in 1..unused_size + 1
        /\ c2[unused_size + 1] = n /\ unused_size + 1 \in 1..unused_size + 1
        /\ \A i \in 1..unused_size + 1 : i \in 1..unused_size \/ i = unused_size + 1
    BY <1>1, <2>2 DEF Pushed
  <2>5. QED
    BY <1>1, <2>1, <2>3, <2>4 DEF InChain
<1>4. CASE ~ (pooled /\ unused_size <= MaxUnused)
  <2>1. unused' = unused /\ unused_size' = unused_size /\ allocated' = allocated \ {n}
    BY <1>4 DEF putSingleNode
  <2>2. IsChain(next', unused', unused_size', c)
    BY <1>1, <2>1, ChainStays
  <2>3. QED
    BY <1>1, <2>1, <2>2
<1>5. QED
  BY <1>3, <1>4

LEMMA EraseStep ==
  ASSUME Types, NEW r, NEW c, Sound(r, c), NEW p \in 1..list_size, erase(r[p]),
         head' = head
  PROVE  /\ Types'
         /\ \E r2, c2 : /\ Sound(r2, c2)' /\ r2 = Removed(r, list_size, p)
                        /\ list_size' = list_size - 1 /\ element' = element
<1> DEFINE n == r[p]
<1>1. list_size \in Nat /\ unused_size \in Nat /\ list_size' = list_size - 1
  BY DEF Types, erase
<1>2. /\ p - 1 \in 0..list_size /\ p + 1 \in 1..list_size + 1 /\ p \in 0..list_size
      /\ p \in 1..list_size + 1 /\ (p + 1) - 1 = p /\ p \in 0..list_size + 1
      /\ p + 1 \in 0..list_size + 1 /\ p - 1 \in 0..list_size + 1
  BY <1>1
<1>3. /\ r \in [0..list_size + 1 -> Nodes] /\ IsRing(next, prev, head, list_size, r)
      /\ IsChain(next, unused, unused_size, c)
      /\ \A i, j \in 0..list_size : r[i] = r[j] => i = j
      /\ \A i \in 0..list_size : next[r[i]] = r[i + 1] /\ prev[r[i + 1]] = r[i]
  BY DEF Sound, IsRing
<1>4. n \in Nodes /\ next[n] = r[p + 1] /\ prev[n] = r[p - 1]
      /\ r[p + 1] \in Nodes /\ r[p - 1] \in Nodes
  <2>1. prev[n] = r[p - 1]
    BY <1>2, RingEnds
  <2>2. QED
    BY <1>2, <1>3, <2>1
<1>5. /\ InRing(r, list_size, n) /\ InRing(r, list_size, r[p + 1])
      /\ InRing(r, list_size, r[p - 1]) /\ n \in allocated
      /\ ~ InChain(c, unused_size, n)
  BY <1>2, <1>4, RingEnds DEF Sound
<1>6. /\ putSingleNode(n) /\ element' = element
      /\ next' = [[next EXCEPT ![prev[n]] = next[n]] EXCEPT
                     ![n] = IF unused' = n THEN unused ELSE Null]
      /\ prev' = [[prev EXCEPT ![next[n]] = prev[n]] EXCEPT ![n] = Null]
      /\ owner' = [owner EXCEPT ![n] = Null]
  BY DEF erase, deleteSingleNode
<1>7. unused \in Nodes \cup {Null}
  BY <1>1, <1>3, ChainTop
<1>8. /\ next' \in [Nodes -> Nodes \cup {Null}] /\ prev' \in [Nodes -> Nodes \cup {Null}]
      /\ owner' \in [Nodes -> Nodes \cup {Null}]
  BY <1>4, <1>6, <1>7 DEF Types
<1>9. /\ next'[n] = IF unused' = n THEN unused ELSE Null
      /\ \A i \in 1..unused_size : next'[c[i]] = next[c[i]]
  <2>1. ASSUME NEW i \in 1..unused_size PROVE next'[c[i]] = next[c[i]]
    <3>1. c[i] \in Nodes /\ InChain(c, unused_size, c[i])
      BY <1>3 DEF IsChain, InChain
    <3>2. c[i] # n /\ c[i] # r[p - 1]
      BY <1>5, <3>1 DEF Sound
    <3>3. QED
      BY <1>4, <1>6, <3>1, <3>2 DEF Types
  <2>2. QED
    BY <1>4, <1>6, <2>1 DEF Types
<1> HIDE DEF n
<1>10. /\ unused_size' \in Nat /\ allocated' \subseteq allocated
       /\ \A m \in Nodes : m # n => (m \in allocated' <=> m \in allocated)
       /\ \E c2 : /\ IsChain(next', unused', unused_size', c2)
                  /\ \A m \in Nodes : m # n =>
                       (InChain(c2, unused_size', m) <=> InChain(c, unused_size, m))
                  /\ InChain(c2, unused_size', n) <=> n \in allocated'
  BY <1>3, <1>4, <1>5, <1>6, <1>9, PutNode
<1>11. PICK c2 : /\ IsChain(next', unused', unused_size', c2)
                 /\ \A m \in Nodes : m # n =>
                      (InChain(c2, unused_size', m) <=> InChain(c, unused_size, m))
                 /\ InChain(c2, unused_size', n) <=> n \in allocated'
  BY <1>10
<1>12. PICK r2 : r2 = Removed(r, list_size, p)
  OBVIOUS
<1>13. IsRing(next', prev', head', list_size', r2)
  BY <1>1, <1>3, <1>6, <1>12, EraseKeepsRing DEF Types, n
<1>14. ASSUME NEW m \in Nodes
       PROVE  InRing(r2, list_size', m) <=> InRing(r, list_size, m) /\ m # n
  <2>1. \A i \in 0..list_size : r2[i] = IF i < p THEN r[i] ELSE r[i + 1]
    BY <1>12 DEF Removed
  <2>2. ASSUME NEW i \in 0..list_size, r[i] # n
        PROVE  \E j \in 0..list_size - 1 : r2[j] = r[i]
    <3>1. CASE i < p
      <4>1. i \in 0..list_size - 1 /\ i \in 0..list_size
        BY <1>1, <3>1
      <4>2. QED
        BY <2>1, <3>1, <4>1
    <3>2. CASE i >= p
      <4>1. i # p
        BY <2>2 DEF n
      <4>2. i - 1 \in 0..list_size - 1 /\ ~(i - 1 < p) /\ (i - 1) + 1 = i
            /\ i - 1 \in 0..list_size
        BY <1>1, <3>2, <4>1
      <4>3. r2[i - 1] = r[i]
        BY <2>1, <4>2
      <4>4. QED
        BY <4>2, <4>3
    <3>3. QED
      BY <1>1, <3>1, <3>2
  <2>3. ASSUME NEW j \in 0..list_size - 1
        PROVE  \E i \in 0..list_size : r2[j] = r[i] /\ r[i] # n
    <3>1. j \in 0..list_size
      BY <1>1
    <3>2. CASE j < p
      <4>1. r[j] # n
        BY <1>2, <1>3, <3>1, <3>2 DEF n
      <4>2. QED
        BY <2>1, <3>1, <3>2, <4>1
    <3>3. CASE j >= p
      <4>1. j + 1 \in 0..list_size /\ j + 1 # p /\ ~(j < p)
        BY <1>1, <3>3
      <4>2. r[j + 1] # n
        BY <1>2, <1>3, <4>1 DEF n
      <4>3. QED
        BY <2>1, <3>1, <4>1, <4>2
    <3>4. QED
      BY <1>1, <3>2, <3>3
  <2>4. QED
    BY <1>1, <2>2, <2>3 DEF InRing
<1>15. Types'
  <2>1. allocated' \subseteq Nodes /\ list_size' \in Nat
    BY <1>1, <1>10 DEF Types
  <2>2. QED
    BY <1>6, <1>8, <1>10, <2>1 DEF Types
<1>16. Sound(r2, c2)'
  <2>1. \A m \in Nodes :
          ~ (InRing(r2, list_size', m) /\ InChain(c2, unused_size', m))
    BY <1>11, <1>14 DEF Sound
  <2>2. \A m \in Nodes : m \in allocated' <=>
          InRing(r2, list_size', m) \/ InChain(c2, unused_size', m)
    BY <1>4, <1>10, <1>11, <1>14 DEF Sound
  <2>3. \A m \in Nodes : InRing(r2, list_size', m) => owner'[m] = head'
    BY <1>6, <1>14 DEF Sound, Types
  <2>4. QED
    BY <1>11, <1>13, <2>1, <2>2, <2>3 DEF Sound, InRing, InChain
<1>17. QED
  BY <1>1, <1>6, <1>12, <1>15, <1>16

(* After the head is gone: the nodes that are left are those of the pool,  *)
(* which deleteUnusedNodeList() takes from its top.                        *)
PoolLeft(m, c) ==
  /\ IsChain(next, unused, m, c)
  /\ \A n \in Nodes : n \in allocated <=> InChain(c, m, n)

LEMMA DeleteHeadStep ==
  ASSUME Types, NEW r, NEW c, Sound(r, c), list_size = 0, deleteHead
  PROVE  Types' /\ \E m \in Nat : \E c2 : PoolLeft(m, c2)'
<1>1. /\ head' = head /\ list_size' = list_size /\ element' = element
      /\ putSingleNode(head)
      /\ next' = [next EXCEPT ![head] = IF unused' = head THEN unused ELSE Null]
      /\ prev' = [prev EXCEPT ![head] = Null] /\ owner' = [owner EXCEPT ![head] = Null]
  BY DEF deleteHead, deleteSingleNode
<1>2. /\ IsChain(next, unused, unused_size, c) /\ unused_size \in Nat /\ head \in Nodes
      /\ InRing(r, list_size, head)
  BY RingEnds DEF Sound, Types
<1>3. head \in allocated /\ ~ InChain(c, unused_size, head)
  BY <1>2 DEF Sound
<1>4. next'[head] = IF unused' = head THEN unused ELSE Null
  BY <1>1, <1>2 DEF Types
<1>5. \A i \in 1..unused_size : next'[c[i]] = next[c[i]]
  BY <1>1, <1>2, <1>3 DEF Types, InChain, IsChain
<1>6. /\ unused_size' \in Nat /\ allocated' \subseteq allocated
      /\ \A m \in Nodes : m # head => (m \in allocated' <=> m \in allocated)
      /\ \E c2 : /\ IsChain(next', unused', unused_size', c2)
                 /\ \A m \in Nodes : m # head =>
                      (InChain(c2, unused_size', m) <=> InChain(c, unused_size, m))
                 /\ InChain(c2, unused_size', head) <=> head \in allocated'
  BY <1>1, <1>2, <1>3, <1>4, <1>5, PutNode
<1>7. PICK c2 : /\ IsChain(next', unused', unused_size', c2)
                /\ \A m \in Nodes : m # head =>
                     (InChain(c2, unused_size', m) <=> InChain(c, unused_size, m))
                /\ InChain(c2, unused_size', head) <=> head \in allocated'
  BY <1>6
<1>8. PICK m : m = unused_size'
  OBVIOUS
<1>9. \A n \in Nodes : InRing(r, list_size, n) => n = head
  BY RingEnds DEF InRing
<1>10. \A n \in Nodes : n \in allocated' <=> InChain(c2, m, n)
  BY <1>6, <1>7, <1>8, <1>9 DEF Sound
<1>11. PoolLeft(m, c2)'
  BY <1>7, <1>8, <1>10 DEF PoolLeft, InChain
<1>12. Types'
  <2>1. unused \in Nodes \cup {Null}
    BY <1>2, ChainTop
  <2>2. QED
    BY <1>1, <1>6, <2>1 DEF Types
<1>13. QED
  BY <1>6, <1>8, <1>11, <1>12

LEMMA DeletePoolStep ==
  ASSUME Types, NEW m \in Nat, NEW c, PoolLeft(m, c), deleteUnusedNodeList
  PROVE  /\ Types'
         /\ doing' = "delete pool" => \E m2 \in Nat : \E c2 : PoolLeft(m2, c2)'
         /\ doing' # "delete pool" => doing' = "nothing more" /\ allocated' = {}
<1>1. /\ UNCHANGED <<next, prev, owner, element, head, list_size>>
      /\ doing = "delete pool" /\ IsChain(next, unused, m, c)
  BY DEF deleteUnusedNodeList, links, PoolLeft
<1>2. CASE unused # Null
  <2>1. /\ allocated' = allocated \ {unused} /\ unused' = next[unused]
        /\ UNCHANGED <<unused_size, doing>>
    BY <1>2 DEF deleteUnusedNodeList
  <2>2. m \in Nat \ {0} /\ m \in 1..m /\ c[m] = unused
    <3>1. c[0] = Null /\ c[m] = unused
      BY <1>1 DEF IsChain
    <3>2. m # 0
      BY <1>2, <3>1
    <3>3. m \in 1..m
      BY <3>2
    <3>4. QED
      BY <3>1, <3>2, <3>3
  <2>3. PICK c2 : c2 = Popped(c, m)
    OBVIOUS
  <2>4. PICK m2 \in Nat : m2 = m - 1
    BY <2>2
  <2>5. /\ IsChain(next', next[unused], m2, c2)
        /\ \A i \in 1..m2 : c2[i] = c[i] /\ c[i] # unused
    <3>1. /\ IsChain(next', next[unused], m - 1, Popped(c, m))
          /\ \A i \in 1..m - 1 : Popped(c, m)[i] = c[i] /\ c[i] # unused
      <4>1. /\ \A i \in 1..m - 1 : next'[c[i]] = next[c[i]]
            /\ IsChain(next, unused, m, c) /\ m \in Nat \ {0}
        BY <1>1, <2>2
      <4>2. PICK nx2 : nx2 = next'
        OBVIOUS
      <4>3. /\ IsChain(nx2, next[unused], m - 1, Popped(c, m))
            /\ \A i \in 1..m - 1 : Popped(c, m)[i] = c[i] /\ c[i] # unused
        BY <4>1, <4>2, PopKeepsChain
      <4>4. QED
        BY <4>2, <4>3
    <3>2. QED
      BY <2>3, <2>4, <3>1
  <2>6. \A i \in 1..m : i \in 1..m2 \/ i = m
    BY <2>4
  <2>7. \A i \in 1..m2 : i \in 1..m
    BY <2>4
  <2>8. \A n \in Nodes : InChain(c2, m2, n) <=> InChain(c, m, n) /\ n # unused
    BY <2>2, <2>5, <2>6, <2>7 DEF InChain
  <2>9. PoolLeft(m2, c2)'
    BY <2>1, <2>5, <2>8 DEF PoolLeft, InChain
  <2>10. QED
    BY <1>1, <2>1, <2>9 DEF Types
<1>3. CASE unused = Null
  <2>1. /\ unused_size' = 0 /\ doing' = "nothing more" /\ allocated' = allocated
    BY <1>3 DEF deleteUnusedNodeList
  <2>2. m = 0
    BY <1>1, <1>3, ChainTop
  <2>3. allocated = {}
    BY <2>2 DEF PoolLeft, InChain, Types
  <2>4. QED
    BY <1>1, <2>1, <2>3 DEF Types
<1>4. QED
  BY <1>2, <1>3

ListInv ==
  /\ Types
  /\ Alive => \E r, c : Sound(r, c)
  /\ doing \in {"delete head", "delete pool", "nothing more"} => list_size = 0
  /\ doing = "delete pool" => \E m \in Nat : \E c : PoolLeft(m, c)
  /\ doing = "nothing more" => allocated = {}

(* The constructor makes an empty ring and a full pool.                    *)
LEMMA InitSound == Init => Types /\ \E r, c : Sound(r, c)
<1> SUFFICES ASSUME Init PROVE Types /\ \E r, c : Sound(r, c)
  OBVIOUS
<1>1. MaxUnused \in Nat \ {0}
  BY ListAssumption DEF ListAssumption
<1>2. PICK pool \in [1..MaxUnused -> Nodes], h \in Nodes :
        /\ \A i, j \in 1..MaxUnused : i # j => pool[i] # pool[j]
        /\ unused_size = IF pooled THEN MaxUnused - 1 ELSE 0
        /\ unused = IF unused_size = 0 THEN Null ELSE pool[unused_size]
        /\ pooled => h = pool[MaxUnused]
        /\ allocated = {h} \cup {pool[i] : i \in 1..unused_size}
        /\ head = h
        /\ next = [n \in Nodes |->
                    IF n = h THEN h
                    ELSE IF \E i \in 2..unused_size : n = pool[i]
                    THEN pool[(CHOOSE i \in 2..unused_size : n = pool[i]) - 1]
                    ELSE Null]
        /\ prev = [n \in Nodes |-> IF n = h THEN h ELSE Null]
        /\ owner = [n \in Nodes |-> IF n = h THEN h ELSE Null]
  BY DEF Init
<1>3. element = [n \in Nodes |-> NoValue] /\ list_size = 0
  BY DEF Init
<1>4. /\ unused_size \in Nat /\ unused_size <= MaxUnused
      /\ \A i \in 1..unused_size : /\ i \in 1..MaxUnused /\ pool[i] \in Nodes
                                   /\ pool[i] # h
  <2>1. CASE pooled
    <3>1. unused_size = MaxUnused - 1 /\ MaxUnused \in 1..MaxUnused
      BY <1>1, <1>2, <2>1
    <3>2. \A i \in 1..unused_size : i \in 1..MaxUnused /\ i # MaxUnused
      BY <1>1, <3>1
    <3>3. QED
      BY <1>1, <1>2, <2>1, <3>1, <3>2
  <2>2. CASE ~ pooled
    BY <1>1, <1>2, <2>2
  <2>3. QED
    BY <2>1, <2>2
<1>5. ASSUME NEW i \in 1..unused_size
      PROVE  next[pool[i]] = IF i = 1 THEN Null ELSE pool[i - 1]
  <2>1. next[pool[i]] = IF \E j \in 2..unused_size : pool[i] = pool[j]
                        THEN pool[(CHOOSE j \in 2..unused_size : pool[i] = pool[j]) - 1]
                        ELSE Null
    BY <1>2, <1>4
  <2>2. \A j \in 2..unused_size : pool[i] = pool[j] => i = j
    <3>1. \A j \in 2..unused_size : j \in 1..MaxUnused
      BY <1>1, <1>4
    <3>2. QED
      BY <1>2, <1>4, <3>1
  <2>3. CASE i = 1
    BY <2>1, <2>2, <2>3
  <2>4. CASE i # 1
    <3>1. i \in 2..unused_size
      BY <1>4, <2>4
    <3>2. (CHOOSE j \in 2..unused_size : pool[i] = pool[j]) = i
      BY <2>2, <3>1
    <3>3. QED
      BY <2>1, <2>4, <3>1, <3>2
  <2>5. QED
    BY <2>3, <2>4
<1>6. Types
  <2>1. ASSUME NEW n \in Nodes PROVE next[n] \in Nodes \cup {Null}
    <3>1. CASE n # h /\ \E i \in 2..unused_size : n = pool[i]
      <4>1. PICK i \in 2..unused_size : n = pool[i]
        BY <3>1
      <4>2. i \in 1..unused_size /\ i # 1 /\ i - 1 \in 1..unused_size
        BY <1>4, <4>1
      <4>3. next[n] = pool[i - 1] /\ pool[i - 1] \in Nodes
        BY <1>4, <1>5, <4>1, <4>2
      <4>4. QED
        BY <4>3
    <3>2. CASE ~ (n # h /\ \E i \in 2..unused_size : n = pool[i])
      BY <1>2, <3>2
    <3>3. QED
      BY <3>1, <3>2
  <2>2. next = [n \in Nodes |-> next[n]]
    BY <1>2
  <2>3. next \in [Nodes -> Nodes \cup {Null}]
    BY <2>1, <2>2
  <2>4. allocated \subseteq Nodes
    BY <1>2, <1>4
  <2>5. QED
    BY <1>2, <1>3, <1>4, <2>3, <2>4 DEF Types
<1> DEFINE r == [i \in 0..1 |-> h]
           c == [i \in 0..unused_size |-> IF i = 0 THEN Null ELSE pool[i]]
<1>7. IsRing(next, prev, head, list_size, r)
  BY <1>2, <1>3 DEF IsRing
<1>8. IsChain(next, unused, unused_size, c)
  <2>1. c \in [0..unused_size -> Nodes \cup {Null}] /\ c[0] = Null
    <3>1. \A i \in 0..unused_size : i # 0 => i \in 1..unused_size
      BY <1>4
    <3>2. QED
      BY <1>4, <3>1
  <2>2. c[unused_size] = unused
    BY <1>2, <1>4
  <2>3. \A i \in 1..unused_size : i \in 0..unused_size /\ c[i] = pool[i]
    BY <1>4
  <2>4. ASSUME NEW i \in 1..unused_size
        PROVE  c[i] \in Nodes /\ next[c[i]] = c[i - 1]
    <3>1. CASE i = 1
      BY <1>4, <1>5, <2>1, <2>3, <3>1
    <3>2. CASE i # 1
      <4>1. i - 1 \in 1..unused_size
        BY <1>4, <3>2
      <4>2. QED
        BY <1>4, <1>5, <2>3, <3>2, <4>1
    <3>3. QED
      BY <3>1, <3>2
  <2>5. \A i, j \in 1..unused_size : c[i] = c[j] => i = j
    BY <1>2, <1>4, <2>3
  <2> HIDE DEF c
  <2>6. QED
    BY <2>1, <2>2, <2>4, <2>5 DEF IsChain
<1>9. \A i \in 1..unused_size : c[i] = pool[i]
  BY <1>4
<1>10. \A n \in Nodes : InRing(r, list_size, n) <=> n = h
  BY <1>3 DEF InRing
<1> HIDE DEF r, c
<1>11. \A n \in Nodes : InChain(c, unused_size, n) <=>
                         \E i \in 1..unused_size : n = pool[i]
  BY <1>9 DEF InChain
<1>12. Sound(r, c)
  BY <1>2, <1>4, <1>7, <1>8, <1>10, <1>11 DEF Sound
<1>13. QED
  BY <1>6, <1>12

(* Steps that leave the nodes alone.                                       *)
LEMMA SoundStays ==
  ASSUME UNCHANGED <<next, prev, owner, element, allocated, unused, unused_size,
                     head, list_size>>
  PROVE  /\ Types => Types'
         /\ \A r, c : Sound(r, c) => Sound(r, c)'
BY DEF Types, Sound, InRing, InChain

(* pop_front(), pop_back() and the loop of deleteList() take the node at   *)
(* an end.                                                                 *)
LEMMA EraseEnds ==
  ASSUME Types, NEW r, NEW c, Sound(r, c), erase(next[head]) \/ erase(prev[head])
  PROVE  /\ 1 \in 1..list_size /\ list_size \in 1..list_size /\ list_size > 0
         /\ erase(next[head]) => erase(r[1])
         /\ erase(prev[head]) => erase(r[list_size])
<1>1. list_size > 0 /\ list_size \in Nat
  BY DEF erase, Types
<1>2. QED
  BY <1>1, RingEnds

LEMMA ListStep ==
  ASSUME ListInv, [Next]_vars
  PROVE  ListInv'
<1>0. Types /\ (doing = "delete head" => list_size = 0)
  BY DEF ListInv
<1>10. list_size \in Nat
  BY <1>0 DEF Types
<1>1. ASSUME UNCHANGED <<next, prev, owner, element, allocated, unused, unused_size,
                         head, list_size>>,
             \/ doing' = doing
             \/ doing' \in {"nothing", "clear", "destroy", "delete head"} /\ Alive
                /\ (doing' = "delete head" => list_size = 0)
      PROVE  ListInv'
  <2>1. Types'
    BY <1>0, <1>1, SoundStays
  <2>2. Alive' => \E r, c : Sound(r, c)'
    BY <1>1, SoundStays DEF ListInv, Alive
  <2>3. \A m, c : PoolLeft(m, c) => PoolLeft(m, c)'
    BY <1>1 DEF PoolLeft, InChain
  <2>4. QED
    BY <1>1, <2>1, <2>2, <2>3 DEF ListInv, Alive
<1>2. ASSUME NEW e \in Values, Push(e) PROVE ListInv'
  <2>1. doing = "nothing" /\ doing' = doing
    BY <1>2 DEF Push
  <2>2. PICK r, c : Sound(r, c)
    BY <2>1 DEF ListInv, Alive
  <2>3. Types' /\ \E r2, c2 : Sound(r2, c2)'
    BY <1>0, <1>2, <2>2, PushStep
  <2>4. QED
    BY <2>1, <2>3 DEF ListInv, Alive
<1>3. ASSUME erase(next[head]) \/ erase(prev[head]), head' = head, doing' = doing,
             Alive
      PROVE  ListInv'
  <2>1. PICK r, c : Sound(r, c)
    BY <1>3 DEF ListInv
  <2>2. PICK p \in 1..list_size : erase(r[p])
    BY <1>0, <1>3, <2>1, EraseEnds
  <2>3. Types' /\ \E r2, c2 : Sound(r2, c2)'
    BY <1>0, <1>3, <2>1, <2>2, EraseStep
  <2>4. list_size # 0
    BY <1>10, <2>2
  <2>5. QED
    BY <1>0, <1>3, <2>3, <2>4 DEF ListInv, Alive
<1>4. CASE Pop
  BY <1>3, <1>4 DEF Pop, Alive
<1>5. CASE Read \/ setMaxSize \/ Begin \/ UNCHANGED vars
  BY <1>1, <1>5 DEF Read, setMaxSize, Begin, vars, heap, links, Alive
<1>6. CASE deleteList
  <2>1. CASE list_size > 0
    BY <1>3, <1>6, <2>1 DEF deleteList, Alive
  <2>2. CASE ~ (list_size > 0)
    <3>1. list_size = 0
      BY <1>10, <2>2
    <3>2. QED
      BY <1>1, <1>6, <2>2, <3>1 DEF deleteList, heap, links, Alive
  <2>3. QED
    BY <2>1, <2>2
<1>7. CASE deleteHead
  <2>1. doing = "delete head" /\ doing' = "delete pool" /\ list_size' = list_size
    BY <1>7 DEF deleteHead
  <2>2. PICK r, c : Sound(r, c)
    BY <2>1 DEF ListInv, Alive
  <2>3. Types' /\ \E m \in Nat : \E c2 : PoolLeft(m, c2)'
    BY <1>0, <1>7, <2>1, <2>2, DeleteHeadStep
  <2>4. QED
    BY <1>0, <2>1, <2>3 DEF ListInv, Alive
<1>8. CASE deleteUnusedNodeList
  <2>1. doing = "delete pool" /\ list_size' = list_size
    BY <1>8 DEF deleteUnusedNodeList
  <2>0. PICK m \in Nat : \E c : PoolLeft(m, c)
    BY <2>1 DEF ListInv
  <2>2. PICK c : PoolLeft(m, c)
    BY <2>0
  <2>3. /\ Types'
        /\ doing' = "delete pool" => \E m2 \in Nat : \E c2 : PoolLeft(m2, c2)'
        /\ doing' # "delete pool" => doing' = "nothing more" /\ allocated' = {}
    BY <1>0, <1>8, <2>2, DeletePoolStep
  <2>4. QED
    BY <2>1, <2>3 DEF ListInv, Alive
<1>9. QED
  BY <1>2, <1>4, <1>5, <1>6, <1>7, <1>8 DEF Next

LEMMA ListKept == Spec => []ListInv
<1>1. Init => ListInv
  BY InitSound DEF Init, ListInv
<1>2. ListInv /\ [Next]_vars => ListInv'
  BY ListStep
<1>3. QED
  BY <1>1, <1>2, PTL DEF Spec

-----------------------------------------------------------------------------
(* Where a walk leads.                                                     *)

(* Named, so that the provers match a sum instead of solving it.           *)
IsSum(l, i, k) == l = i + k

LEMMA WalkForward ==
  ASSUME NEW nx, NEW pv, NEW h, NEW size \in Nat, NEW r, IsRing(nx, pv, h, size, r),
         NEW i \in 0..size + 1, NEW k \in Nat, NEW l \in 0..size + 1, IsSum(l, i, k)
  PROVE  Walk(nx, r[i], k) = r[l]
<1> DEFINE at == [j \in 0..k |-> r[i + j]]
<1>1. \A j \in 0..k - 1 : nx[at[j]] = at[j + 1]
  <2> SUFFICES ASSUME NEW j \in 0..k - 1 PROVE nx[at[j]] = at[j + 1]
    OBVIOUS
  <2>1. j \in 0..k /\ j + 1 \in 0..k /\ i + j \in 0..size /\ (i + j) + 1 = i + (j + 1)
    BY DEF IsSum
  <2>2. nx[r[i + j]] = r[(i + j) + 1]
    BY <2>1 DEF IsRing
  <2>3. QED
    BY <2>1, <2>2
<1>2. at[0] = r[i] /\ at[k] = r[l]
  BY DEF IsSum
<1> HIDE DEF at
<1>3. Walk(nx, at[0], k) = at[k]
  BY <1>1, WalkFollows
<1>4. QED
  BY <1>2, <1>3

LEMMA WalkBackward ==
  ASSUME NEW nx, NEW pv, NEW h, NEW size \in Nat, NEW r, IsRing(nx, pv, h, size, r),
         NEW i \in 0..size + 1, NEW k \in Nat, NEW l \in 0..size + 1, IsSum(i, l, k)
  PROVE  Walk(pv, r[i], k) = r[l]
<1> DEFINE at == [j \in 0..k |-> r[i - j]]
<1>1. \A j \in 0..k - 1 : pv[at[j]] = at[j + 1]
  <2> SUFFICES ASSUME NEW j \in 0..k - 1 PROVE pv[at[j]] = at[j + 1]
    OBVIOUS
  <2>1. /\ j \in 0..k /\ j + 1 \in 0..k /\ i - (j + 1) \in 0..size
        /\ (i - (j + 1)) + 1 = i - j
    BY DEF IsSum
  <2>2. pv[r[(i - (j + 1)) + 1]] = r[i - (j + 1)]
    BY <2>1 DEF IsRing
  <2>3. QED
    BY <2>1, <2>2
<1>2. at[0] = r[i] /\ at[k] = r[l]
  BY DEF IsSum
<1> HIDE DEF at
<1>3. Walk(pv, at[0], k) = at[k]
  BY <1>1, WalkFollows
<1>4. QED
  BY <1>2, <1>3

LEMMA WalkDown ==
  ASSUME NEW nx, NEW top, NEW m \in Nat, NEW c, IsChain(nx, top, m, c),
         NEW k \in 0..m
  PROVE  Walk(nx, top, k) = c[m - k]
<1> DEFINE at == [j \in 0..k |-> c[m - j]]
<1>1. \A j \in 0..k - 1 : nx[at[j]] = at[j + 1]
  <2> SUFFICES ASSUME NEW j \in 0..k - 1 PROVE nx[at[j]] = at[j + 1]
    OBVIOUS
  <2>1. /\ j \in 0..k /\ j + 1 \in 0..k /\ m - j \in 1..m
        /\ (m - j) - 1 = m - (j + 1)
    OBVIOUS
  <2>2. nx[c[m - j]] = c[(m - j) - 1]
    BY <2>1 DEF IsChain
  <2>3. QED
    BY <2>1, <2>2
<1>2. at[0] = c[m] /\ at[k] = c[m - k] /\ c[m] = top /\ k \in Nat
  BY DEF IsChain
<1> HIDE DEF at
<1>3. Walk(nx, at[0], k) = at[k]
  BY <1>1, <1>2, WalkFollows
<1>4. QED
  BY <1>2, <1>3

(* The elements are in the order of the ring.                              *)
LEMMA RingOrder ==
  ASSUME NEW nx, NEW pv, NEW h, NEW size \in Nat, NEW r, IsRing(nx, pv, h, size, r),
         NEW i \in 1..size
  PROVE  Walk(nx, nx[h], i - 1) = r[i]
<1>1. nx[h] = r[1]
  BY DEF IsRing
<1>2. PICK k \in Nat : k = i - 1
  OBVIOUS
<1>3. 1 \in 0..size + 1 /\ i \in 0..size + 1 /\ IsSum(i, 1, k)
  BY <1>2 DEF IsSum
<1>4. Walk(nx, r[1], k) = r[i]
  BY <1>3, WalkForward
<1>5. QED
  BY <1>1, <1>2, <1>4

-----------------------------------------------------------------------------
(* The pointers are one ring of as many distinct nodes as list_size says,  *)
(* the same in both directions, whatever is pushed, popped and kept in the *)
(* pool.                                                                   *)
THEOREM RingIntactAlways == Spec => []RingIntact
<1>1. ASSUME ListInv, Alive PROVE \E s \in [1..list_size -> Nodes] : Represents(s)
  <2>1. PICK r, c : Sound(r, c)
    BY <1>1 DEF ListInv
  <2>2. list_size \in Nat
    BY <1>1 DEF ListInv, Types
  <2>3. /\ r \in [0..list_size + 1 -> Nodes] /\ r[0] = head /\ r[list_size + 1] = head
        /\ \A i, j \in 0..list_size : r[i] = r[j] => i = j
        /\ \A i \in 0..list_size : next[r[i]] = r[i + 1] /\ prev[r[i + 1]] = r[i]
    BY <2>1 DEF Sound, IsRing
  <2>4. PICK s \in [1..list_size -> Nodes] : \A i \in 1..list_size : s[i] = r[i]
    <3>1. \A i \in 1..list_size : i \in 0..list_size + 1
      BY <2>2
    <3>2. [i \in 1..list_size |-> r[i]] \in [1..list_size -> Nodes]
      BY <2>3, <3>1
    <3>3. QED
      BY <3>2
  <2>5. \A i \in 0..list_size + 1 : At(s, i) = r[i]
    <3>1. \A i \in 0..list_size + 1 :
            i \in 1..list_size \/ i = 0 \/ i = list_size + 1
      BY <2>2
    <3>2. 0 \notin 1..list_size /\ list_size + 1 \notin 1..list_size
      BY <2>2
    <3>3. QED
      BY <2>3, <2>4, <3>1, <3>2 DEF At
  <2>6. \A i \in 0..list_size : i \in 0..list_size + 1 /\ i + 1 \in 0..list_size + 1
    BY <2>2
  <2>7. \A i \in 0..list_size : next[At(s, i)] = At(s, i + 1) /\ prev[At(s, i + 1)] = At(s, i)
    BY <2>3, <2>5, <2>6
  <2>8. \A i \in 0..list_size : /\ At(s, i) \in allocated /\ owner[At(s, i)] = head
                                /\ i # 0 => At(s, i) # head
    <3>1. ASSUME NEW i \in 0..list_size
          PROVE  r[i] \in allocated /\ owner[r[i]] = head /\ (i # 0 => r[i] # head)
      <4>1. r[i] \in Nodes /\ InRing(r, list_size, r[i])
        BY <2>3, <2>6 DEF InRing
      <4>2. 0 \in 0..list_size
        BY <2>2
      <4>3. QED
        BY <2>1, <2>3, <4>1, <4>2 DEF Sound
    <3>2. QED
      BY <2>5, <2>6, <3>1
  <2>9. \A i, j \in 1..list_size : s[i] = s[j] => i = j
    <3>1. \A i \in 1..list_size : i \in 0..list_size
      BY <2>2
    <3>2. QED
      BY <2>3, <2>4, <3>1
  <2>10. Represents(s)
    BY <2>7, <2>8, <2>9 DEF Represents
  <2>11. QED
    BY <2>10
<1>2. ListInv => RingIntact
  BY <1>1 DEF RingIntact
<1>3. QED
  BY <1>2, ListKept, PTL

(* Order is the ring without the head.                                     *)
LEMMA OrderIs ==
  ASSUME Types, NEW r, NEW c, Sound(r, c)
  PROVE  /\ Order = [i \in 1..list_size |-> r[i]]
         /\ \A i \in 1..list_size : Order[i] = r[i]
<1>1. \A i \in 1..list_size : Walk(next, next[head], i - 1) = r[i]
  <2>1. list_size \in Nat /\ IsRing(next, prev, head, list_size, r)
    BY DEF Types, Sound
  <2>2. QED
    BY <2>1, RingOrder
<1>2. QED
  BY <1>1 DEF Order

(* Pool are the nodes of the chain, all different.                         *)
LEMMA PoolIs ==
  ASSUME Types, NEW c, IsChain(next, unused, unused_size, c)
  PROVE  /\ Pool \subseteq Nodes
         /\ \A n \in Nodes : n \in Pool <=> InChain(c, unused_size, n)
         /\ Cardinality(Pool) = unused_size
         /\ Walk(next, unused, unused_size) = Null
<1>1. unused_size \in Nat
  BY DEF Types
<1>2. \A k \in 0..unused_size : Walk(next, unused, k) = c[unused_size - k]
  BY <1>1, WalkDown
<1>3. \A k \in 0..unused_size - 1 :
        k \in 0..unused_size /\ unused_size - k \in 1..unused_size
  BY <1>1
<1>4. \A i \in 1..unused_size :
        /\ unused_size - i \in 0..unused_size - 1
        /\ unused_size - (unused_size - i) = i
  BY <1>1
<1>5. /\ \A i \in 1..unused_size : c[i] \in Nodes
      /\ \A i, j \in 1..unused_size : c[i] = c[j] => i = j
      /\ c[0] = Null
  BY DEF IsChain
<1>6. Pool = {c[i] : i \in 1..unused_size}
  <2>1. Pool \subseteq {c[i] : i \in 1..unused_size}
    BY <1>2, <1>3 DEF Pool
  <2>2. ASSUME NEW i \in 1..unused_size PROVE c[i] \in Pool
    <3>1. PICK k \in 0..unused_size - 1 : unused_size - k = i
      BY <1>4
    <3>2. Walk(next, unused, k) = c[i]
      BY <1>2, <1>3, <3>1
    <3>3. QED
      BY <3>2 DEF Pool
  <2>3. QED
    BY <2>1, <2>2
<1>7. Cardinality(Pool) = unused_size
  <2> DEFINE f == [i \in 1..unused_size |-> c[i]]
  <2>0. \A i, j \in 1..unused_size : f[i] = f[j] => i = j
    BY <1>5
  <2>1. f \in Bijection(1..unused_size, Pool)
    <3>1. f \in [1..unused_size -> Pool]
      BY <1>6
    <3>2. \A n \in Pool : \E i \in 1..unused_size : f[i] = n
      BY <1>6
    <3> HIDE DEF f
    <3>3. f \in Injection(1..unused_size, Pool)
      BY <2>0, <3>1 DEF Injection, IsInjective
    <3>4. f \in Surjection(1..unused_size, Pool)
      BY <3>1, <3>2 DEF Surjection
    <3>5. QED
      BY <3>3, <3>4 DEF Bijection
  <2>2. IsFiniteSet(1..unused_size) /\ Cardinality(1..unused_size) = unused_size
    BY <1>1, FS_Interval
  <2>3. QED
    BY <2>1, <2>2, FS_Bijection DEF ExistsBijection
<1>8. Walk(next, unused, unused_size) = Null
  <2>1. unused_size \in 0..unused_size /\ unused_size - unused_size = 0
    BY <1>1
  <2>2. QED
    BY <1>2, <1>5, <2>1
<1>9. QED
  BY <1>5, <1>6, <1>7, <1>8 DEF InChain

(* A node is in the list or in the pool, never in both, and none is kept   *)
(* from the memory; the destructor leaves no node behind.                  *)
THEOREM NoNodeLostAlways == Spec => []NoNodeLost
<1>1. ASSUME ListInv, Alive
      PROVE  LET ring == {head} \cup {Order[i] : i \in 1..list_size}
             IN  /\ allocated = ring \cup Pool /\ ring \cap Pool = {}
                 /\ Cardinality(Pool) = unused_size
                 /\ Walk(next, unused, unused_size) = Null
  <2>1. PICK r, c : Sound(r, c)
    BY <1>1 DEF ListInv
  <2>2. Types
    BY <1>1 DEF ListInv
  <2>3. list_size \in Nat /\ head \in Nodes /\ allocated \subseteq Nodes
    BY <2>2 DEF Types
  <2> DEFINE ring == {head} \cup {Order[i] : i \in 1..list_size}
  <2>4. /\ \A i \in 1..list_size : Order[i] = r[i]
        /\ r \in [0..list_size + 1 -> Nodes] /\ r[0] = head
    BY <2>1, <2>2, OrderIs DEF Sound, IsRing
  <2>5. /\ \A i \in 0..list_size : i = 0 \/ i \in 1..list_size
        /\ 0 \in 0..list_size
        /\ \A i \in 1..list_size : i \in 0..list_size /\ i \in 0..list_size + 1
    BY <2>3
  <2>6. \A n \in Nodes : n \in ring <=> InRing(r, list_size, n)
    BY <2>4, <2>5 DEF InRing
  <2>7. ring \subseteq Nodes
    BY <2>3, <2>4, <2>5
  <2> HIDE DEF ring
  <2>8. /\ Pool \subseteq Nodes
        /\ \A n \in Nodes : n \in Pool <=> InChain(c, unused_size, n)
        /\ Cardinality(Pool) = unused_size
        /\ Walk(next, unused, unused_size) = Null
    BY <2>1, <2>2, PoolIs DEF Sound
  <2>9. allocated = ring \cup Pool /\ ring \cap Pool = {}
    BY <2>1, <2>3, <2>6, <2>7, <2>8 DEF Sound
  <2>10. QED
    BY <2>8, <2>9 DEF ring
<1>2. ListInv => NoNodeLost
  BY <1>1 DEF NoNodeLost, ListInv
<1>3. QED
  BY <1>2, ListKept, PTL

(* A node of the ring is its own owner when it is the head.                *)
LEMMA HeadsOnly ==
  ASSUME Types, NEW r, NEW c, Sound(r, c)
  PROVE  /\ AtHead(r[0]) /\ AtHead(r[list_size + 1])
         /\ \A i \in 1..list_size : ~ AtHead(r[i])
<1>1. list_size \in Nat
  BY DEF Types
<1>2. /\ r[0] = head /\ r[list_size + 1] = head
      /\ \A i, j \in 0..list_size : r[i] = r[j] => i = j
      /\ \A i \in 0..list_size : r[i] \in Nodes
      /\ \A n \in Nodes : InRing(r, list_size, n) => owner[n] = head
  BY <1>1 DEF Sound, IsRing
<1>3. 0 \in 0..list_size /\ \A i \in 1..list_size : i \in 0..list_size /\ i # 0
  BY <1>1
<1>4. \A i \in 0..list_size : owner[r[i]] = head
  BY <1>2 DEF InRing
<1>5. QED
  BY <1>2, <1>3, <1>4 DEF AtHead

(* From every position an iterator gets where arithmetic on the positions  *)
(* says, and the process ends exactly when there is no element there.      *)
THEOREM IteratorsCountAlways == Spec => []IteratorsCount
<1>1. ASSUME ListInv, Alive, NEW i \in 1..list_size + 1, NEW k \in 0..MaxOffset
      PROVE  LET Sends(ok, j) == IF ok THEN At(Order, j) ELSE Null
             IN /\ Plus(At(Order, i), k) = Sends(i + k <= list_size, i + k)
                /\ PlusAssign(At(Order, i), k) = Sends(i + k <= list_size + 1, i + k)
                /\ Minus(At(Order, i), k) = Sends(i - k \in 1..list_size, i - k)
                /\ MinusAssign(At(Order, i), k) =
                     Sends(k = 0 \/ (i <= list_size /\ i - k > 0), i - k)
  <2>1. PICK r, c : Sound(r, c)
    BY <1>1 DEF ListInv
  <2>2. Types
    BY <1>1 DEF ListInv
  <2>3. list_size \in Nat /\ k \in Nat /\ IsRing(next, prev, head, list_size, r)
    BY <1>1, <2>1, <2>2, ListAssumption DEF Types, Sound, ListAssumption
  <2>4. \A j \in 0..list_size + 1 : At(Order, j) = r[j]
    <3>1. \A j \in 1..list_size : Order[j] = r[j]
      BY <2>1, <2>2, OrderIs
    <3>2. \A j \in 0..list_size + 1 :
            j \in 1..list_size \/ j = 0 \/ j = list_size + 1
      BY <2>3
    <3>3. 0 \notin 1..list_size /\ list_size + 1 \notin 1..list_size
      BY <2>3
    <3>4. r[0] = head /\ r[list_size + 1] = head
      BY <2>3 DEF IsRing
    <3>5. QED
      BY <3>1, <3>2, <3>3, <3>4 DEF At
  <2>5. i \in 0..list_size + 1 /\ At(Order, i) = r[i]
    BY <2>3, <2>4
  \* Where the walks lead, and whether that is the head.
  <2>6. ASSUME NEW j \in Nat, NEW l \in 0..list_size + 1, l = i + j
        PROVE  Walk(next, r[i], j) = r[l]
    <3>1. IsSum(l, i, j)
      BY <2>6 DEF IsSum
    <3>2. QED
      BY <2>3, <2>5, <3>1, WalkForward
  <2>7. ASSUME NEW j \in Nat, NEW l \in 0..list_size + 1, i = l + j
        PROVE  Walk(prev, r[i], j) = r[l]
    <3>1. IsSum(i, l, j)
      BY <2>7 DEF IsSum
    <3>2. QED
      BY <2>3, <2>5, <3>1, WalkBackward
  <2>8. /\ AtHead(r[0]) /\ AtHead(r[list_size + 1])
        /\ \A j \in 1..list_size : ~ AtHead(r[j])
    BY <2>1, <2>2, HeadsOnly
  <2>9. Plus(r[i], k) = IF i + k <= list_size THEN At(Order, i + k) ELSE Null
    <3>1. CASE i + k <= list_size
      <4>1. ASSUME NEW j \in 0..k PROVE ~ AtHead(Walk(next, r[i], j))
        <5>1. PICK l \in 1..list_size : l = i + j
          BY <2>3, <3>1
        <5>2. l \in 0..list_size + 1 /\ j \in Nat
          BY <2>3
        <5>3. QED
          BY <2>6, <2>8, <5>1, <5>2
      <4>2. PICK l \in 0..list_size + 1 : l = i + k
        BY <2>3, <3>1
      <4>3. Walk(next, r[i], k) = At(Order, l)
        BY <2>3, <2>4, <2>6, <4>2
      <4>4. QED
        BY <3>1, <4>1, <4>2, <4>3 DEF Plus, Sent
    <3>2. CASE i + k > list_size
      <4>1. PICK j \in 0..k : i + j = list_size + 1
        <5>1. (list_size + 1) - i \in 0..k /\ i + ((list_size + 1) - i) = list_size + 1
          BY <2>3, <3>2
        <5>2. QED
          BY <5>1
      <4>2. j \in Nat /\ list_size + 1 \in 0..list_size + 1
        BY <2>3
      <4>3. AtHead(Walk(next, r[i], j))
        BY <2>6, <2>8, <4>1, <4>2
      <4>4. ~ (i + k <= list_size)
        BY <2>3, <3>2
      <4>5. QED
        BY <4>1, <4>3, <4>4 DEF Plus, Sent
    <3>3. QED
      BY <2>3, <3>1, <3>2
  <2>10. PlusAssign(r[i], k) = IF i + k <= list_size + 1 THEN At(Order, i + k) ELSE Null
    <3>1. CASE i + k <= list_size + 1
      <4>1. ASSUME NEW j \in 0..k - 1 PROVE ~ AtHead(Walk(next, r[i], j))
        <5>1. PICK l \in 1..list_size : l = i + j
          BY <2>3, <3>1
        <5>2. l \in 0..list_size + 1 /\ j \in Nat
          BY <2>3
        <5>3. QED
          BY <2>6, <2>8, <5>1, <5>2
      <4>2. PICK l \in 0..list_size + 1 : l = i + k
        BY <2>3, <3>1
      <4>3. Walk(next, r[i], k) = At(Order, l)
        BY <2>3, <2>4, <2>6, <4>2
      <4>4. QED
        BY <3>1, <4>1, <4>2, <4>3 DEF PlusAssign, Sent
    <3>2. CASE i + k > list_size + 1
      <4>1. PICK j \in 0..k - 1 : i + j = list_size + 1
        <5>1. (list_size + 1) - i \in 0..k - 1 /\ i + ((list_size + 1) - i) = list_size + 1
          BY <2>3, <3>2
        <5>2. QED
          BY <5>1
      <4>2. j \in Nat /\ list_size + 1 \in 0..list_size + 1
        BY <2>3
      <4>3. AtHead(Walk(next, r[i], j))
        BY <2>6, <2>8, <4>1, <4>2
      <4>4. ~ (i + k <= list_size + 1)
        BY <2>3, <3>2
      <4>5. QED
        BY <4>1, <4>3, <4>4 DEF PlusAssign, Sent
    <3>3. QED
      BY <2>3, <3>1, <3>2
  <2>11. Minus(r[i], k) = IF i - k \in 1..list_size THEN At(Order, i - k) ELSE Null
    <3>1. CASE i - k \in 1..list_size
      <4>1. ASSUME NEW j \in 1..k \cup {k} PROVE ~ AtHead(Walk(prev, r[i], j))
        <5>1. PICK l \in 1..list_size : i = l + j
          <6>1. i - j \in 1..list_size /\ i = (i - j) + j
            BY <2>3, <3>1
          <6>2. QED
            BY <6>1
        <5>2. l \in 0..list_size + 1 /\ j \in Nat
          BY <2>3
        <5>3. QED
          BY <2>7, <2>8, <5>1, <5>2
      <4>2. PICK l \in 0..list_size + 1 : l = i - k /\ i = l + k
        BY <2>3, <3>1
      <4>3. Walk(prev, r[i], k) = At(Order, l)
        BY <2>3, <2>4, <2>7, <4>2
      <4>4. QED
        BY <3>1, <4>1, <4>2, <4>3 DEF Minus, Sent
    <3>2. CASE i - k \notin 1..list_size
      <4>1. PICK j \in 1..k \cup {k}, l \in {0, list_size + 1} : i = l + j
        <5>1. CASE k = 0
          <6>1. i = list_size + 1 /\ i = i + k
            BY <2>3, <3>2, <5>1
          <6>2. QED
            BY <6>1
        <5>2. CASE k # 0
          <6>1. i \in 1..k /\ i = 0 + i
            BY <2>3, <3>2, <5>2
          <6>2. QED
            BY <6>1
        <5>3. QED
          BY <5>1, <5>2
      <4>2. j \in Nat /\ l \in 0..list_size + 1
        BY <2>3
      <4>3. AtHead(Walk(prev, r[i], j))
        BY <2>7, <2>8, <4>1, <4>2
      <4>4. QED
        BY <3>2, <4>1, <4>3 DEF Minus, Sent
    <3>3. QED
      BY <3>1, <3>2
  <2>12. MinusAssign(r[i], k) = IF k = 0 \/ (i <= list_size /\ i - k > 0)
                                THEN At(Order, i - k) ELSE Null
    <3>1. CASE k = 0
      <4>1. PICK l \in 0..list_size + 1 : l = i - k /\ i = l + k
        BY <2>3, <3>1
      <4>2. Walk(prev, r[i], k) = At(Order, l)
        BY <2>3, <2>4, <2>7, <4>1
      <4>3. QED
        BY <3>1, <4>1, <4>2 DEF MinusAssign, Sent
    <3>2. CASE k # 0 /\ i <= list_size /\ i - k > 0
      <4>1. ASSUME NEW j \in 0..k PROVE ~ AtHead(Walk(prev, r[i], j))
        <5>1. PICK l \in 1..list_size : i = l + j
          <6>1. i - j \in 1..list_size /\ i = (i - j) + j
            BY <2>3, <3>2
          <6>2. QED
            BY <6>1
        <5>2. l \in 0..list_size + 1 /\ j \in Nat
          BY <2>3
        <5>3. QED
          BY <2>7, <2>8, <5>1, <5>2
      <4>2. PICK l \in 0..list_size + 1 : l = i - k /\ i = l + k
        BY <2>3, <3>2
      <4>3. Walk(prev, r[i], k) = At(Order, l)
        BY <2>3, <2>4, <2>7, <4>2
      <4>4. QED
        BY <3>2, <4>1, <4>2, <4>3 DEF MinusAssign, Sent
    <3>3. CASE k # 0 /\ ~ (i <= list_size /\ i - k > 0)
      <4>1. PICK j \in 0..k, l \in {0, list_size + 1} : i = l + j
        <5>1. CASE i = list_size + 1
          <6>1. 0 \in 0..k /\ i = i + 0
            BY <2>3
          <6>2. QED
            BY <5>1, <6>1
        <5>2. CASE i # list_size + 1
          <6>1. i \in 0..k /\ i = 0 + i
            BY <2>3, <3>3, <5>2
          <6>2. QED
            BY <6>1
        <5>3. QED
          BY <5>1, <5>2
      <4>2. j \in Nat /\ l \in 0..list_size + 1
        BY <2>3
      <4>3. AtHead(Walk(prev, r[i], j))
        BY <2>7, <2>8, <4>1, <4>2
      <4>4. QED
        BY <3>3, <4>1, <4>3 DEF MinusAssign, Sent
    <3>4. QED
      BY <3>1, <3>2, <3>3
  <2>13. QED
    BY <2>5, <2>9, <2>10, <2>11, <2>12
<1>2. ListInv => IteratorsCount
  BY <1>1 DEF IteratorsCount
<1>3. QED
  BY <1>2, ListKept, PTL

-----------------------------------------------------------------------------
(* The list as a sequence: what a new node, and a node less, make of the   *)
(* elements f of the nodes r.                                              *)

Listed(f, r, size) == [i \in 1..size |-> f[r[i]]]

(* Where push_front() and push_back() put a node.                          *)
AtAnEnd(p, size) == p = 1 \/ p = size + 1

(* The elements when e is written to the node n.                           *)
Written(f, n, e) == [f EXCEPT ![n] = e]

LEMMA ListedIsSequence ==
  ASSUME NEW S, NEW f \in [Nodes -> S], NEW size \in Nat, NEW r,
         \A i \in 1..size : r[i] \in Nodes
  PROVE  Listed(f, r, size) \in Seq(S) /\ Len(Listed(f, r, size)) = size
<1> DEFINE q == Listed(f, r, size)
<1>1. q \in [1..size -> S]
  BY DEF Listed
<1> HIDE DEF q
<1>2. q \in Seq(S) /\ Len(q) = size
  BY <1>1
<1>3. QED
  BY <1>2 DEF q

LEMMA ListedIs ==
  ASSUME NEW S, NEW f \in [Nodes -> S], NEW size, size \in Nat, NEW r,
         \A i \in 1..size : r[i] \in Nodes,
         NEW q \in Seq(S), Len(q) = size, \A i \in 1..size : f[r[i]] = q[i]
  PROVE  Listed(f, r, size) = q
<1>1. Listed(f, r, size) \in Seq(S) /\ Len(Listed(f, r, size)) = size
  BY ListedIsSequence
<1>2. \A i \in 1..size : Listed(f, r, size)[i] = q[i]
  BY DEF Listed
<1>3. QED
  BY <1>1, <1>2, SeqEqual

(* A node inserted at the end, or at the beginning.                        *)
LEMMA ListedInserted ==
  ASSUME NEW S, NEW f \in [Nodes -> S], NEW size \in Nat, NEW r,
         NEW n \in Nodes, NEW e \in S,
         \A i \in 1..size : r[i] \in Nodes /\ r[i] # n,
         NEW p, AtAnEnd(p, size)
  PROVE  Listed(Written(f, n, e), Inserted(r, size, p, n), size + 1)
           \in {Append(Listed(f, r, size), e), <<e>> \o Listed(f, r, size)}
<1> DEFINE q  == Listed(f, r, size)
           r2 == Inserted(r, size, p, n)
           f2 == Written(f, n, e)
<1>9. p = 1 \/ p = size + 1
  BY DEF AtAnEnd
<1>0. size + 1 \in Nat /\ \A i \in 1..size : r[i] \in Nodes
  OBVIOUS
<1>1. q \in Seq(S) /\ Len(q) = size /\ \A i \in 1..size : q[i] = f[r[i]]
  <2>1. q \in Seq(S) /\ Len(q) = size
    BY <1>0, ListedIsSequence
  <2>2. QED
    BY <2>1 DEF Listed
<1> HIDE DEF q
<1>2. f2 \in [Nodes -> S] /\ f2[n] = e /\ \A i \in 1..size : f2[r[i]] = f[r[i]]
  BY DEF Written
<1>3. /\ \A i \in 1..size + 1 : i < p => r2[i] = r[i] /\ i \in 1..size
      /\ \A i \in 1..size + 1 : i > p => r2[i] = r[i - 1] /\ i - 1 \in 1..size
      /\ r2[p] = n
  BY <1>9 DEF Inserted
<1> HIDE DEF r2, f2
<1>4. \A i \in 1..size + 1 : r2[i] \in Nodes
  <2>1. \A i \in 1..size + 1 : i < p \/ i = p \/ i > p
    BY <1>9
  <2>2. QED
    BY <1>3, <2>1
<1>5. ASSUME NEW t \in Seq(S), Len(t) = size + 1,
             \A i \in 1..size + 1 : f2[r2[i]] = t[i]
      PROVE  Listed(f2, r2, size + 1) = t
  BY <1>0, <1>2, <1>4, <1>5, ListedIs
<1>6. ASSUME p = size + 1 PROVE Listed(f2, r2, size + 1) = Append(q, e)
  <2> DEFINE t == Append(q, e)
  <2>1. /\ t \in Seq(S) /\ Len(t) = size + 1 /\ t[size + 1] = e
        /\ \A i \in 1..size : t[i] = q[i]
    BY <1>1, AppendProperties
  <2> HIDE DEF t
  <2>2. \A i \in 1..size + 1 : i = p \/ (i \in 1..size /\ i < p)
    BY <1>6
  <2>3. \A i \in 1..size + 1 : f2[r2[i]] = t[i]
    BY <1>1, <1>2, <1>3, <1>6, <2>1, <2>2
  <2>4. QED
    BY <1>5, <2>1, <2>3 DEF t
<1>7. ASSUME p = 1 PROVE Listed(f2, r2, size + 1) = <<e>> \o q
  <2> DEFINE t == <<e>> \o q
  <2>1. t \in Seq(S) /\ Len(t) = size + 1 /\ t[1] = e
    BY <1>1
  <2>2. \A i \in 1..size + 1 : i > 1 => t[i] = q[i - 1]
    BY <1>1
  <2> HIDE DEF t
  <2>3. \A i \in 1..size + 1 : i = p \/ i > p
    BY <1>7
  <2>4. \A i \in 1..size + 1 : f2[r2[i]] = t[i]
    BY <1>1, <1>2, <1>3, <1>7, <2>1, <2>2, <2>3
  <2>5. QED
    BY <1>5, <2>1, <2>4 DEF t
<1>8. QED
  BY <1>6, <1>7, <1>9 DEF q, r2, f2

(* The node at the beginning, or at the end, taken out.                    *)
LEMMA ListedRemoved ==
  ASSUME NEW S, NEW f \in [Nodes -> S], NEW size \in Nat, size > 0, NEW r,
         \A i \in 1..size : r[i] \in Nodes, NEW p \in {1, size}
  PROVE  LET q == Listed(f, Removed(r, size, p), size - 1)
         IN  /\ p = 1 => q = Tail(Listed(f, r, size))
             /\ p = size => q = SubSeq(Listed(f, r, size), 1, size - 1)
<1> DEFINE q  == Listed(f, r, size)
           r2 == Removed(r, size, p)
<1>0. size - 1 \in Nat
  OBVIOUS
<1>1. q \in Seq(S) /\ Len(q) = size /\ \A i \in 1..size : q[i] = f[r[i]]
  <2>1. q \in Seq(S) /\ Len(q) = size
    BY ListedIsSequence
  <2>2. QED
    BY <2>1 DEF Listed
<1> HIDE DEF q
<1>2. \A i \in 1..size - 1 :
        /\ i < p => r2[i] = r[i]
        /\ i >= p => r2[i] = r[i + 1]
        /\ i \in 1..size /\ i + 1 \in 1..size
  BY DEF Removed
<1> HIDE DEF r2
<1>3. \A i \in 1..size - 1 : r2[i] \in Nodes
  <2>1. \A i \in 1..size - 1 : i < p \/ i >= p
    OBVIOUS
  <2>2. QED
    BY <1>2, <2>1
<1>4. ASSUME NEW t \in Seq(S), Len(t) = size - 1,
             \A i \in 1..size - 1 : f[r2[i]] = t[i]
      PROVE  Listed(f, r2, size - 1) = t
  BY <1>0, <1>3, <1>4, ListedIs
<1>5. ASSUME p = 1 PROVE Listed(f, r2, size - 1) = Tail(q)
  <2> DEFINE t == Tail(q)
  <2>1. q # <<>>
    BY <1>1
  <2>2. /\ t \in Seq(S) /\ Len(t) = size - 1
        /\ \A i \in 1..size - 1 : t[i] = q[i + 1]
    BY <1>1, <2>1, HeadTailProperties
  <2> HIDE DEF t
  <2>3. \A i \in 1..size - 1 : f[r2[i]] = t[i]
    BY <1>1, <1>2, <1>5, <2>2
  <2>4. QED
    BY <1>4, <2>2, <2>3 DEF t
<1>6. ASSUME p = size PROVE Listed(f, r2, size - 1) = SubSeq(q, 1, size - 1)
  <2> DEFINE t == SubSeq(q, 1, size - 1)
  <2>1. \A i \in 1..size - 1 : q[i] \in S
    BY <1>1, <1>2, ElementOfSeq
  <2>2. 1 \in Int /\ size - 1 \in Int
    OBVIOUS
  <2>3. /\ t \in Seq(S) /\ Len(t) = IF 1 <= size - 1 THEN (size - 1) - 1 + 1 ELSE 0
        /\ \A i \in 1..(size - 1) - 1 + 1 : t[i] = q[1 + i - 1]
    BY <2>1, <2>2, SubSeqProperties
  <2> HIDE DEF t
  <2>4. Len(t) = size - 1 /\ \A i \in 1..size - 1 : t[i] = q[i]
    BY <2>3
  <2>5. \A i \in 1..size - 1 : f[r2[i]] = t[i]
    BY <1>1, <1>2, <1>6, <2>4
  <2>6. QED
    BY <1>4, <2>3, <2>4, <2>5 DEF t
<1>7. QED
  BY <1>5, <1>6 DEF q, r2

-----------------------------------------------------------------------------
(* The refinement: the sequence is that of the ring, in its order.         *)

Content == [i \in 1..list_size |-> element[Order[i]]]

LEMMA ContentIs ==
  ASSUME Types, NEW r, NEW c, Sound(r, c)
  PROVE  Content = Listed(element, r, list_size)
<1>1. \A i \in 1..list_size : Order[i] = r[i]
  BY OrderIs
<1>2. QED
  BY <1>1 DEF Content, Listed

(* The same after a step.                                                  *)
LEMMA ContentNext ==
  ASSUME Types', NEW r, NEW c, Sound(r, c)'
  PROVE  Content' = Listed(element', r, list_size')
<1>1. list_size' \in Nat /\ IsRing(next', prev', head', list_size', r)
  BY DEF Types, Sound, IsRing
<1>2. \A i \in 1..list_size' : Walk(next, next[head], i - 1)' = r[i]
  <2> PICK nx, pv, h, size : nx = next' /\ pv = prev' /\ h = head' /\ size = list_size'
    OBVIOUS
  <2>1. \A i \in 1..size : Walk(nx, nx[h], i - 1) = r[i]
    BY <1>1, RingOrder
  <2>2. QED
    BY <2>1
<1>3. \A i \in 1..list_size' : Order'[i] = r[i]
  BY <1>2 DEF Order
<1>4. QED
  BY <1>3 DEF Content, Listed

LEMMA ContentEmpty ==
  ASSUME list_size = 0
  PROVE  Content = <<>>
BY DEF Content

(* The abstract steps in terms of Content.                                 *)
LEMMA AbstractSteps ==
  /\ List!Init <=> Content = <<>> /\ max_size = -1 /\ returned = NoValue
  /\ List!Push <=> /\ max_size = -1 \/ Len(Content) < max_size
                   /\ \E v \in Values : \/ Content' = Append(Content, v)
                                        \/ Content' = <<v>> \o Content
                   /\ UNCHANGED <<max_size, returned>>
  /\ List!Pop <=> /\ Content # <<>>
                  /\ \/ Content' = Tail(Content)
                     \/ Content' = SubSeq(Content, 1, Len(Content) - 1)
                  /\ UNCHANGED <<max_size, returned>>
  /\ List!SetLimit <=> max_size' \in Int /\ UNCHANGED <<Content, returned>>
  /\ List!Read <=> /\ IF Content = <<>> THEN returned' \in Values \cup {NoValue}
                      ELSE returned' \in {Content[1], Content[Len(Content)]}
                   /\ UNCHANGED <<Content, max_size>>
  /\ UNCHANGED List!vars <=> UNCHANGED <<Content, max_size, returned>>
BY DEF List!Init, List!Push, List!Room, List!Pop, List!SetLimit, List!Read, List!vars,
       Content

(* The elements are as many as list_size says, of the nodes in the ring.   *)
LEMMA ContentIsSequence ==
  ASSUME Types, NEW r, NEW c, Sound(r, c)
  PROVE  /\ \A i \in 1..list_size : r[i] \in Nodes /\ i \in 0..list_size
         /\ Content \in Seq(Values \cup {NoValue}) /\ Len(Content) = list_size
         /\ \A i \in 1..list_size : Content[i] = element[r[i]]
<1>1. /\ list_size \in Nat /\ element \in [Nodes -> Values \cup {NoValue}]
      /\ r \in [0..list_size + 1 -> Nodes]
  BY DEF Types, Sound, IsRing
<1>2. \A i \in 1..list_size : r[i] \in Nodes /\ i \in 0..list_size
  BY <1>1
<1>3. /\ Listed(element, r, list_size) \in Seq(Values \cup {NoValue})
      /\ Len(Listed(element, r, list_size)) = list_size
  BY <1>1, <1>2, ListedIsSequence
<1>4. \A i \in 1..list_size : Listed(element, r, list_size)[i] = element[r[i]]
  BY DEF Listed
<1>5. QED
  BY <1>2, <1>3, <1>4, ContentIs

(* Steps in which the ring and the elements stay.                          *)
LEMMA ContentStays ==
  ASSUME UNCHANGED <<next, head, list_size, element>>
  PROVE  Content' = Content
BY DEF Content, Order

LEMMA PushIsPush ==
  ASSUME ListInv, NEW e \in Values, Push(e)
  PROVE  List!Push
<1>1. Types /\ Alive /\ list_size \in Nat
  BY DEF ListInv, Types, Push, Alive
<1>2. PICK r, c : Sound(r, c)
  BY <1>1 DEF ListInv
<1>0. PICK n \in Nodes, p \in {1, list_size + 1} : \E r2, c2 :
        /\ Types' /\ Sound(r2, c2)' /\ r2 = Inserted(r, list_size, p, n)
        /\ list_size' = list_size + 1
        /\ element' = [element EXCEPT ![n] = e]
        /\ ~ InRing(r, list_size, n)
  BY <1>1, <1>2, PushStep
<1>3. PICK r2, c2 :
        /\ Types' /\ Sound(r2, c2)' /\ r2 = Inserted(r, list_size, p, n)
        /\ list_size' = list_size + 1
        /\ element' = [element EXCEPT ![n] = e]
        /\ ~ InRing(r, list_size, n)
  BY <1>0
<1>4. /\ \A i \in 1..list_size : r[i] \in Nodes /\ i \in 0..list_size
      /\ Content \in Seq(Values \cup {NoValue}) /\ Len(Content) = list_size
  BY <1>1, <1>2, ContentIsSequence
<1>5. \A i \in 1..list_size : r[i] \in Nodes /\ r[i] # n
  BY <1>3, <1>4 DEF InRing
<1>6. Content = Listed(element, r, list_size)
  BY <1>1, <1>2, ContentIs
<1>7. Content' = Listed(element', r2, list_size')
  BY <1>3, ContentNext
<1>8. /\ element \in [Nodes -> Values \cup {NoValue}] /\ e \in Values \cup {NoValue}
  BY <1>1 DEF Types
<1>9. Content' = Append(Content, e) \/ Content' = <<e>> \o Content
  <2>1. Content' = Listed(Written(element, n, e), Inserted(r, list_size, p, n),
                          list_size + 1)
    BY <1>3, <1>7 DEF Written
  <2>2. Content' = Append(Content, e) \/ Content' = <<e>> \o Content
    <3>1. PICK S, size, f : S = Values \cup {NoValue} /\ size = list_size /\ f = element
      OBVIOUS
    <3>2. f \in [Nodes -> S] /\ e \in S /\ size \in Nat
      BY <1>1, <1>8, <3>1
    <3>3. AtAnEnd(p, size) /\ n \in Nodes
      BY <1>3, <3>1 DEF AtAnEnd
    <3>4. \A i \in 1..size : r[i] \in Nodes /\ r[i] # n
      BY <1>5, <3>1
    <3>5. Listed(Written(f, n, e), Inserted(r, size, p, n), size + 1)
            \in {Append(Listed(f, r, size), e), <<e>> \o Listed(f, r, size)}
      BY <3>2, <3>3, <3>4, ListedInserted
    <3>6. QED
      BY <1>6, <2>1, <3>1, <3>5
  <2>3. QED
    BY <2>2
<1>10. /\ max_size = -1 \/ Len(Content) < max_size
       /\ UNCHANGED <<max_size, returned>>
  BY <1>4 DEF Push, Room
<1>11. QED
  BY <1>9, <1>10, AbstractSteps

LEMMA EraseIsPop ==
  ASSUME ListInv, Alive, erase(next[head]) \/ erase(prev[head]),
         UNCHANGED <<head, max_size, returned>>
  PROVE  List!Pop
<1>1. Types /\ list_size \in Nat
  BY DEF ListInv, Types
<1>2. PICK r, c : Sound(r, c)
  BY DEF ListInv
<1>3. PICK p \in {1, list_size} : erase(r[p]) /\ p \in 1..list_size /\ list_size > 0
  BY <1>1, <1>2, EraseEnds
<1>4. PICK r2, c2 : /\ Types' /\ Sound(r2, c2)' /\ r2 = Removed(r, list_size, p)
                    /\ list_size' = list_size - 1 /\ element' = element
  BY <1>1, <1>2, <1>3, EraseStep
<1>5. /\ \A i \in 1..list_size : r[i] \in Nodes
      /\ Content \in Seq(Values \cup {NoValue}) /\ Len(Content) = list_size
  BY <1>1, <1>2, ContentIsSequence
<1>6. Content = Listed(element, r, list_size)
  BY <1>1, <1>2, ContentIs
<1>7. Content' = Listed(element, Removed(r, list_size, p), list_size - 1)
  BY <1>4, ContentNext
<1>8. element \in [Nodes -> Values \cup {NoValue}]
  BY <1>1 DEF Types
<1>9. Content' = Tail(Content) \/ Content' = SubSeq(Content, 1, list_size - 1)
  <2> PICK S, size, f : S = Values \cup {NoValue} /\ size = list_size /\ f = element
    OBVIOUS
  <2>1. f \in [Nodes -> S] /\ size \in Nat /\ size > 0 /\ p \in {1, size}
    BY <1>1, <1>3, <1>8
  <2>2. \A i \in 1..size : r[i] \in Nodes
    BY <1>5
  <2>3. LET q == Listed(f, Removed(r, size, p), size - 1)
        IN  /\ p = 1 => q = Tail(Listed(f, r, size))
            /\ p = size => q = SubSeq(Listed(f, r, size), 1, size - 1)
    BY <2>1, <2>2, ListedRemoved
  <2>4. QED
    BY <1>6, <1>7, <2>3
<1>10. Content # <<>>
  BY <1>3, <1>5
<1>11. QED
  BY <1>5, <1>9, <1>10, AbstractSteps

LEMMA ReadIsRead ==
  ASSUME ListInv, Read
  PROVE  List!Read
<1>1. Types /\ Alive /\ list_size \in Nat
  BY DEF ListInv, Types, Read, Alive
<1>2. PICK r, c : Sound(r, c)
  BY <1>1 DEF ListInv
<1>3. /\ \A i \in 1..list_size : i \in 0..list_size
      /\ Content \in Seq(Values \cup {NoValue}) /\ Len(Content) = list_size
      /\ \A i \in 1..list_size : Content[i] = element[r[i]]
  BY <1>1, <1>2, ContentIsSequence
<1>4. /\ next[head] = r[1] /\ prev[head] = r[list_size]
      /\ r[0] = head /\ r[list_size + 1] = head
      /\ \A i, j \in 0..list_size : r[i] = r[j] => i = j
  BY <1>1, <1>2, RingEnds DEF Sound, IsRing
<1>5. returned' \in ElementOf(r[1]) \/ returned' \in ElementOf(r[list_size])
  BY <1>4 DEF Read
<1>6. UNCHANGED <<Content, max_size>>
  BY ContentStays DEF Read, heap, links
<1>7. CASE list_size = 0
  <2>1. Content = <<>> /\ r[1] = head /\ r[list_size] = head
    BY <1>3, <1>4, <1>7
  <2>2. returned' \in Values \cup {NoValue}
    BY <1>5, <2>1 DEF ElementOf
  <2>3. QED
    BY <1>6, <2>1, <2>2, AbstractSteps
<1>8. CASE list_size # 0
  <2>1. 1 \in 1..list_size /\ list_size \in 1..list_size /\ 0 \in 0..list_size
    BY <1>1, <1>8
  <2>2. r[1] # head /\ r[list_size] # head
    BY <1>3, <1>4, <2>1
  <2>3. returned' \in {element[r[1]], element[r[list_size]]}
    BY <1>5, <2>2 DEF ElementOf
  <2>4. Content # <<>> /\ returned' \in {Content[1], Content[Len(Content)]}
    BY <1>3, <1>8, <2>1, <2>3
  <2>5. QED
    BY <1>6, <2>4, AbstractSteps
<1>9. QED
  BY <1>7, <1>8

(* Every step is one of the sequence's, or leaves it as it is.             *)
LEMMA StepIsList ==
  ASSUME ListInv, [Next]_vars
  PROVE  [List!Next]_(List!vars)
<1>1. ASSUME UNCHANGED <<next, head, list_size, element, max_size, returned>>
      PROVE  UNCHANGED List!vars
  BY <1>1, ContentStays, AbstractSteps
<1>2. ASSUME NEW e \in Values, Push(e) PROVE List!Next
  BY <1>2, PushIsPush DEF List!Next
<1>3. CASE Pop
  <2>1. Alive /\ UNCHANGED <<head, max_size, returned>>
    BY <1>3 DEF Pop, Alive
  <2>2. QED
    BY <1>3, <2>1, EraseIsPop DEF Pop, List!Next
<1>4. CASE Read
  BY <1>4, ReadIsRead DEF List!Next
<1>5. CASE setMaxSize
  <2>1. max_size' \in Int /\ UNCHANGED <<next, head, list_size, element, returned>>
    BY <1>5, ListAssumption DEF setMaxSize, heap, links, ListAssumption
  <2>2. List!SetLimit
    BY <2>1, ContentStays, AbstractSteps
  <2>3. QED
    BY <2>2 DEF List!Next
<1>6. CASE Begin \/ UNCHANGED vars
  BY <1>1, <1>6 DEF Begin, vars, heap, links
<1>7. CASE deleteList
  <2>1. UNCHANGED <<element, head, max_size, returned>>
    BY <1>7 DEF deleteList
  <2>2. CASE list_size > 0
    <3>1. Alive /\ erase(next[head])
      BY <1>7, <2>2 DEF deleteList, Alive
    <3>2. QED
      BY <2>1, <3>1, EraseIsPop DEF List!Next
  <2>3. CASE ~ (list_size > 0)
    <3>1. UNCHANGED <<next, list_size>>
      BY <1>7, <2>3 DEF deleteList, heap, links
    <3>2. QED
      BY <1>1, <2>1, <3>1
  <2>4. QED
    BY <2>2, <2>3
<1>8. CASE deleteHead
  <2>1. list_size = 0 /\ list_size' = list_size /\ UNCHANGED <<max_size, returned>>
    BY <1>8 DEF deleteHead, ListInv
  <2>2. Content' = Content
    BY <2>1 DEF Content
  <2>3. QED
    BY <2>1, <2>2, AbstractSteps
<1>9. CASE deleteUnusedNodeList
  BY <1>1, <1>9 DEF deleteUnusedNodeList, links
<1>10. QED
  BY <1>2, <1>3, <1>4, <1>5, <1>6, <1>7, <1>8, <1>9 DEF Next

(* Every behaviour of the linked nodes is one of the bounded sequence:     *)
(* push_back(), push_front(), pop_front(), pop_back(), front() and back()  *)
(* work on its ends, clear() removes from the front.                       *)
THEOREM ImplementsBoundedListAlways == Spec => ImplementsBoundedList
<1>1. Init => ListInv /\ List!Init
  <2> SUFFICES ASSUME Init PROVE ListInv /\ List!Init
    OBVIOUS
  <2>1. ListInv
    BY InitSound DEF Init, ListInv
  <2>2. list_size = 0 /\ max_size = -1 /\ returned = NoValue
    BY DEF Init
  <2>3. QED
    BY <2>1, <2>2, ContentEmpty, AbstractSteps
<1>2. ListInv /\ [Next]_vars => ListInv' /\ [List!Next]_(List!vars)
  BY ListStep, StepIsList
<1>3. QED
  BY <1>1, <1>2, PTL DEF Spec, ImplementsBoundedList, List!Spec
=============================================================================
