------------------------ MODULE TameClientImpl_proofs ------------------------
(* What holds of the sending client for every number of threads, payload   *)
(* lengths and calls.                                                      *)
EXTENDS TameClientImpl, SequenceTheorems, TLAPS

-----------------------------------------------------------------------------
(* The flag, and a thread's belief in it, presuppose a connection; no step *)
(* makes a socket fresh again.                                             *)
FlagKnowsSocket ==
  /\ connection_flag => sock # "fresh"
  /\ \A t \in Threads :
       pc[t] \in {"connected", "post_len", "post_body"} => sock # "fresh"

PcOK == pc \in [Threads -> {"idle", "connect", "connected", "refused",
                            "return", "post_len", "post_body", "aborted"}]

(* No thread ever sends on a socket that has not been connected: posting   *)
(* threads may race for connection() in any way.                           *)
THEOREM NeverSendsUnconnectedAlways == Spec => []NeverSendsUnconnected
<1> DEFINE Inv == PcOK /\ FlagKnowsSocket
<1>1. Init => Inv
  BY DEF Init, PcOK, FlagKnowsSocket
<1>2. Inv /\ [Next]_vars => Inv'
  <2> SUFFICES ASSUME Inv, [Next]_vars PROVE Inv'
    OBVIOUS
  <2> USE DEF PcOK, FlagKnowsSocket, Goto
  <2>1. CASE UNCHANGED vars
    BY <2>1 DEF vars, local_vars
  <2>2. ASSUME NEW t \in Threads, NEW n \in Lens, Post(t, n) PROVE Inv'
    BY <2>2 DEF Post
  <2>3. ASSUME NEW t \in Threads, ConnectSucceeds(t) PROVE Inv'
    BY <2>3 DEF ConnectSucceeds
  <2>4. ASSUME NEW t \in Threads, ConnectFails(t) PROVE Inv'
    BY <2>4 DEF ConnectFails
  <2>5. ASSUME NEW t \in Threads, SetFlag(t) PROVE Inv'
    BY <2>5 DEF SetFlag
  <2>6. ASSUME NEW t \in Threads, ReturnFlag(t) PROVE Inv'
    BY <2>6 DEF ReturnFlag, Returns
  <2>7. ASSUME NEW t \in Threads, SendLen(t) PROVE Inv'
    BY <2>7 DEF SendLen, BeginBody, Returns
  <2>8. ASSUME NEW t \in Threads, SendLenFails(t) PROVE Inv'
    BY <2>8 DEF SendLenFails, BeginBody, Returns
  <2>9. ASSUME NEW t \in Threads, SendBody(t) PROVE Inv'
    BY <2>9 DEF SendBody, SentSome, Returns
  <2>10. ASSUME NEW t \in Threads, SendBodyFails(t) PROVE Inv'
    BY <2>10 DEF SendBodyFails, Returns
  <2>11. ASSUME NEW t \in Threads, ClearFlag(t) PROVE Inv'
    BY <2>11 DEF ClearFlag, Returns
  <2>12. CASE Break
    BY <2>12 DEF Break, local_vars
  <2>13. QED
    BY <2>1, <2>2, <2>3, <2>4, <2>5, <2>6, <2>7, <2>8, <2>9, <2>10, <2>11,
       <2>12 DEF Next
<1>3. Inv => NeverSendsUnconnected
  BY DEF FlagKnowsSocket, NeverSendsUnconnected
<1>4. QED
  BY <1>1, <1>2, <1>3, PTL DEF Spec

-----------------------------------------------------------------------------
(* While only one thread has called post(), the flag of a connected socket *)
(* is set, except between connect() and the assignment; and a thread that  *)
(* has found the flag unset, or a connect() or send() failed, has no       *)
(* connection.                                                             *)
FlagFollowsSocket ==
  sock = "connected" =>
    /\ \A t \in Threads : pc[t] \notin {"connect", "refused", "aborted"}
    /\ connection_flag \/ \E t \in Threads : pc[t] = "connected"

(* A thread inside post() has called it.                                   *)
PostOK == /\ post \in [Threads -> Nat] /\ posts \in Seq(Nat)
          /\ \A t \in Threads : pc[t] # "idle" => post[t] # 0

(* A connected client that is used by one thread knows that it is.         *)
THEOREM StaysUsableAlways == Spec => []StaysUsable
<1> DEFINE Inv == PcOK /\ PostOK /\ (OneThread => FlagFollowsSocket)
<1>1. Init => Inv
  <2> SUFFICES ASSUME Init PROVE Inv
    OBVIOUS
  <2>1. PcOK
    BY DEF Init, PcOK
  <2>2. PostOK
    BY DEF Init, PostOK
  <2>3. FlagFollowsSocket
    BY DEF Init, FlagFollowsSocket
  <2>4. QED
    BY <2>1, <2>2, <2>3
<1>2. Inv /\ [Next]_vars => Inv'
  <2> SUFFICES ASSUME Inv, [Next]_vars PROVE Inv'
    OBVIOUS
  <2> USE ClientAssumption DEF ClientAssumption, PcOK, PostOK, FlagFollowsSocket, OneThread, Goto
  <2>0. ASSUME NEW t \in Threads, NEW l \in {"idle", "post_len", "post_body"},
               pc[t] \in {"return", "post_len", "post_body"}, Goto(t, l),
               UNCHANGED <<connection_flag, sock, post, posts>>
        PROVE  Inv'
    <3>1. /\ PcOK' /\ PostOK'
          /\ \A s \in Threads : pc'[s] = IF s = t THEN l ELSE pc[s]
      BY <2>0
    <3>2. ASSUME OneThread' PROVE FlagFollowsSocket'
      BY <2>0, <3>1, <3>2
    <3>3. QED
      BY <3>1, <3>2
  <2>1. CASE UNCHANGED vars
    BY <2>1 DEF vars, local_vars
  <2>2. ASSUME NEW t \in Threads, NEW n \in Lens, Post(t, n) PROVE Inv'
    BY <2>2 DEF Post
  <2>3. ASSUME NEW t \in Threads, ConnectSucceeds(t) PROVE Inv'
    BY <2>3 DEF ConnectSucceeds
  <2>4. ASSUME NEW t \in Threads, ConnectFails(t) PROVE Inv'
    BY <2>4 DEF ConnectFails
  <2>5. ASSUME NEW t \in Threads, SetFlag(t) PROVE Inv'
    BY <2>5 DEF SetFlag
  <2>6. ASSUME NEW t \in Threads, ReturnFlag(t) PROVE Inv'
    <3>1. /\ pc[t] = "return" /\ UNCHANGED <<connection_flag, sock, post, posts>>
          /\ Goto(t, "idle") \/ Goto(t, "post_len")
      BY <2>6 DEF ReturnFlag, Returns
    <3>2. QED
      BY <2>0, <3>1
  <2>7. ASSUME NEW t \in Threads, SendLen(t) PROVE Inv'
    <3>1. /\ pc[t] = "post_len" /\ UNCHANGED <<connection_flag, sock, post, posts>>
          /\ Goto(t, "idle") \/ Goto(t, "post_body")
      BY <2>7 DEF SendLen, BeginBody, Returns
    <3>2. QED
      BY <2>0, <3>1
  <2>8. ASSUME NEW t \in Threads, SendLenFails(t) PROVE Inv'
    <3>1. /\ pc[t] = "post_len" /\ UNCHANGED <<connection_flag, sock, post, posts>>
          /\ Goto(t, "idle") \/ Goto(t, "post_body")
      BY <2>8 DEF SendLenFails, BeginBody, Returns
    <3>2. QED
      BY <2>0, <3>1
  <2>9. ASSUME NEW t \in Threads, SendBody(t) PROVE Inv'
    BY <2>9 DEF SendBody, SentSome, Returns
  <2>10. ASSUME NEW t \in Threads, SendBodyFails(t) PROVE Inv'
    BY <2>10 DEF SendBodyFails, Returns
  <2>11. ASSUME NEW t \in Threads, ClearFlag(t) PROVE Inv'
    BY <2>11 DEF ClearFlag, Returns
  <2>12. CASE Break
    BY <2>12 DEF Break, local_vars
  <2>13. QED
    BY <2>1, <2>2, <2>3, <2>4, <2>5, <2>6, <2>7, <2>8, <2>9, <2>10, <2>11,
       <2>12 DEF Next
<1>3. Inv => StaysUsable
  BY DEF PcOK, FlagFollowsSocket, StaysUsable
<1>4. QED
  BY <1>1, <1>2, <1>3, PTL DEF Spec

-----------------------------------------------------------------------------
(* UnitsInOrder speaks of threads that race.  It holds because a call of   *)
(* post() belongs to one thread, and what is sent of it so far is what     *)
(* `left' says.                                                            *)

(* The variables that the order of units depends on keep to their types.   *)
UnitsTyped ==
  /\ PcOK
  /\ post \in [Threads -> 0..MaxPosts] /\ left \in [Threads -> Nat]
  /\ posts \in Seq(Lens) /\ Len(posts) <= MaxPosts
  /\ wires \in Seq(Seq(Units))
  /\ sock = "connected" => wires # <<>>

(* Each call that is not over is one thread's.                             *)
OwnCalls ==
  /\ \A t \in Threads : pc[t] # "idle" => post[t] \in 1..Len(posts)
  /\ \A s, t \in Threads : pc[s] # "idle" /\ pc[t] # "idle" /\ post[s] = post[t]
                             => s = t

(* Where a unit may come from.                                             *)
FromCall(u) ==
  /\ u.post \in 1..Len(posts)
  /\ \A t \in Threads : pc[t] # "idle" /\ post[t] = u.post =>
       /\ pc[t] \in {"post_body", "aborted"}
       /\ pc[t] = "post_body" => u.unit <= payload_len(t) - left[t]

SentSoFar ==
  /\ \A t \in Threads : pc[t] = "post_body" => left[t] \in 1..payload_len(t)
  /\ \A c \in 1..Len(wires) : \A i \in 1..Len(wires[c]) : FromCall(wires[c][i])

(* A call that is not over has a length, and something is left of it.      *)
LEMMA CallTyped ==
  ASSUME UnitsTyped, OwnCalls, NEW t \in Threads, pc[t] # "idle"
  PROVE  post[t] \in Posts /\ payload_len(t) \in Nat /\ left[t] \in Nat
<1>1. post[t] \in 1..Len(posts) /\ posts \in Seq(Lens) /\ Len(posts) \in Nat
  BY DEF OwnCalls, UnitsTyped
<1>2. posts[post[t]] \in Lens
  BY <1>1
<1>3. post[t] \in Posts
  BY <1>1, ClientAssumption DEF UnitsTyped, Posts, ClientAssumption
<1>4. QED
  BY <1>2, <1>3, ClientAssumption DEF ClientAssumption, payload_len, UnitsTyped

(* Every unit of one sequence comes before those of the other.             *)
Follow(w, us) ==
  \A i \in 1..Len(w), j \in 1..Len(us) :
    w[i].post = us[j].post => w[i].unit < us[j].unit

Rising(w) == \A i, j \in 1..Len(w) :
               i < j /\ w[i].post = w[j].post => w[i].unit < w[j].unit

(* What send() appends keeps a connection in order when it is in order     *)
(* itself and follows what is there.                                       *)
LEMMA SendKeepsOrder ==
  ASSUME UnitsTyped, UnitsInOrder, NEW us \in Seq(Units), Send(us),
         Rising(us), \A c \in 1..Len(wires) : Follow(wires[c], us)
  PROVE  /\ UnitsInOrder' /\ wires' \in Seq(Seq(Units)) /\ wires' # <<>>
         /\ \A c \in 1..Len(wires') : \A i \in 1..Len(wires'[c]) :
              \/ c \in 1..Len(wires) /\ i \in 1..Len(wires[c])
                 /\ wires'[c][i] = wires[c][i]
              \/ \E j \in 1..Len(us) : wires'[c][i] = us[j]
<1> DEFINE n == Len(wires)
<1>1. /\ wires \in Seq(Seq(Units)) /\ n \in Nat \ {0}
      /\ wires' = [wires EXCEPT ![n] = wires[n] \o us]
  BY DEF UnitsTyped, Send
<1>2. /\ Len(wires') = n /\ wires[n] \in Seq(Units)
      /\ wires'[n] = wires[n] \o us
      /\ \A c \in 1..n : c # n => wires'[c] = wires[c]
  BY <1>1
<1>3. /\ wires[n] \o us \in Seq(Units)
      /\ Len(wires'[n]) = Len(wires[n]) + Len(us)
      /\ \A i \in 1..Len(wires[n]) : wires'[n][i] = wires[n][i]
      /\ \A j \in 1..Len(us) : wires'[n][Len(wires[n]) + j] = us[j]
  BY <1>2
<1>4. wires' \in Seq(Seq(Units)) /\ wires' # <<>>
  <2>1. wires[n] \o us \in Seq(Units) /\ n \in 1..Len(wires)
    BY <1>1, <1>3
  <2> HIDE DEF n
  <2>2. wires' \in Seq(Seq(Units))
    BY <1>1, <2>1, ExceptSeq
  <2>3. QED
    BY <1>1, <1>2, <2>2
<1>5. ASSUME NEW i \in 1..Len(wires'[n]), i \notin 1..Len(wires[n])
      PROVE  \E j \in 1..Len(us) : i = Len(wires[n]) + j /\ wires'[n][i] = us[j]
  <2>1. Len(us) \in Nat /\ Len(wires[n]) \in Nat
    BY <1>2
  <2>2. i - Len(wires[n]) \in 1..Len(us)
    BY <1>3, <1>5, <2>1
  <2> DEFINE j == i - Len(wires[n])
  <2>3. i = Len(wires[n]) + j
    BY <1>3, <1>5, <2>1
  <2>4. wires'[n][i] = us[j]
    BY <1>3, <2>2, <2>3
  <2>5. QED
    BY <2>2, <2>3, <2>4
<1>6. ASSUME NEW i \in 1..Len(wires'[n]), NEW j \in 1..Len(wires'[n]), i < j,
             wires'[n][i].post = wires'[n][j].post
      PROVE  wires'[n][i].unit < wires'[n][j].unit
  <2>1. CASE j \in 1..Len(wires[n])
    <3>1. i \in 1..Len(wires[n])
      BY <1>6, <2>1
    <3>2. QED
      BY <1>1, <1>3, <1>6, <2>1, <3>1, SMTT(20) DEF UnitsInOrder
  <2>2. CASE i \in 1..Len(wires[n]) /\ j \notin 1..Len(wires[n])
    <3>1. PICK k \in 1..Len(us) : wires'[n][j] = us[k]
      BY <1>5, <2>2
    <3>2. Follow(wires[n], us) /\ wires'[n][i] = wires[n][i]
      BY <1>1, <1>3, <2>2
    <3>3. wires[n][i].post = us[k].post
      BY <1>6, <3>1, <3>2
    <3>4. wires[n][i].unit < us[k].unit
      BY <2>2, <3>2, <3>3 DEF Follow
    <3>5. QED
      BY <3>1, <3>2, <3>4
  <2>3. CASE i \notin 1..Len(wires[n]) /\ j \notin 1..Len(wires[n])
    <3>1. PICK k \in 1..Len(us) : j = Len(wires[n]) + k /\ wires'[n][j] = us[k]
      BY <1>5, <2>3
    <3>2. PICK m \in 1..Len(us) : i = Len(wires[n]) + m /\ wires'[n][i] = us[m]
      BY <1>5, <2>3
    <3>3. m < k
      BY <1>2, <1>6, <3>1, <3>2
    <3>4. us[m].post = us[k].post
      BY <1>6, <3>1, <3>2
    <3>5. us[m].unit < us[k].unit
      BY <3>3, <3>4 DEF Rising
    <3>6. QED
      BY <3>1, <3>2, <3>5
  <2>4. QED
    BY <2>1, <2>2, <2>3
<1>7. UnitsInOrder'
  <2> HIDE DEF n
  <2> SUFFICES ASSUME NEW c \in 1..n, NEW i \in 1..Len(wires'[c]),
                      NEW j \in 1..Len(wires'[c]), i < j,
                      wires'[c][i].post = wires'[c][j].post
               PROVE  wires'[c][i].unit < wires'[c][j].unit
    BY <1>2 DEF UnitsInOrder
  <2>1. CASE c = n
    BY <1>6, <2>1
  <2>2. CASE c # n
    BY <1>2, <2>2 DEF UnitsInOrder, n
  <2>3. QED
    BY <2>1, <2>2
<1>8. QED
  <2> HIDE DEF n
  <2> SUFFICES ASSUME NEW c \in 1..n, NEW i \in 1..Len(wires'[c])
               PROVE  \/ i \in 1..Len(wires[c]) /\ wires'[c][i] = wires[c][i]
                      \/ \E j \in 1..Len(us) : wires'[c][i] = us[j]
    BY <1>2, <1>4, <1>7 DEF n
  <2>1. CASE c # n
    BY <1>2, <2>1
  <2>2. CASE c = n
    BY <1>3, <1>5, <2>2
  <2>3. QED
    BY <2>1, <2>2

CallsOK == UnitsTyped /\ OwnCalls /\ SentSoFar /\ UnitsInOrder

LEMMA CallsKept == Spec => []CallsOK
<1> DEFINE Inv == UnitsTyped /\ OwnCalls /\ SentSoFar /\ UnitsInOrder
<1> USE ClientAssumption DEF ClientAssumption
<1>1. Init => Inv
  <2> SUFFICES ASSUME Init PROVE Inv
    OBVIOUS
  <2>1. \A c \in 1..Len(wires) : Len(wires[c]) = 0
    BY DEF Init
  <2>2. wires \in Seq(Seq(Units)) /\ (sock = "connected" => wires # <<>>)
    BY DEF Init
  <2>3. UnitsTyped
    BY <2>2 DEF Init, UnitsTyped, PcOK
  <2>4. OwnCalls
    BY DEF Init, OwnCalls
  <2>5. SentSoFar /\ UnitsInOrder
    BY <2>1 DEF Init, SentSoFar, UnitsInOrder
  <2>6. QED
    BY <2>3, <2>4, <2>5
<1>2. Inv /\ [Next]_vars => Inv'
  <2> SUFFICES ASSUME UnitsTyped, OwnCalls, SentSoFar, UnitsInOrder, [Next]_vars
               PROVE  Inv'
    OBVIOUS
  \* A thread goes on within its call, or ends it, and sends nothing.
  <2>1. ASSUME NEW t \in Threads,
               UNCHANGED <<post, posts, wires>>,
               NEW l \in Nat, left' = [left EXCEPT ![t] = l],
               NEW label \in {"idle", "connect", "connected", "refused",
                              "return", "post_len", "post_body", "aborted"},
               pc' = [pc EXCEPT ![t] = label], pc[t] # "idle",
               \/ label = "idle"
               \/ label = "aborted" /\ pc[t] = "post_body"
               \/ label = "post_body" /\ pc[t] = "post_len"
                  /\ l = payload_len(t) /\ l # 0
               \/ label \notin {"aborted", "post_body"}
                  /\ pc[t] \notin {"aborted", "post_body"},
               sock' = "connected" => wires' # <<>>
        PROVE  Inv'
    <3>1. UnitsTyped'
      BY <2>1 DEF UnitsTyped, PcOK
    <3>2. OwnCalls'
      BY <2>1 DEF OwnCalls, UnitsTyped, PcOK
    <3>3. payload_len(t)' = payload_len(t)
      BY <2>1 DEF payload_len
    <3>4. \A s \in Threads : pc'[s] = "post_body" => left'[s] \in 1..payload_len(s)'
      BY <2>1, <3>3 DEF SentSoFar, UnitsTyped, PcOK, payload_len
    <3>5. ASSUME NEW c \in 1..Len(wires), NEW i \in 1..Len(wires[c])
          PROVE  FromCall(wires[c][i])'
      <4>1. FromCall(wires[c][i])
        BY <3>5 DEF SentSoFar
      <4>2. QED
        BY <2>1, <3>3, <4>1 DEF FromCall, UnitsTyped, PcOK, payload_len
    <3>6. UnitsInOrder'
      BY <2>1 DEF UnitsInOrder
    <3>7. QED
      BY <2>1, <3>1, <3>2, <3>4, <3>5, <3>6 DEF SentSoFar
  \* A thread sends units of its call and goes on, or ends it.
  <2>2. ASSUME NEW t \in Threads, NEW us \in Seq(Units), Send(us), Rising(us),
               \A j \in 1..Len(us) : us[j].post = post[t],
               pc[t] \in {"post_len", "post_body"},
               pc[t] = "post_body" => \A j \in 1..Len(us) :
                 us[j].unit > payload_len(t) - left[t],
               UNCHANGED <<post, posts, sock>>,
               NEW l \in Nat, left' = [left EXCEPT ![t] = l],
               NEW label \in {"idle", "post_body"},
               pc' = [pc EXCEPT ![t] = label],
               label = "post_body" =>
                 /\ l \in 1..payload_len(t)
                 /\ pc[t] = "post_body" => l <= left[t]
                 /\ \A j \in 1..Len(us) : us[j].unit <= payload_len(t) - l
        PROVE  Inv'
    <3>1. ASSUME NEW c \in 1..Len(wires) PROVE Follow(wires[c], us)
      <4> SUFFICES ASSUME NEW i \in 1..Len(wires[c]), NEW j \in 1..Len(us),
                          wires[c][i].post = us[j].post
                   PROVE  wires[c][i].unit < us[j].unit
        BY DEF Follow
      <4>1. FromCall(wires[c][i]) /\ post[t] = wires[c][i].post
        BY <2>2 DEF SentSoFar
      <4>2. /\ pc[t] = "post_body"
            /\ wires[c][i].unit <= payload_len(t) - left[t]
            /\ us[j].unit > payload_len(t) - left[t]
        BY <2>2, <4>1 DEF FromCall
      <4>3. wires[c][i] \in Units /\ us[j] \in Units
        BY <2>2 DEF UnitsTyped
      <4>4. wires[c][i].unit \in Nat /\ us[j].unit \in Nat
        BY <4>3 DEF Units
      <4>5. payload_len(t) \in Nat /\ left[t] \in Nat
        BY <2>2, CallTyped
      <4>6. QED
        BY <4>2, <4>4, <4>5, SMTT(20)
    <3>2. /\ UnitsInOrder' /\ wires' \in Seq(Seq(Units)) /\ wires' # <<>>
          /\ \A c \in 1..Len(wires') : \A i \in 1..Len(wires'[c]) :
               \/ c \in 1..Len(wires) /\ i \in 1..Len(wires[c])
                  /\ wires'[c][i] = wires[c][i]
               \/ \E j \in 1..Len(us) : wires'[c][i] = us[j]
      BY <2>2, <3>1, SendKeepsOrder
    <3>3. UnitsTyped'
      BY <2>2, <3>2 DEF UnitsTyped, PcOK
    <3>4. OwnCalls'
      BY <2>2 DEF OwnCalls, UnitsTyped, PcOK
    <3>5. payload_len(t)' = payload_len(t)
      BY <2>2 DEF payload_len
    <3>6. \A s \in Threads : pc'[s] = "post_body" => left'[s] \in 1..payload_len(s)'
      BY <2>2, <3>5 DEF SentSoFar, UnitsTyped, PcOK, payload_len
    <3>7. ASSUME NEW c \in 1..Len(wires), NEW i \in 1..Len(wires[c]),
                 NEW u, u = wires[c][i]
          PROVE  FromCall(u)'
      <4>1. FromCall(u)
        BY <3>7 DEF SentSoFar
      <4>2. u \in Units
        BY <3>7 DEF UnitsTyped
      <4>3. u.unit \in Nat
        BY <4>2 DEF Units
      <4>4. payload_len(t) \in Nat /\ left[t] \in Nat
        BY <2>2, CallTyped
      <4>5. ASSUME NEW s \in Threads, pc'[s] # "idle",
                   post'[s] = u.post
            PROVE  /\ pc'[s] \in {"post_body", "aborted"}
                   /\ pc'[s] = "post_body" =>
                        u.unit <= payload_len(s)' - left'[s]
        <5>1. CASE s = t
          <6>1. pc'[t] = "post_body" /\ label = "post_body" /\ left'[t] = l
            BY <2>2, <4>5, <5>1 DEF UnitsTyped, PcOK
          <6>2. pc[t] = "post_body"
                /\ u.unit <= payload_len(t) - left[t]
            BY <2>2, <4>1, <4>5, <5>1 DEF FromCall
          <6>3. QED
            BY <2>2, <3>5, <4>3, <4>4, <5>1, <6>1, <6>2
        <5>2. CASE s # t
          <6>1. /\ pc'[s] = pc[s] /\ left'[s] = left[s] /\ post'[s] = post[s]
                /\ payload_len(s)' = payload_len(s)
            BY <2>2, <5>2 DEF UnitsTyped, PcOK, payload_len
          <6>2. QED
            BY <4>1, <4>5, <6>1 DEF FromCall
        <5>3. QED
          BY <5>1, <5>2
      <4>6. QED
        <5>1. posts' = posts /\ u.post \in 1..Len(posts)
          BY <2>2, <4>1 DEF FromCall
        <5>2. QED
          BY <4>5, <5>1 DEF FromCall, payload_len
    <3>8. ASSUME NEW j \in 1..Len(us) PROVE FromCall(us[j])'
      <4>1. us[j].post = post[t] /\ post[t] \in 1..Len(posts)
        BY <2>2 DEF OwnCalls
      <4>2. ASSUME NEW s \in Threads, pc'[s] # "idle", post'[s] = us[j].post
            PROVE  /\ s = t /\ pc'[s] = "post_body"
                   /\ us[j].unit <= payload_len(s)' - left'[s]
        <5>1. pc[s] # "idle"
          BY <2>2, <4>2 DEF UnitsTyped, PcOK
        <5>2. s = t
          BY <2>2, <4>1, <4>2, <5>1 DEF OwnCalls
        <5>3. label = "post_body" /\ pc'[t] = label /\ left'[t] = l
          BY <2>2, <4>2, <5>2 DEF UnitsTyped, PcOK
        <5>4. QED
          BY <2>2, <3>5, <5>2, <5>3
      <4>3. QED
        BY <2>2, <4>1, <4>2 DEF FromCall
    <3>9. SentSoFar'
      <4>1. ASSUME NEW c \in 1..Len(wires'), NEW i \in 1..Len(wires'[c]),
                   NEW u, u = wires'[c][i]
            PROVE  FromCall(u)'
        <5>1. CASE c \in 1..Len(wires) /\ i \in 1..Len(wires[c])
                   /\ u = wires[c][i]
          BY <3>7, <5>1
        <5>2. CASE \E j \in 1..Len(us) : u = us[j]
          <6>1. PICK j \in 1..Len(us) : u = us[j]
            BY <5>2
          <6>2. QED
            BY <3>8, <6>1
        <5>3. QED
          BY <3>2, <4>1, <5>1, <5>2
      <4>2. QED
        BY <3>6, <4>1 DEF SentSoFar, FromCall
    <3>10. QED
      BY <3>2, <3>3, <3>4, <3>9
  <2> HIDE DEF Inv
  <2>3. CASE UNCHANGED vars
    <3>1. UNCHANGED <<sock, pc, post, left, posts, wires>>
      BY <2>3 DEF vars, local_vars
    <3>2. UnitsTyped' /\ OwnCalls' /\ UnitsInOrder'
      BY <3>1 DEF UnitsTyped, PcOK, OwnCalls, UnitsInOrder
    <3>3. SentSoFar'
      BY <3>1 DEF SentSoFar, FromCall, payload_len
    <3>4. QED
      BY <3>2, <3>3 DEF Inv
  <2>4. ASSUME NEW t \in Threads, NEW n \in Lens, Post(t, n) PROVE Inv'
    <3>1. /\ posts' = Append(posts, n) /\ posts \in Seq(Lens)
          /\ Len(posts') = Len(posts) + 1 /\ Len(posts) \in Nat
          /\ \A p \in 1..Len(posts) : posts'[p] = posts[p]
      BY <2>4 DEF Post, UnitsTyped
    <3>2. UnitsTyped'
      BY <2>4, <3>1 DEF Post, Goto, UnitsTyped, PcOK
    <3>3. OwnCalls'
      BY <2>4, <3>1, SMTT(20) DEF Post, Goto, UnitsTyped, PcOK, OwnCalls
    <3>4. ASSUME NEW s \in Threads, s # t, pc[s] # "idle"
          PROVE  payload_len(s)' = payload_len(s) /\ post'[s] = post[s]
      BY <2>4, <3>1, <3>4 DEF Post, UnitsTyped, OwnCalls, payload_len
    <3>5. \A s \in Threads :
            pc'[s] = "post_body" => left'[s] \in 1..payload_len(s)'
      BY <2>4, <3>4 DEF Post, Goto, UnitsTyped, PcOK, SentSoFar
    <3>6. ASSUME NEW c \in 1..Len(wires), NEW i \in 1..Len(wires[c])
          PROVE  FromCall(wires[c][i])'
      <4>1. FromCall(wires[c][i])
        BY DEF SentSoFar
      <4>2. ASSUME NEW s \in Threads, pc'[s] # "idle",
                   post'[s] = wires[c][i].post
            PROVE  s # t /\ pc[s] # "idle" /\ pc'[s] = pc[s]
        BY <2>4, <3>1, <4>1, <4>2, SMTT(20) DEF Post, Goto, UnitsTyped, PcOK, FromCall
      <4>3. QED
        BY <2>4, <3>1, <3>4, <4>1, <4>2 DEF Post, FromCall
    <3>7. UnitsInOrder'
      BY <2>4, SMTT(20) DEF Post, UnitsInOrder
    <3>8. QED
      BY <2>4, <3>2, <3>3, <3>5, <3>6, <3>7 DEF Inv, SentSoFar, Post
  <2>5. ASSUME NEW t \in Threads, ConnectSucceeds(t) PROVE Inv'
    <3>1. Len(wires) \in Nat /\ wires' = Append(wires, <<>>) /\ wires' # <<>>
          /\ wires' \in Seq(Seq(Units)) /\ Len(wires') = Len(wires) + 1
          /\ \A c \in 1..Len(wires) : wires'[c] = wires[c]
          /\ Len(wires'[Len(wires) + 1]) = 0
      <4>1. wires \in Seq(Seq(Units)) /\ <<>> \in Seq(Units)
        BY DEF UnitsTyped
      <4>2. wires' = Append(wires, <<>>)
        BY <2>5 DEF ConnectSucceeds
      <4>3. /\ wires' \in Seq(Seq(Units)) /\ Len(wires') = Len(wires) + 1
            /\ Len(wires) \in Nat
            /\ \A c \in 1..Len(wires) : wires'[c] = wires[c]
            /\ wires'[Len(wires) + 1] = <<>>
        BY <4>1, <4>2, AppendProperties
      <4>4. QED
        BY <4>2, <4>3
    <3>2. UnitsTyped'
      BY <2>5, <3>1 DEF ConnectSucceeds, Goto, UnitsTyped, PcOK
    <3>3. OwnCalls'
      BY <2>5 DEF ConnectSucceeds, Goto, UnitsTyped, PcOK, OwnCalls
    <3>4. \A s \in Threads :
            pc'[s] = "post_body" => left'[s] \in 1..payload_len(s)'
      BY <2>5 DEF ConnectSucceeds, Goto, UnitsTyped, PcOK, SentSoFar, payload_len
    <3>5. ASSUME NEW c \in 1..Len(wires'), NEW i \in 1..Len(wires'[c])
          PROVE  c \in 1..Len(wires) /\ wires'[c] = wires[c]
                 /\ FromCall(wires[c][i])'
      <4>1. c \in 1..Len(wires) /\ wires'[c] = wires[c]
        BY <3>1
      <4>2. FromCall(wires[c][i])
        BY <4>1 DEF SentSoFar
      <4>3. QED
        BY <2>5, <4>1, <4>2 DEF ConnectSucceeds, Goto, UnitsTyped, PcOK,
                                FromCall, payload_len
    <3>6. UnitsInOrder'
      BY <3>5 DEF UnitsInOrder
    <3>7. QED
      BY <3>2, <3>3, <3>4, <3>5, <3>6 DEF Inv, SentSoFar
  <2>6. ASSUME NEW t \in Threads, ConnectFails(t) \/ SetFlag(t) \/ ClearFlag(t)
        PROVE  Inv'
    <3>1. UNCHANGED <<post, posts, wires, sock, left>> /\ left[t] \in Nat
          /\ left' = [left EXCEPT ![t] = left[t]]
      BY <2>6 DEF ConnectFails, SetFlag, ClearFlag, UnitsTyped
    <3>2. PICK label \in {"idle", "refused", "return"} :
            /\ pc' = [pc EXCEPT ![t] = label]
            /\ pc[t] \in {"connect", "connected", "refused"} \/ label = "idle"
            /\ pc[t] # "idle"
      BY <2>6 DEF ConnectFails, SetFlag, ClearFlag, Goto, Returns
    <3>3. QED
      BY <2>1, <3>1, <3>2 DEF UnitsTyped
  <2>7. ASSUME NEW t \in Threads, ReturnFlag(t) PROVE Inv'
    <3>1. UNCHANGED <<post, posts, wires, sock>> /\ pc[t] = "return"
      BY <2>7 DEF ReturnFlag
    <3>2. \/ /\ pc' = [pc EXCEPT ![t] = "post_len"]
             /\ left' = [left EXCEPT ![t] = 1]
          \/ /\ pc' = [pc EXCEPT ![t] = "idle"]
             /\ left' = [left EXCEPT ![t] = left[t]] /\ left[t] \in Nat
      BY <2>7 DEF ReturnFlag, Goto, Returns, UnitsTyped
    <3>3. QED
      BY <2>1, <3>1, <3>2 DEF UnitsTyped
  <2>8. ASSUME NEW t \in Threads, BeginBody(t), pc[t] = "post_len"
        PROVE  /\ payload_len(t) \in Nat
               /\ left' = [left EXCEPT ![t] = payload_len(t)]
               /\ \/ payload_len(t) = 0 /\ pc' = [pc EXCEPT ![t] = "idle"]
                  \/ payload_len(t) # 0 /\ pc' = [pc EXCEPT ![t] = "post_body"]
    <3>1. payload_len(t) \in Nat
      BY <2>8, CallTyped
    <3>2. QED
      BY <2>8, <3>1 DEF BeginBody, Goto, Returns
  <2>9. ASSUME NEW t \in Threads, SendLenFails(t) PROVE Inv'
    <3>1. UNCHANGED <<post, posts, wires, sock>> /\ pc[t] = "post_len"
          /\ BeginBody(t)
      BY <2>9 DEF SendLenFails
    <3>2. QED
      BY <2>1, <2>8, <3>1 DEF UnitsTyped
  <2>10. ASSUME NEW t \in Threads, SendLen(t) PROVE Inv'
    <3> DEFINE us == <<[post |-> post[t], unit |-> 0]>>
    <3>1. UNCHANGED <<post, posts, sock>> /\ pc[t] = "post_len"
          /\ BeginBody(t) /\ Send(us)
      BY <2>10 DEF SendLen
    <3>2. /\ us \in Seq(Units) /\ Len(us) = 1 /\ us[1].post = post[t]
          /\ us[1].unit = 0
      <4>1. post[t] \in Posts
        BY <3>1 DEF OwnCalls, UnitsTyped, Posts
      <4>2. QED
        BY <4>1 DEF Units
    <3> HIDE DEF us
    <3>3. Rising(us)
      BY <3>2 DEF Rising
    <3>4. \A j \in 1..Len(us) : us[j].post = post[t] /\ us[j].unit = 0
      BY <3>2
    <3>5. QED
      BY <2>2, <2>8, <3>1, <3>2, <3>3, <3>4
  <2>11. ASSUME NEW t \in Threads, SendBody(t) PROVE Inv'
    <3>1. PICK k \in 1..left[t] : Send(NextUnits(t, k)) /\ SentSome(t, k)
      BY <2>11 DEF SendBody
    <3>2. UNCHANGED <<post, posts, sock>> /\ pc[t] = "post_body"
      BY <2>11 DEF SendBody
    <3>3. /\ post[t] \in Posts /\ payload_len(t) \in Nat
          /\ left[t] \in 1..payload_len(t) /\ k \in Nat \ {0}
      BY <3>2, CallTyped DEF SentSoFar
    <3> DEFINE us == NextUnits(t, k)
    <3>4. /\ us \in Seq(Units) /\ Len(us) = k
          /\ \A j \in 1..k : /\ us[j].post = post[t]
                              /\ us[j].unit = payload_len(t) - left[t] + j
      <4>1. \A i \in 1..k : payload_len(t) - left[t] + i \in Nat
        BY <3>3
      <4>2. us \in [1..k -> Units]
        BY <3>3, <4>1 DEF NextUnits, Units
      <4>3. us \in Seq(Units) /\ Len(us) = k
        BY <3>3, <4>2
      <4>4. QED
        BY <4>3 DEF NextUnits
    <3>5. Send(us)
      BY <3>1
    <3> HIDE DEF us
    <3>6. Rising(us)
      BY <3>3, <3>4 DEF Rising
    <3>7. /\ left' = [left EXCEPT ![t] = left[t] - k] /\ left[t] - k \in Nat
          /\ \/ k = left[t] /\ pc' = [pc EXCEPT ![t] = "idle"]
             \/ left[t] - k \in 1..payload_len(t)
                /\ pc' = [pc EXCEPT ![t] = "post_body"]
      BY <3>1, <3>2, <3>3 DEF SentSome, Returns, Goto, UnitsTyped, PcOK
    <3>8. \A j \in 1..Len(us) : /\ us[j].post = post[t]
                                /\ us[j].unit > payload_len(t) - left[t]
                                /\ us[j].unit <= payload_len(t) - (left[t] - k)
      BY <3>3, <3>4
    <3>9. left[t] - k <= left[t]
      BY <3>3
    <3>10. QED
      BY <2>2, <3>2, <3>4, <3>5, <3>6, <3>7, <3>8, <3>9
  <2>12. ASSUME NEW t \in Threads, SendBodyFails(t) PROVE Inv'
    <3>1. UNCHANGED <<post, posts, wires, sock>> /\ pc[t] = "post_body"
          /\ left' = [left EXCEPT ![t] = 0]
      BY <2>12 DEF SendBodyFails
    <3>2. PICK label \in {"idle", "aborted"} : pc' = [pc EXCEPT ![t] = label]
      BY <2>12 DEF SendBodyFails, Goto, Returns
    <3>3. QED
      BY <2>1, <3>1, <3>2 DEF UnitsTyped
  <2>13. CASE Break
    BY <2>13 DEF Break, local_vars, Inv, UnitsTyped, PcOK, OwnCalls, SentSoFar,
                 FromCall, payload_len, UnitsInOrder
  <2>14. QED
    BY <2>3, <2>4, <2>5, <2>6, <2>7, <2>9, <2>10, <2>11, <2>12, <2>13 DEF Next
<1>3. Inv <=> CallsOK
  BY DEF CallsOK
<1>4. QED
  BY <1>1, <1>2, <1>3, PTL DEF Spec

(* However the threads race, a connection carries the units of each call   *)
(* in their order and none twice.                                          *)
THEOREM UnitsInOrderAlways == Spec => []UnitsInOrder
<1>1. CallsOK => UnitsInOrder
  BY DEF CallsOK
<1>2. QED
  BY <1>1, CallsKept, PTL

-----------------------------------------------------------------------------
(* A client that is used by one thread keeps the server in step.  What     *)
(* carries this: on a connection that is up the last unit is the last one  *)
(* of a packet, or the one before those that `left' says are to come.      *)

ResultsOK ==
  /\ result \in [Posts -> {"none", "sent", "failed", "broken"}]
  /\ \A p \in Posts : p > Len(posts) => result[p] = "none"
  /\ glitch \in BOOLEAN

Current == wires[Len(wires)]

(* The unit b may come after the unit a.                                   *)
Follows(a, b) == IF a.unit < posts[a.post]
                 THEN b = [a EXCEPT !.unit = @ + 1] ELSE b.unit = 0

Complete(w) == w # <<>> => ~(w[Len(w)].unit < posts[w[Len(w)].post])
InCall(t, w) ==
  /\ w # <<>>
  /\ w[Len(w)] = [post |-> post[t], unit |-> payload_len(t) - left[t]]
  /\ \A u \in 0..payload_len(t) - left[t] :
       \E i \in 1..Len(w) : w[i] = [post |-> post[t], unit |-> u]

Alone == OneThread /\ ~glitch

FramedSoFar ==
  Alone =>
    /\ \A c \in 1..Len(wires) : Framed(wires[c])
    /\ sock = "connected" =>
         /\ \A t \in Threads : pc[t] = "post_body" => InCall(t, Current)
         /\ (\A t \in Threads : pc[t] # "post_body") => Complete(Current)

(* A sequence that begins with a length, or follows what is there, may be  *)
(* appended.                                                               *)
LEMMA FramedConcat ==
  ASSUME NEW w \in Seq(Units), Framed(w), NEW us \in Seq(Units), us # <<>>,
         IF w = <<>> THEN us[1].unit = 0 ELSE Follows(w[Len(w)], us[1]),
         \A j \in 2..Len(us) : Follows(us[j - 1], us[j])
  PROVE  Framed(w \o us)
<1> DEFINE v == w \o us
<1>1. /\ Len(w) \in Nat /\ Len(us) \in Nat \ {0} /\ Len(v) = Len(w) + Len(us)
      /\ \A i \in 1..Len(w) : v[i] = w[i]
      /\ \A j \in 1..Len(us) : v[Len(w) + j] = us[j]
      /\ (w = <<>> <=> Len(w) = 0)
  OBVIOUS
<1> HIDE DEF v
<1>2. v[1].unit = 0
  <2>1. CASE w = <<>>
    <3>1. v[1] = us[1]
      BY <1>1, <2>1
    <3>2. QED
      BY <2>1, <3>1
  <2>2. CASE w # <<>>
    BY <1>1, <2>2 DEF Framed
  <2>3. QED
    BY <2>1, <2>2
<1>3. ASSUME NEW i \in 2..Len(v) PROVE Follows(v[i - 1], v[i])
  <2>1. CASE i <= Len(w)
    <3>1. i \in 2..Len(w) /\ v[i] = w[i] /\ v[i - 1] = w[i - 1]
      BY <1>1, <2>1
    <3>2. QED
      BY <3>1 DEF Framed, Follows
  <2>2. CASE i = Len(w) + 1
    <3>1. v[i] = us[1] /\ w # <<>> /\ v[i - 1] = w[Len(w)]
      BY <1>1, <2>2
    <3>2. QED
      BY <3>1
  <2>3. CASE i > Len(w) + 1
    <3> DEFINE j == i - Len(w)
    <3>1. j \in 2..Len(us) /\ v[i] = us[j] /\ v[i - 1] = us[j - 1]
      <4>1. /\ j \in 1..Len(us) /\ j - 1 \in 1..Len(us) /\ j >= 2
            /\ i = Len(w) + j /\ i - 1 = Len(w) + (j - 1)
        BY <1>1, <2>3
      <4> HIDE DEF j
      <4>2. v[Len(w) + j] = us[j] /\ v[Len(w) + (j - 1)] = us[j - 1]
        BY <1>1, <4>1
      <4>3. v[i] = us[j] /\ v[i - 1] = us[j - 1]
        BY <4>1, <4>2
      <4>4. j \in 2..Len(us)
        BY <1>1, <4>1
      <4>5. QED
        BY <4>3, <4>4
    <3>2. QED
      BY <3>1
  <2>4. QED
    BY <1>1, <2>1, <2>2, <2>3
<1>4. QED
  BY <1>2, <1>3 DEF Framed, Follows, v

(* What a call is known to be of does not change when another one begins.  *)
FramedBy(w, ps) ==
  /\ w # <<>> => w[1].unit = 0
  /\ \A i \in 2..Len(w) :
       IF w[i - 1].unit < ps[w[i - 1].post]
       THEN w[i] = [w[i - 1] EXCEPT !.unit = @ + 1]
       ELSE w[i].unit = 0

LEMMA FramedStays ==
  ASSUME NEW w \in Seq(Units), NEW ps \in Seq(Nat), NEW qs,
         \A p \in 1..Len(ps) : qs[p] = ps[p],
         \A i \in 1..Len(w) : w[i].post \in 1..Len(ps), FramedBy(w, ps)
  PROVE  FramedBy(w, qs)
<1>1. \A i \in 2..Len(w) : i - 1 \in 1..Len(w)
  OBVIOUS
<1>2. QED
  BY <1>1 DEF FramedBy

(* A thread that is alone is the only one inside post().                   *)
LEMMA OnlyThread ==
  ASSUME CallsOK, OneThread, NEW s \in Threads, NEW t \in Threads,
         pc[s] # "idle", pc[t] # "idle"
  PROVE  s = t
<1>1. post[s] # 0 /\ post[t] # 0
  BY DEF CallsOK, OwnCalls
<1>2. QED
  BY <1>1 DEF OneThread

(* The wires and the calls in a step that keeps the typing.                *)
LEMMA WiresTyped ==
  ASSUME CallsOK
  PROVE  /\ wires \in Seq(Seq(Units)) /\ Len(wires) \in Nat
         /\ \A c \in 1..Len(wires) :
              /\ wires[c] \in Seq(Units)
              /\ \A i \in 1..Len(wires[c]) : /\ wires[c][i] \in Units
                                              /\ wires[c][i].post \in 1..Len(posts)
         /\ posts \in Seq(Nat) /\ Len(posts) \in Nat
         /\ sock = "connected" => Len(wires) \in 1..Len(wires) /\ wires # <<>>
<1>1. wires \in Seq(Seq(Units)) /\ posts \in Seq(Lens)
      /\ (sock = "connected" => wires # <<>>)
  BY DEF CallsOK, UnitsTyped
<1>2. posts \in Seq(Nat) /\ Len(posts) \in Nat
  <2>0. Lens \subseteq Nat /\ \A i \in 1..Len(posts) : posts[i] \in Lens
    BY <1>1, ClientAssumption DEF ClientAssumption
  <2>1. \A i \in 1..Len(posts) : posts[i] \in Nat
    BY <2>0
  <2>2. posts = [i \in 1..Len(posts) |-> posts[i]] /\ Len(posts) \in Nat
    BY <1>1
  <2>3. QED
    BY <2>1, <2>2
<1>3. \A c \in 1..Len(wires) : \A i \in 1..Len(wires[c]) :
        wires[c][i].post \in 1..Len(posts)
  BY DEF CallsOK, SentSoFar, FromCall
<1>4. QED
  BY <1>1, <1>2, <1>3

(* Send() extends the current connection and leaves the others.            *)
LEMMA SendExtends ==
  ASSUME CallsOK, NEW us \in Seq(Units), Send(us)
  PROVE  /\ sock = "connected" /\ Len(wires') = Len(wires)
         /\ wires'[Len(wires)] = Current \o us /\ Current' = Current \o us
         /\ \A c \in 1..Len(wires) : c # Len(wires) => wires'[c] = wires[c]
<1>1. /\ wires \in Seq(Seq(Units)) /\ Len(wires) \in 1..Len(wires)
      /\ wires' = [wires EXCEPT ![Len(wires)] = wires[Len(wires)] \o us]
      /\ sock = "connected"
  BY WiresTyped DEF Send
<1>2. QED
  BY <1>1 DEF Current

LEMMA AloneStays ==
  ASSUME CallsOK, ResultsOK, [Next]_vars
  PROVE  /\ Alone' => Alone
         /\ \A p \in 1..Len(posts) : posts'[p] = posts[p]
         /\ Len(posts') >= Len(posts)
<1> USE DEF Alone, OneThread
<1>0. posts \in Seq(Nat) /\ post \in [Threads -> 0..MaxPosts] /\ Len(posts) \in Nat
      /\ glitch \in BOOLEAN
  BY WiresTyped DEF CallsOK, UnitsTyped, ResultsOK
<1>1. ASSUME post' = post, posts' = posts, glitch' = glitch \/ SendFailed
      PROVE  (Alone' => Alone) /\ \A p \in 1..Len(posts) : posts'[p] = posts[p]
             /\ Len(posts') >= Len(posts)
  BY <1>0, <1>1 DEF SendFailed
<1>2. ASSUME NEW t \in Threads, NEW n \in Lens, Post(t, n)
      PROVE  (Alone' => Alone) /\ \A p \in 1..Len(posts) : posts'[p] = posts[p]
             /\ Len(posts') >= Len(posts)
  <2>1. n \in Nat
    BY ClientAssumption DEF ClientAssumption
  <2>2. /\ posts' = Append(posts, n) /\ glitch' = glitch
        /\ post' = [post EXCEPT ![t] = Len(posts) + 1]
    BY <1>2 DEF Post
  <2>3. \A s \in Threads : post[s] # 0 => post'[s] # 0
    BY <1>0, <2>2
  <2>4. QED
    BY <1>0, <2>1, <2>2, <2>3
<1>3. ASSUME NEW t \in Threads,
             \/ ConnectSucceeds(t) \/ ConnectFails(t) \/ SetFlag(t)
             \/ ReturnFlag(t) \/ SendLen(t) \/ SendLenFails(t) \/ SendBody(t)
             \/ SendBodyFails(t) \/ ClearFlag(t)
      PROVE  post' = post /\ posts' = posts /\ (glitch' = glitch \/ SendFailed)
  BY <1>3 DEF ConnectSucceeds, ConnectFails, SetFlag, ReturnFlag, SendLen,
     SendLenFails, SendBody, SendBodyFails, ClearFlag
<1>4. CASE Break \/ UNCHANGED vars
  BY <1>1, <1>4 DEF Break, vars, local_vars
<1>5. QED
  BY <1>1, <1>2, <1>3, <1>4 DEF Next

LEMMA ConcatEnds ==
  ASSUME NEW w \in Seq(Units), NEW us \in Seq(Units), us # <<>>
  PROVE  /\ w \o us # <<>> /\ (w \o us)[Len(w \o us)] = us[Len(us)]
         /\ \A i \in 1..Len(w) : i \in 1..Len(w \o us) /\ (w \o us)[i] = w[i]
         /\ \A j \in 1..Len(us) : /\ Len(w) + j \in 1..Len(w \o us)
                                  /\ (w \o us)[Len(w) + j] = us[j]
  OBVIOUS

(* The units of a packet that SendBody sends.                              *)
LEMMA NextUnitsSent ==
  ASSUME CallsOK, NEW t \in Threads, pc[t] = "post_body", NEW k \in 1..left[t]
  PROVE  /\ NextUnits(t, k) \in Seq(Units) /\ Len(NextUnits(t, k)) = k
         /\ NextUnits(t, k) # <<>>
         /\ \A j \in 1..k : NextUnits(t, k)[j] =
              [post |-> post[t], unit |-> payload_len(t) - left[t] + j]
         /\ payload_len(t) \in Nat /\ left[t] \in 1..payload_len(t)
         /\ post[t] \in Posts
<1>1. /\ post[t] \in Posts /\ payload_len(t) \in Nat
      /\ left[t] \in 1..payload_len(t) /\ k \in Nat \ {0}
  BY CallTyped DEF CallsOK, SentSoFar
<1> DEFINE us == NextUnits(t, k)
<1>2. \A i \in 1..k : payload_len(t) - left[t] + i \in Nat
  BY <1>1
<1>3. us \in [1..k -> Units]
  BY <1>1, <1>2 DEF NextUnits, Units
<1>4. us \in Seq(Units) /\ Len(us) = k
  BY <1>1, <1>3
<1>5. \A j \in 1..k : us[j] = [post |-> post[t],
                               unit |-> payload_len(t) - left[t] + j]
  BY DEF NextUnits
<1> HIDE DEF us
<1>6. us # <<>>
  BY <1>1, <1>4
<1>7. QED
  BY <1>1, <1>4, <1>5, <1>6 DEF us

(* What is on the connection when SendBody has sent the next k units.      *)
LEMMA BodySent ==
  ASSUME CallsOK, FramedSoFar, Alone, NEW t \in Threads, pc[t] = "post_body",
         NEW k \in 1..left[t], Send(NextUnits(t, k))
  PROVE  \A u \in 0..payload_len(t) - left[t] + k :
           \E i \in 1..Len(Current') : Current'[i] = [post |-> post[t], unit |-> u]
<1> DEFINE us == NextUnits(t, k)
           from == payload_len(t) - left[t]
<1>1. /\ us \in Seq(Units) /\ Len(us) = k /\ us # <<>> /\ k \in Nat
      /\ \A j \in 1..k : us[j] = [post |-> post[t], unit |-> from + j]
      /\ from \in Nat
  BY NextUnitsSent
<1>2. Send(us)
  OBVIOUS
<1> HIDE DEF us
<1>3. Current' = Current \o us /\ sock = "connected" /\ Current \in Seq(Units)
  BY <1>1, <1>2, SendExtends, WiresTyped DEF Current
<1>4. \A u \in 0..from : \E i \in 1..Len(Current) :
        Current[i] = [post |-> post[t], unit |-> u]
  BY <1>3 DEF FramedSoFar, InCall
<1>5. /\ \A i \in 1..Len(Current) : i \in 1..Len(Current')
                                     /\ Current'[i] = Current[i]
      /\ \A j \in 1..k : Len(Current) + j \in 1..Len(Current')
                          /\ Current'[Len(Current) + j] = us[j]
  BY <1>1, <1>3, ConcatEnds
<1> HIDE DEF from
<1>6. ASSUME NEW u \in 0..from + k
      PROVE  \E i \in 1..Len(Current') : Current'[i] = [post |-> post[t], unit |-> u]
  <2>1. CASE u \in 0..from
    BY <1>4, <1>5, <2>1
  <2>2. CASE u \notin 0..from
    <3>1. u - from \in 1..k /\ from + (u - from) = u
      BY <1>1, <1>6, <2>2
    <3>2. QED
      BY <1>1, <1>5, <3>1
  <2>3. QED
    BY <2>1, <2>2
<1>7. QED
  BY <1>6 DEF from

LEMMA FramedStep ==
  ASSUME CallsOK, CallsOK', ResultsOK, FramedSoFar, [Next]_vars
  PROVE  FramedSoFar'
<1>1. /\ Alone' => Alone
      /\ \A p \in 1..Len(posts) : posts'[p] = posts[p]
      /\ Len(posts') >= Len(posts)
  BY AloneStays
\* What is on a connection stays framed.
<1>2. ASSUME Alone', NEW c \in 1..Len(wires), wires'[c] = wires[c]
      PROVE  Framed(wires[c])'
  <2>1. Framed(wires[c])
    BY <1>1, <1>2 DEF FramedSoFar
  <2>2. FramedBy(wires[c], posts)
    BY <2>1 DEF Framed, FramedBy
  <2>3. FramedBy(wires[c], posts')
    BY <1>1, <2>2, WiresTyped, FramedStays
  <2>4. QED
    BY <1>2, <2>3 DEF Framed, FramedBy
<1>3. ASSUME Complete(Current), sock = "connected", Current' = Current
      PROVE  Complete(Current)'
  <2>1. Current \in Seq(Units)
        /\ \A i \in 1..Len(Current) : Current[i].post \in 1..Len(posts)
    BY <1>3, WiresTyped DEF Current
  <2>2. CASE Current = <<>>
    BY <1>3, <2>2 DEF Complete
  <2>3. CASE Current # <<>>
    <3>1. Len(Current) \in 1..Len(Current)
      BY <2>1, <2>3
    <3>2. posts'[Current[Len(Current)].post] = posts[Current[Len(Current)].post]
      BY <1>1, <2>1, <3>1
    <3>3. QED
      BY <1>3, <2>3, <3>2 DEF Complete
  <2>4. QED
    BY <2>2, <2>3
\* Without a connection nothing is to be shown but what is on the wires.
<1>4. ASSUME wires' = wires, Alone' => sock' # "connected"
      PROVE  FramedSoFar'
  <2>1. Alone' => \A c \in 1..Len(wires') : Framed(wires[c])'
    BY <1>2, <1>4
  <2>2. QED
    BY <1>4, <2>1 DEF FramedSoFar
\* A thread that is not sending a payload, before or after the step.
<1>5. ASSUME NEW t \in Threads, wires' = wires, sock' = sock,
             \A s \in Threads : s # t => pc'[s] = pc[s],
             pc'[t] # "idle" \/ pc[t] # "idle",
             pc[t] # "post_body", pc'[t] # "post_body",
             \A s \in Threads : s # t /\ Alone' => pc[s] = "idle"
      PROVE  FramedSoFar'
  <2> SUFFICES ASSUME Alone' PROVE FramedSoFar'
    BY DEF FramedSoFar
  <2>1. \A s \in Threads : pc[s] # "post_body" /\ pc'[s] # "post_body"
    BY <1>5
  <2>2. sock = "connected" => Complete(Current)'
    BY <1>1, <1>3, <1>5, <2>1 DEF FramedSoFar, Current
  <2>3. \A c \in 1..Len(wires') : Framed(wires[c])'
    BY <1>2, <1>5
  <2>4. QED
    BY <1>5, <2>1, <2>2, <2>3 DEF FramedSoFar
<1>6. ASSUME NEW t \in Threads, pc[t] # "idle", Alone'
      PROVE  \A s \in Threads : s # t => pc[s] = "idle"
  BY <1>1, <1>6, OnlyThread DEF Alone
<1>7. pc \in [Threads -> {"idle", "connect", "connected", "refused", "return",
                          "post_len", "post_body", "aborted"}]
  BY DEF CallsOK, UnitsTyped, PcOK
<1>8. CASE UNCHANGED vars \/ Break
  <2>1. CASE Break
    BY <1>4, <2>1 DEF Break
  <2>2. CASE UNCHANGED vars
    <3>1. UNCHANGED <<wires, pc, sock, post, posts, left, glitch>>
      BY <2>2 DEF vars, local_vars
    <3>2. QED
      BY <3>1 DEF FramedSoFar, Alone, OneThread, Framed, InCall, Complete,
         Current, payload_len
  <2>3. QED
    BY <1>8, <2>1, <2>2
<1>9. ASSUME NEW t \in Threads, NEW n \in Lens, Post(t, n) PROVE FramedSoFar'
  <2>1. /\ wires' = wires /\ sock' = sock /\ pc[t] = "idle"
        /\ pc'[t] \in {"return", "connect"} /\ \A s \in Threads : s # t => pc'[s] = pc[s]
        /\ post' = [post EXCEPT ![t] = Len(posts) + 1]
    BY <1>7, <1>9 DEF Post, Goto
  <2>2. post'[t] # 0 /\ \A s \in Threads : s # t => post'[s] = post[s]
    BY <2>1, WiresTyped DEF CallsOK, UnitsTyped
  <2>3. ASSUME NEW s \in Threads, s # t, Alone' PROVE pc[s] = "idle"
    <3>1. post'[s] = 0
      BY <2>2, <2>3 DEF Alone, OneThread
    <3>2. QED
      BY <2>2, <2>3, <3>1 DEF CallsOK, OwnCalls
  <2>4. QED
    BY <1>5, <2>1, <2>3
<1>10. ASSUME NEW t \in Threads, ConnectFails(t) \/ SetFlag(t) \/ ReturnFlag(t)
                                 \/ ClearFlag(t)
       PROVE  FramedSoFar'
  <2>1. /\ wires' = wires /\ sock' = sock
        /\ pc[t] \notin {"idle", "post_body"} /\ pc'[t] # "post_body"
        /\ \A s \in Threads : s # t => pc'[s] = pc[s]
    BY <1>7, <1>10 DEF ConnectFails, SetFlag, ReturnFlag, ClearFlag, Goto, Returns
  <2>2. QED
    BY <1>5, <1>6, <2>1
<1>11. ASSUME NEW t \in Threads, SendLenFails(t) \/ SendBodyFails(t)
       PROVE  FramedSoFar'
  <2>1. wires' = wires /\ sock' = sock /\ (~glitch' => sock # "connected")
    BY <1>11 DEF SendLenFails, SendBodyFails, SendFailed, ResultsOK
  <2>2. QED
    BY <1>4, <2>1 DEF Alone
<1>12. ASSUME NEW t \in Threads, ConnectSucceeds(t) PROVE FramedSoFar'
  <2> SUFFICES ASSUME Alone' PROVE FramedSoFar'
    BY DEF FramedSoFar
  <2>1. /\ wires' = Append(wires, <<>>) /\ pc[t] = "connect" /\ pc'[t] = "connected"
        /\ \A s \in Threads : s # t => pc'[s] = pc[s]
    BY <1>7, <1>12 DEF ConnectSucceeds, Goto
  <2>2. \A s \in Threads : pc'[s] # "post_body"
    BY <1>6, <2>1
  <2>3. /\ Len(wires') = Len(wires) + 1 /\ Len(wires) \in Nat
        /\ \A c \in 1..Len(wires) : wires'[c] = wires[c]
        /\ wires'[Len(wires) + 1] = <<>>
    BY <2>1, WiresTyped, AppendProperties
  <2>4. Complete(Current)' /\ Framed(<<>>)'
    BY <2>3 DEF Complete, Current, Framed
  <2>5. ASSUME NEW c \in 1..Len(wires') PROVE Framed(wires[c])'
    <3>1. CASE c \in 1..Len(wires)
      BY <1>2, <2>3, <3>1
    <3>2. CASE c \notin 1..Len(wires)
      <4>1. wires'[c] = <<>>
        BY <2>3, <3>2
      <4>2. QED
        BY <4>1 DEF Framed
    <3>3. QED
      BY <3>1, <3>2
  <2>6. QED
    BY <2>2, <2>4, <2>5 DEF FramedSoFar
\* What send() adds follows what is there.
<1>13. ASSUME NEW t \in Threads, pc[t] # "idle", NEW us \in Seq(Units), us # <<>>,
              Send(us), sock' = sock, posts' = posts, Alone',
              IF Current = <<>> THEN us[1].unit = 0
                ELSE Follows(Current[Len(Current)], us[1]),
              \A j \in 2..Len(us) : Follows(us[j - 1], us[j]),
              pc'[t] = "post_body" => InCall(t, Current)',
              pc'[t] # "post_body" => Complete(Current)',
              \A s \in Threads : s # t => pc'[s] = pc[s]
       PROVE  FramedSoFar'
  <2>1. /\ sock = "connected" /\ Len(wires') = Len(wires)
        /\ wires'[Len(wires)] = Current \o us
        /\ \A c \in 1..Len(wires) : c # Len(wires) => wires'[c] = wires[c]
    BY <1>13, SendExtends
  <2>2. Current \in Seq(Units) /\ Framed(Current)
    BY <1>1, <1>13, <2>1, WiresTyped DEF Current, FramedSoFar
  <2>3. Framed(Current \o us)
    BY <1>13, <2>2, FramedConcat
  <2>4. \A c \in 1..Len(wires') : Framed(wires[c])'
    <3> SUFFICES ASSUME NEW c \in 1..Len(wires') PROVE Framed(wires[c])'
      OBVIOUS
    <3>1. CASE c = Len(wires)
      BY <1>13, <2>1, <2>3, <3>1 DEF Framed
    <3>2. CASE c # Len(wires)
      BY <1>2, <1>13, <2>1, <3>2
    <3>3. QED
      BY <3>1, <3>2
  <2>5. \A s \in Threads : s # t => pc'[s] # "post_body"
    BY <1>6, <1>13
  <2>6. QED
    BY <1>13, <2>4, <2>5 DEF FramedSoFar
<1>14. ASSUME NEW t \in Threads, SendLen(t), Alone' PROVE FramedSoFar'
  <2> DEFINE us == <<[post |-> post[t], unit |-> 0]>>
  <2>1. /\ pc[t] = "post_len" /\ Send(us) /\ BeginBody(t)
        /\ UNCHANGED <<sock, post, posts>>
    BY <1>14 DEF SendLen
  <2>2. post[t] \in Posts /\ payload_len(t) \in Nat /\ payload_len(t)' = payload_len(t)
    BY <2>1, CallTyped DEF CallsOK, payload_len
  <2>3. /\ us \in Seq(Units) /\ us # <<>> /\ Len(us) = 1
        /\ us[1] = [post |-> post[t], unit |-> 0]
    BY <2>2 DEF Units
  <2> HIDE DEF us
  <2>4. Current' = Current \o us /\ sock = "connected" /\ Current \in Seq(Units)
    BY <2>1, <2>3, SendExtends, WiresTyped DEF Current
  <2>5. \A s \in Threads : pc[s] # "post_body"
    BY <1>6, <1>14, <2>1
  <2>6. Complete(Current)
    BY <1>1, <1>14, <2>4, <2>5 DEF FramedSoFar
  <2>7. IF Current = <<>> THEN us[1].unit = 0
          ELSE Follows(Current[Len(Current)], us[1])
    BY <2>3, <2>6 DEF Complete, Follows
  <2>8. \A s \in Threads : s # t => pc'[s] = pc[s]
    BY <1>7, <2>1 DEF BeginBody, Returns, Goto
  <2>9. /\ Current' # <<>> /\ Current'[Len(Current')] = us[1]
        /\ \E i \in 1..Len(Current') : Current'[i] = us[1]
    <3>1. /\ Current' # <<>> /\ Current'[Len(Current')] = us[1]
          /\ Len(Current) + 1 \in 1..Len(Current')
          /\ Current'[Len(Current) + 1] = us[1]
      BY <2>3, <2>4, ConcatEnds
    <3>2. QED
      BY <3>1
  <2>10. CASE payload_len(t) = 0
    <3>1. pc'[t] = "idle"
      BY <1>7, <2>1, <2>10 DEF BeginBody, Returns, Goto
    <3>2. posts'[post[t]] = 0
      BY <2>1, <2>10 DEF payload_len
    <3>3. Complete(Current)'
      BY <2>3, <2>9, <3>2 DEF Complete
    <3>4. QED
      BY <1>13, <1>14, <2>1, <2>3, <2>7, <2>8, <3>1, <3>3
  <2>11. CASE payload_len(t) # 0
    <3>1. pc'[t] = "post_body" /\ left'[t] = payload_len(t)
      BY <1>7, <2>1, <2>11 DEF BeginBody, Goto, CallsOK, UnitsTyped
    <3>2. payload_len(t)' - left'[t] = 0 /\ post'[t] = post[t]
      BY <2>1, <2>2, <3>1
    <3>3. \A u \in 0..0 : u = 0
      OBVIOUS
    <3>4. InCall(t, Current)'
      BY <2>3, <2>9, <3>2, <3>3 DEF InCall
    <3>5. QED
      BY <1>13, <1>14, <2>1, <2>3, <2>7, <2>8, <3>1, <3>4
  <2>12. QED
    BY <2>10, <2>11
<1>15. ASSUME NEW t \in Threads, SendBody(t), Alone' PROVE FramedSoFar'
  <2>1. pc[t] = "post_body" /\ UNCHANGED <<sock, post, posts>>
    BY <1>15 DEF SendBody
  <2>2. PICK k \in 1..left[t] : Send(NextUnits(t, k)) /\ SentSome(t, k)
    BY <1>15 DEF SendBody
  <2> DEFINE us == NextUnits(t, k)
             from == payload_len(t) - left[t]
  <2>3. /\ us \in Seq(Units) /\ Len(us) = k /\ us # <<>> /\ k \in 1..left[t]
        /\ \A j \in 1..k : us[j] = [post |-> post[t], unit |-> from + j]
        /\ payload_len(t) \in Nat /\ left[t] \in 1..payload_len(t)
    BY <2>1, NextUnitsSent
  <2>4. Send(us)
    BY <2>2
  <2> HIDE DEF us
  <2>5. Current' = Current \o us /\ sock = "connected" /\ Current \in Seq(Units)
    BY <2>3, <2>4, SendExtends, WiresTyped DEF Current
  <2>6. /\ Current # <<>>
        /\ Current[Len(Current)] = [post |-> post[t], unit |-> from]
    BY <1>1, <1>15, <2>1, <2>5 DEF FramedSoFar, InCall
  <2>7. from \in Nat /\ from < payload_len(t) /\ from + k <= payload_len(t)
        /\ payload_len(t)' = payload_len(t) /\ posts[post[t]] = payload_len(t)
    BY <2>1, <2>3 DEF payload_len
  <2> HIDE DEF from
  <2>8. ASSUME NEW i \in Nat, i < payload_len(t)
        PROVE  Follows([post |-> post[t], unit |-> i],
                       [post |-> post[t], unit |-> i + 1])
    BY <2>7, <2>8 DEF Follows
  <2>9. Follows(Current[Len(Current)], us[1])
    BY <2>3, <2>6, <2>7, <2>8
  <2>10. ASSUME NEW j \in 2..Len(us) PROVE Follows(us[j - 1], us[j])
    <3>1. /\ j - 1 \in 1..k /\ j \in 1..k /\ from + (j - 1) \in Nat
          /\ from + (j - 1) < payload_len(t) /\ from + (j - 1) + 1 = from + j
      BY <2>3, <2>7
    <3>2. QED
      BY <2>3, <2>8, <3>1
  <2>11. /\ Current' # <<>>
         /\ Current'[Len(Current')] = [post |-> post[t], unit |-> from + k]
    <3>1. k \in 1..Len(us)
      BY <2>3
    <3>2. QED
      BY <2>3, <2>5, <3>1, ConcatEnds
  <2>12. \A s \in Threads : s # t => pc'[s] = pc[s]
    BY <1>7, <2>2 DEF SentSome, Returns, Goto
  <2>13. CASE k = left[t]
    <3>1. pc'[t] = "idle"
      BY <1>7, <2>2, <2>13 DEF SentSome, Returns, Goto
    <3>2. from + k = payload_len(t) /\ posts' = posts
      BY <2>1, <2>3, <2>13 DEF from
    <3>3. Complete(Current)'
      BY <2>3, <2>7, <2>11, <3>2 DEF Complete
    <3>4. QED
      BY <1>13, <1>15, <2>1, <2>3, <2>4, <2>6, <2>9, <2>10, <2>12, <3>1, <3>3
  <2>14. CASE k # left[t]
    <3>1. pc'[t] = "post_body" /\ left'[t] = left[t] - k
      BY <2>1, <2>2, <2>14 DEF SentSome, CallsOK, UnitsTyped
    <3>2. payload_len(t)' - left'[t] = from + k /\ post'[t] = post[t]
      BY <2>1, <2>3, <2>7, <3>1 DEF from
    <3>3. \A u \in 0..from + k : \E i \in 1..Len(Current') :
            Current'[i] = [post |-> post[t], unit |-> u]
      BY <1>1, <1>15, <2>1, <2>2, BodySent DEF from
    <3>4. InCall(t, Current)'
      BY <2>11, <3>2, <3>3 DEF InCall
    <3>5. QED
      BY <1>13, <1>15, <2>1, <2>3, <2>4, <2>6, <2>9, <2>10, <2>12, <3>1, <3>4
  <2>15. QED
    BY <2>13, <2>14
<1>16. ASSUME NEW t \in Threads, SendLen(t) \/ SendBody(t) PROVE FramedSoFar'
  BY <1>14, <1>15, <1>16 DEF FramedSoFar
<1>17. QED
  BY <1>8, <1>9, <1>10, <1>11, <1>12, <1>16 DEF Next

(* The results, and whether send() has failed without cause, in a step.    *)
LEMMA ResultsStep ==
  ASSUME CallsOK, CallsOK', ResultsOK, [Next]_vars
  PROVE  ResultsOK'
<1>1. glitch' \in BOOLEAN
  BY DEF ResultsOK, vars, Next, Post, ConnectSucceeds, ConnectFails, SetFlag,
     ReturnFlag, SendLen, SendLenFails, SendBody, SendBodyFails, ClearFlag, Break,
     SendFailed
<1>2. /\ Len(posts) \in Nat /\ posts \in Seq(Nat)
      /\ result \in [Posts -> {"none", "sent", "failed", "broken"}]
      /\ \A p \in Posts : p > Len(posts) => result[p] = "none"
  BY WiresTyped DEF ResultsOK
<1>3. CASE result' = result /\ posts' = posts
  BY <1>1, <1>2, <1>3 DEF ResultsOK
<1>4. ASSUME NEW t \in Threads, pc[t] # "idle", posts' = posts,
             NEW v \in {"sent", "failed", "broken"}, Returns(t, v)
      PROVE  ResultsOK'
  <2>1. post[t] \in Posts /\ post[t] \in 1..Len(posts)
    BY <1>4, CallTyped DEF CallsOK, OwnCalls
  <2>2. result' = [result EXCEPT ![post[t]] = v]
    BY <1>4 DEF Returns
  <2>3. \A p \in Posts : p > Len(posts) => p # post[t]
    BY <1>2, <2>1
  <2>4. QED
    BY <1>1, <1>2, <1>4, <2>1, <2>2, <2>3 DEF ResultsOK
<1>5. ASSUME NEW t \in Threads, NEW n \in Lens, Post(t, n) PROVE ResultsOK'
  <2>1. n \in Nat
    BY ClientAssumption DEF ClientAssumption
  <2>2. result' = result /\ Len(posts') = Len(posts) + 1
    BY <1>2, <1>5, <2>1 DEF Post
  <2>3. \A p \in Posts : p > Len(posts) + 1 => p > Len(posts)
    BY <1>2 DEF Posts
  <2>4. QED
    BY <1>1, <1>2, <2>2, <2>3 DEF ResultsOK
<1>6. ASSUME NEW t \in Threads,
             \/ ConnectSucceeds(t) \/ ConnectFails(t) \/ SetFlag(t)
             \/ ReturnFlag(t) \/ SendLen(t) \/ SendLenFails(t) \/ SendBody(t)
             \/ SendBodyFails(t) \/ ClearFlag(t)
      PROVE  /\ posts' = posts /\ pc[t] # "idle"
             /\ \/ result' = result
                \/ \E v \in {"sent", "failed", "broken"} : Returns(t, v)
  BY <1>6 DEF ConnectSucceeds, ConnectFails, SetFlag, ReturnFlag, SendLen,
     SendLenFails, SendBody, SendBodyFails, ClearFlag, BeginBody, SentSome
<1>7. CASE Break \/ UNCHANGED vars
  BY <1>3, <1>7 DEF Break, vars
<1>8. QED
  BY <1>3, <1>4, <1>5, <1>6, <1>7 DEF Next

FramedInv == CallsOK /\ ResultsOK /\ FramedSoFar

LEMMA FramedKept == Spec => []FramedInv
<1>1. Init => ResultsOK /\ FramedSoFar
  <2> SUFFICES ASSUME Init PROVE ResultsOK /\ FramedSoFar
    OBVIOUS
  <2>1. ResultsOK
    BY DEF Init, ResultsOK
  <2>2. \A c \in 1..Len(wires) : wires[c] = <<>>
    BY DEF Init
  <2>3. \A c \in 1..Len(wires) : Framed(wires[c])
    BY <2>2 DEF Framed
  <2>4. sock = "connected" => Current = <<>>
    BY DEF Init, Current
  <2>5. QED
    BY <2>1, <2>3, <2>4 DEF Init, FramedSoFar, Complete
<1>2. CallsOK /\ CallsOK' /\ ResultsOK /\ FramedSoFar /\ [Next]_vars
        => ResultsOK' /\ FramedSoFar'
  BY ResultsStep, FramedStep
<1>3. QED
  BY <1>1, <1>2, CallsKept, PTL DEF Spec, FramedInv

(* Every variable keeps its type; a connection has been made exactly when  *)
(* the socket is no longer fresh.                                          *)
THEOREM TypeCorrect == Spec => []TypeOK
<1> DEFINE Inv == /\ connection_flag \in BOOLEAN
                  /\ sock \in {"fresh", "connected", "broken"}
                  /\ sock = "fresh" <=> wires = <<>>
<1>1. Init => Inv
  BY DEF Init
<1>2. CallsOK /\ Inv /\ [Next]_vars => Inv'
  <2> SUFFICES ASSUME CallsOK, Inv, [Next]_vars PROVE Inv'
    OBVIOUS
  <2>1. ASSUME UNCHANGED <<sock, wires>>, connection_flag' \in BOOLEAN PROVE Inv'
    BY <2>1
  <2>2. ASSUME sock' = "connected", wires' # <<>>, UNCHANGED connection_flag
        PROVE  Inv'
    BY <2>2
  <2>3. ASSUME NEW t \in Threads, ConnectSucceeds(t) PROVE Inv'
    <3>1. wires' = Append(wires, <<>>) /\ wires \in Seq(Seq(Units))
      BY <2>3, WiresTyped DEF ConnectSucceeds
    <3>2. QED
      BY <2>2, <2>3, <3>1 DEF ConnectSucceeds
  <2>4. ASSUME NEW us, Send(us) PROVE sock = "connected" /\ wires' # <<>>
    <3>1. sock = "connected" /\ wires \in Seq(Seq(Units)) /\ wires # <<>>
      BY <2>4, WiresTyped DEF Send
    <3>2. DOMAIN wires' = DOMAIN wires
      BY <2>4 DEF Send
    <3>3. QED
      BY <3>1, <3>2
  <2>5. ASSUME NEW t \in Threads, SendLen(t) \/ SendBody(t) PROVE Inv'
    <3>1. UNCHANGED <<sock, connection_flag>> /\ \E us : Send(us)
      BY <2>5 DEF SendLen, SendBody
    <3>2. QED
      BY <2>2, <2>4, <3>1
  <2>6. ASSUME NEW t \in Threads,
               \/ \E n \in Lens : Post(t, n)
               \/ ConnectFails(t) \/ SetFlag(t) \/ ReturnFlag(t)
               \/ SendLenFails(t) \/ SendBodyFails(t) \/ ClearFlag(t)
        PROVE  Inv'
    BY <2>1, <2>6 DEF Post, ConnectFails, SetFlag, ReturnFlag, SendLenFails,
       SendBodyFails, ClearFlag
  <2>7. CASE Break
    BY <2>7 DEF Break
  <2>8. CASE UNCHANGED vars
    BY <2>1, <2>8 DEF vars
  <2>9. QED
    BY <2>3, <2>5, <2>6, <2>7, <2>8 DEF Next
<1>3. FramedInv /\ Inv => TypeOK
  BY DEF FramedInv, CallsOK, UnitsTyped, PcOK, ResultsOK, TypeOK
<1>4. QED
  BY <1>1, <1>2, <1>3, FramedKept, CallsKept, PTL DEF Spec

(* A client used by one thread never puts the server out of step, whatever *)
(* part of a packet a send() takes and however often the connection breaks.*)
THEOREM AlwaysFramedAlways == Spec => []AlwaysFramed
<1>1. FramedInv => AlwaysFramed
  BY DEF FramedInv, FramedSoFar, Alone, AlwaysFramed
<1>2. QED
  BY <1>1, FramedKept, PTL

(* What is on a connection stays there.                                    *)
LEMMA WiresGrow ==
  ASSUME CallsOK, [Next]_vars, NEW c \in 1..Len(wires)
  PROVE  /\ c \in 1..Len(wires')
         /\ \A i \in 1..Len(wires[c]) : /\ i \in 1..Len(wires'[c])
                                         /\ wires'[c][i] = wires[c][i]
<1>1. CASE wires' = wires
  BY <1>1
<1>2. ASSUME NEW t \in Threads, ConnectSucceeds(t)
      PROVE  c \in 1..Len(wires') /\ wires'[c] = wires[c]
  <2>1. /\ wires' = Append(wires, <<>>) /\ wires \in Seq(Seq(Units))
        /\ <<>> \in Seq(Units)
    BY <1>2, WiresTyped DEF ConnectSucceeds
  <2>2. QED
    BY <2>1, AppendProperties
<1>3. ASSUME NEW us \in Seq(Units), us # <<>>, Send(us)
      PROVE  /\ c \in 1..Len(wires')
             /\ \A i \in 1..Len(wires[c]) : /\ i \in 1..Len(wires'[c])
                                             /\ wires'[c][i] = wires[c][i]
  <2>1. /\ Len(wires') = Len(wires) /\ wires'[Len(wires)] = Current \o us
        /\ c # Len(wires) => wires'[c] = wires[c]
    BY <1>3, SendExtends
  <2>2. CASE c = Len(wires)
    BY <1>3, <2>1, <2>2, ConcatEnds, WiresTyped DEF Current
  <2>3. CASE c # Len(wires)
    BY <2>1, <2>3
  <2>4. QED
    BY <2>2, <2>3
<1>4. ASSUME NEW t \in Threads, SendLen(t)
      PROVE  \E us \in Seq(Units) : us # <<>> /\ Send(us)
  <2>1. post[t] \in Posts
    BY <1>4, CallTyped DEF SendLen, CallsOK
  <2>2. <<[post |-> post[t], unit |-> 0]>> \in Seq(Units)
    BY <2>1 DEF Units
  <2>3. QED
    BY <1>4, <2>2 DEF SendLen
<1>5. ASSUME NEW t \in Threads, SendBody(t)
      PROVE  \E us \in Seq(Units) : us # <<>> /\ Send(us)
  <2>1. pc[t] = "post_body" /\ \E k \in 1..left[t] : Send(NextUnits(t, k))
    BY <1>5 DEF SendBody
  <2>2. QED
    BY <2>1, NextUnitsSent
<1>6. ASSUME NEW t \in Threads,
             \/ \E n \in Lens : Post(t, n)
             \/ ConnectFails(t) \/ SetFlag(t) \/ ReturnFlag(t) \/ SendLenFails(t)
             \/ SendBodyFails(t) \/ ClearFlag(t)
      PROVE  wires' = wires
  BY <1>6 DEF Post, ConnectFails, SetFlag, ReturnFlag, SendLenFails,
     SendBodyFails, ClearFlag
<1>7. CASE Break \/ UNCHANGED vars
  BY <1>1, <1>7 DEF Break, vars
<1>8. QED
  BY <1>1, <1>2, <1>3, <1>4, <1>5, <1>6, <1>7 DEF Next

LEMMA SentStep ==
  ASSUME CallsOK, CallsOK', ResultsOK, FramedSoFar, SentIsOnWire, [Next]_vars
  PROVE  SentIsOnWire'
<1>1. /\ Alone' => Alone
      /\ \A p \in 1..Len(posts) : posts'[p] = posts[p]
  BY AloneStays
<1>2. Len(posts) \in Nat /\ Len(posts') \in Nat /\ Len(posts') <= MaxPosts
  <2>1. posts' \in Seq(Lens) /\ Len(posts') <= MaxPosts
    BY DEF CallsOK, UnitsTyped
  <2>2. QED
    BY <2>1, WiresTyped
<1> SUFFICES ASSUME Alone', NEW p \in 1..Len(posts'), result'[p] = "sent",
                    posts'[p] > 0
             PROVE  OnWire(p)'
  BY DEF SentIsOnWire, Alone
<1>3. p \in Posts
  BY <1>2, ClientAssumption DEF Posts, ClientAssumption
\* What has been on a connection is there still.
<1>4. CASE p \in 1..Len(posts) /\ result[p] = "sent"
  <2>1. OnWire(p) /\ posts'[p] = posts[p]
    BY <1>1, <1>4 DEF SentIsOnWire, Alone
  <2>2. PICK c \in 1..Len(wires) : \A u \in 0..posts[p] :
          \E i \in 1..Len(wires[c]) : wires[c][i] = [post |-> p, unit |-> u]
    BY <2>1 DEF OnWire
  <2>3. /\ c \in 1..Len(wires')
        /\ \A i \in 1..Len(wires[c]) : /\ i \in 1..Len(wires'[c])
                                        /\ wires'[c][i] = wires[c][i]
    BY WiresGrow
  <2>4. \A u \in 0..posts[p] : \E i \in 1..Len(wires'[c]) :
          wires'[c][i] = [post |-> p, unit |-> u]
    BY <2>2, <2>3
  <2>5. QED
    BY <2>1, <2>3, <2>4 DEF OnWire
<1>5. CASE result' = result
  <2>1. ~(p > Len(posts))
    BY <1>3, <1>5 DEF ResultsOK
  <2>2. p \in 1..Len(posts)
    BY <1>2, <2>1
  <2>3. QED
    BY <1>4, <1>5, <2>2
<1>6. ASSUME NEW t \in Threads, NEW v, v # "sent", Returns(t, v), posts' = posts
      PROVE  OnWire(p)'
  BY <1>4, <1>6, <1>3 DEF Returns, ResultsOK
\* The loop of _post() ends: the connection has the length and the payload.
<1>7. ASSUME NEW t \in Threads, SendBody(t) PROVE OnWire(p)'
  <2>1. pc[t] = "post_body" /\ posts' = posts
    BY <1>7 DEF SendBody
  <2>2. PICK k \in 1..left[t] : Send(NextUnits(t, k)) /\ SentSome(t, k)
    BY <1>7 DEF SendBody
  <2>3. CASE result' = result
    BY <1>5, <2>3
  <2>4. CASE result' # result
    <3>1. k = left[t] /\ result' = [result EXCEPT ![post[t]] = "sent"]
      BY <2>2, <2>4 DEF SentSome, Returns
    <3>2. CASE p # post[t]
      BY <1>3, <1>4, <2>1, <3>1, <3>2 DEF ResultsOK
    <3>3. CASE p = post[t]
      <4>1. /\ payload_len(t) \in Nat /\ left[t] \in 1..payload_len(t)
            /\ NextUnits(t, k) \in Seq(Units)
        BY <2>1, NextUnitsSent
      <4>2. payload_len(t) - left[t] + k = posts'[p]
        BY <2>1, <3>1, <3>3, <4>1 DEF payload_len
      <4>3. \A u \in 0..posts'[p] : \E i \in 1..Len(Current') :
              Current'[i] = [post |-> p, unit |-> u]
        BY <1>1, <2>1, <2>2, <3>3, <4>2, BodySent
      <4>4. Len(wires') \in 1..Len(wires')
        BY <2>2, <4>1, SendExtends, WiresTyped
      <4>5. QED
        BY <4>3, <4>4 DEF OnWire, Current
    <3>4. QED
      BY <3>2, <3>3
  <2>5. QED
    BY <2>3, <2>4
\* An empty payload is of no concern.
<1>8. ASSUME NEW t \in Threads, BeginBody(t), posts' = posts PROVE OnWire(p)'
  <2>1. CASE result' = result
    BY <1>5, <2>1
  <2>2. CASE result' # result
    <3>1. posts[post[t]] = 0 /\ result' = [result EXCEPT ![post[t]] = "sent"]
      BY <1>8, <2>2 DEF BeginBody, Returns, payload_len
    <3>2. p # post[t]
      BY <1>8, <3>1
    <3>3. QED
      BY <1>3, <1>4, <1>8, <3>1, <3>2 DEF ResultsOK
  <2>3. QED
    BY <2>1, <2>2
<1>9. ASSUME NEW t \in Threads, SendLen(t) \/ SendLenFails(t) PROVE OnWire(p)'
  BY <1>8, <1>9 DEF SendLen, SendLenFails
<1>10. ASSUME NEW t \in Threads, SendBodyFails(t) \/ ReturnFlag(t) \/ ClearFlag(t)
       PROVE  OnWire(p)'
  <2>1. /\ posts' = posts
        /\ \/ result' = result \/ Returns(t, "failed") \/ Returns(t, "broken")
    BY <1>10 DEF SendBodyFails, ReturnFlag, ClearFlag
  <2>2. QED
    BY <1>5, <1>6, <2>1
<1>11. ASSUME NEW t \in Threads,
              \/ \E n \in Lens : Post(t, n)
              \/ ConnectSucceeds(t) \/ ConnectFails(t) \/ SetFlag(t)
       PROVE  OnWire(p)'
  <2>1. result' = result
    BY <1>11 DEF Post, ConnectSucceeds, ConnectFails, SetFlag
  <2>2. QED
    BY <1>5, <2>1
<1>12. CASE Break \/ UNCHANGED vars
  BY <1>5, <1>12 DEF Break, vars
<1>13. QED
  BY <1>7, <1>9, <1>10, <1>11, <1>12 DEF Next

(* When post() returns a positive length, the length and the payload are   *)
(* all on one connection, and stay there.                                  *)
THEOREM SentIsOnWireAlways == Spec => []SentIsOnWire
<1>1. Init => SentIsOnWire
  BY DEF Init, SentIsOnWire
<1>2. SentIsOnWire /\ FramedInv /\ FramedInv' /\ [Next]_vars => SentIsOnWire'
  BY SentStep DEF FramedInv
<1>3. QED
  BY <1>1, <1>2, FramedKept, PTL DEF Spec
=============================================================================
