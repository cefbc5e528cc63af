---------------------------- MODULE TameClientImpl ----------------------------
(***************************************************************************)
(* The sending half of the client (src/tamenut_net/TameClientImpl.cpp):    *)
(* connection(), post() and _post(), called by threads of the application  *)
(* without a lock.  A step is one access to the shared _connection_flag or *)
(* one call of the kernel.                                                 *)
(*                                                                         *)
(* A packet on the wire is its length, unit 0, and its payload, units 1 to *)
(* its length.  Nothing in the program starts the receiving thread, run(). *)
(***************************************************************************)
EXTENDS Naturals, Sequences

CONSTANTS
  Threads,          \* threads of the application that call post()
  Lens,             \* payload lengths, in units
  Reconnectable,    \* can a socket whose connection broke be connected again?
  MaxPosts          \* bound: calls of post()

ASSUME ClientAssumption ==
  /\ Lens \subseteq Nat /\ MaxPosts \in Nat
  /\ Reconnectable \in BOOLEAN

VARIABLES
  connection_flag,  \* _connection_flag
  sock,             \* the state of _sock in the kernel
  pc,               \* where each thread is in post()
  post,             \* the number of the call each thread is in
  left,             \* payload_len - sent_len of the _post() it is in
  posts,            \* history: the payload_len of every call of post()
  result,           \* history: what each call returned
  wires,            \* history: the units sent on each connection in turn
  glitch            \* history: a send() failed on a connection that stays up

local_vars == <<pc, post, left>>
vars == <<connection_flag, sock, local_vars, posts, result, wires, glitch>>

Posts == 1..MaxPosts
Units == [post : Posts, unit : Nat]

TypeOK ==
  /\ connection_flag \in BOOLEAN
  /\ sock \in {"fresh", "connected", "broken"}
  /\ pc \in [Threads -> {"idle", "connect", "connected", "refused", "return",
                         "post_len", "post_body", "aborted"}]
  /\ post \in [Threads -> 0..MaxPosts]
  /\ left \in [Threads -> Nat]
  /\ posts \in Seq(Lens) /\ Len(posts) <= MaxPosts
  /\ result \in [Posts -> {"none", "sent", "failed", "broken"}]
  /\ wires \in Seq(Seq(Units))
  /\ sock = "fresh" <=> wires = <<>>
  /\ glitch \in BOOLEAN

(* init() has tried to connect once, from the thread that constructs the   *)
(* client.                                                                 *)
Init ==
  /\ sock \in {"fresh", "connected"}
  /\ connection_flag = (sock = "connected")
  /\ wires = IF sock = "connected" THEN << <<>> >> ELSE <<>>
  /\ pc = [t \in Threads |-> "idle"] /\ post = [t \in Threads |-> 0]
  /\ left = [t \in Threads |-> 0]
  /\ posts = <<>> /\ result = [p \in Posts |-> "none"]
  /\ glitch = FALSE

-----------------------------------------------------------------------------
Goto(t, label) == pc' = [pc EXCEPT ![t] = label]

Returns(t, value) ==
  /\ Goto(t, "idle")
  /\ result' = [result EXCEPT ![post[t]] = value]

Mut_Post(t, n) ==       \* connection() does not look at the flag first
  /\ pc[t] = "idle" /\ Len(posts) < MaxPosts
  /\ posts' = Append(posts, n)
  /\ post' = [post EXCEPT ![t] = Len(posts) + 1]
  /\ Goto(t, "connect")
  /\ UNCHANGED <<connection_flag, sock, left, result, wires, glitch>>
(* post(payload, n) calls connection(), which tests the flag.              *)
Post(t, n) ==
  /\ pc[t] = "idle" /\ Len(posts) < MaxPosts
  /\ posts' = Append(posts, n)
  /\ post' = [post EXCEPT ![t] = Len(posts) + 1]
  /\ Goto(t, IF connection_flag THEN "return" ELSE "connect")
  /\ UNCHANGED <<connection_flag, sock, left, result, wires, glitch>>

(* connect() of a socket that is connected, or was and cannot be again,    *)
(* fails; any other may fail because nobody listens.                       *)
ConnectSucceeds(t) ==
  /\ pc[t] = "connect"
  /\ sock = "fresh" \/ (sock = "broken" /\ Reconnectable)
  /\ sock' = "connected" /\ wires' = Append(wires, <<>>)
  /\ Goto(t, "connected")
  /\ UNCHANGED <<connection_flag, post, left, posts, result, glitch>>

ConnectFails(t) ==
  /\ pc[t] = "connect" /\ Goto(t, "refused")
  /\ UNCHANGED <<connection_flag, sock, post, left, posts, result, wires, glitch>>

(* on_connect() is called here as well.                                    *)
SetFlag(t) ==
  /\ pc[t] \in {"connected", "refused"}
  /\ connection_flag' = (pc[t] = "connected")
  /\ Goto(t, "return")
  /\ UNCHANGED <<sock, post, left, posts, result, wires, glitch>>

Mut_ReturnFlag(t) ==    \* post() ignores what connection() returns
  /\ pc[t] = "return"
  /\ left' = [left EXCEPT ![t] = 1] /\ Goto(t, "post_len")
  /\ UNCHANGED <<result, connection_flag, sock, post, posts, wires, glitch>>
(* connection() reads the flag a second time; without it post() returns.   *)
ReturnFlag(t) ==
  /\ pc[t] = "return"
  /\ IF connection_flag
     THEN /\ left' = [left EXCEPT ![t] = 1] /\ Goto(t, "post_len")
          /\ UNCHANGED result
     ELSE Returns(t, "failed") /\ UNCHANGED left
  /\ UNCHANGED <<connection_flag, sock, post, posts, wires, glitch>>

-----------------------------------------------------------------------------
(* send() takes any number of the units it is given.                       *)
Send(units) ==
  /\ sock = "connected"
  /\ wires' = [wires EXCEPT ![Len(wires)] = @ \o units]
SendFailed == glitch' = (glitch \/ sock = "connected")

payload_len(t) == posts[post[t]]

(* After the length comes the payload, whatever became of the length; the  *)
(* loop of _post() is not entered for an empty one.                        *)
BeginBody(t) ==
  IF payload_len(t) = 0
  THEN Returns(t, "sent") /\ left' = [left EXCEPT ![t] = 0]
  ELSE /\ Goto(t, "post_body") /\ left' = [left EXCEPT ![t] = payload_len(t)]
       /\ UNCHANGED result

SendLen(t) ==
  /\ pc[t] = "post_len"
  /\ Send(<<[post |-> post[t], unit |-> 0]>>)
  /\ BeginBody(t)
  /\ UNCHANGED <<connection_flag, sock, post, posts, glitch>>

SendLenFails(t) ==
  /\ pc[t] = "post_len" /\ SendFailed
  /\ BeginBody(t)
  /\ UNCHANGED <<connection_flag, sock, post, posts, wires>>

(* The first k of the units that are left.                                 *)
NextUnits(t, k) ==
  [i \in 1..k |-> [post |-> post[t], unit |-> payload_len(t) - left[t] + i]]

Mut_SentSome(t, k) ==       \* send() is called once, not in a loop
  left' = [left EXCEPT ![t] = 0] /\ Returns(t, "sent")
Mut_SentSomeAgain(t, k) ==  \* the loop starts again at the first unit
  IF k = left[t]
  THEN left' = [left EXCEPT ![t] = 0] /\ Returns(t, "sent")
  ELSE UNCHANGED <<left, pc, result>>
SentSome(t, k) ==
  /\ left' = [left EXCEPT ![t] = @ - k]
  /\ IF k = left[t] THEN Returns(t, "sent") ELSE UNCHANGED <<pc, result>>

SendBody(t) ==
  /\ pc[t] = "post_body"
  /\ \E k \in 1..left[t] : Send(NextUnits(t, k)) /\ SentSome(t, k)
  /\ UNCHANGED <<connection_flag, sock, post, posts, glitch>>

(* Two error codes (10053 and 104) are taken for a lost connection; any    *)
(* other one leaves the flag as it is.                                     *)
SendBodyFails(t) ==
  /\ pc[t] = "post_body" /\ SendFailed
  /\ \/ /\ sock = "broken"
        /\ Goto(t, "aborted") /\ UNCHANGED result
     \/ Returns(t, "failed")
  /\ left' = [left EXCEPT ![t] = 0]
  /\ UNCHANGED <<connection_flag, sock, post, posts, wires>>

ClearFlag(t) ==
  /\ pc[t] = "aborted"
  /\ connection_flag' = FALSE /\ Returns(t, "broken")
  /\ UNCHANGED <<sock, post, left, posts, wires, glitch>>

(* The server, or the network, ends the connection.                        *)
Break ==
  /\ sock = "connected" /\ sock' = "broken"
  /\ UNCHANGED <<connection_flag, local_vars, posts, result, wires, glitch>>

Next ==
  \/ \E t \in Threads :
       \/ \E n \in Lens : Post(t, n)
       \/ ConnectSucceeds(t) \/ ConnectFails(t) \/ SetFlag(t) \/ ReturnFlag(t)
       \/ SendLen(t) \/ SendLenFails(t)
       \/ SendBody(t) \/ SendBodyFails(t) \/ ClearFlag(t)
  \/ Break

Spec == Init /\ [][Next]_vars
-----------------------------------------------------------------------------
(* Properties.                                                             *)

(* Only one thread has called post() so far.                               *)
OneThread == \A s, t \in Threads : post[s] # 0 /\ post[t] # 0 => s = t

(* What the server parses: every unit but the last of a packet is followed *)
(* by the next one of the same packet, and the last one by a length.       *)
Framed(w) ==
  /\ w # <<>> => w[1].unit = 0
  /\ \A i \in 2..Len(w) :
       IF w[i - 1].unit < posts[w[i - 1].post]
       THEN w[i] = [w[i - 1] EXCEPT !.unit = @ + 1]
       ELSE w[i].unit = 0

(* A client used by one thread never puts the server out of step, although *)
(* post() goes on with the payload when the length could not be sent and   *)
(* later calls use a new connection: what each connection carries is a     *)
(* sequence of packets, the last one perhaps incomplete.                   *)
AlwaysFramed == OneThread /\ ~glitch =>
                  \A c \in 1..Len(wires) : Framed(wires[c])

(* When post() returns a positive length, the length and the payload are   *)
(* all on one connection.                                                  *)
OnWire(p) == \E c \in 1..Len(wires) : \A u \in 0..posts[p] :
               \E i \in 1..Len(wires[c]) :
                 wires[c][i] = [post |-> p, unit |-> u]
SentIsOnWire ==
  OneThread /\ ~glitch =>
    \A p \in 1..Len(posts) : result[p] = "sent" /\ posts[p] > 0 => OnWire(p)

(* A client used by one thread that is connected knows it, so the next     *)
(* post() sends: it never loses its only socket to a second connect().     *)
StaysUsable ==
  OneThread /\ (\A t \in Threads : pc[t] = "idle") /\ sock = "connected" =>
    connection_flag

(* However the threads interleave, post() sends only on a socket that has  *)
(* been connected.                                                         *)
NeverSendsUnconnected ==
  \A t \in Threads : pc[t] \in {"post_len", "post_body"} => sock # "fresh"

(* However the threads interleave and whatever send() refuses, a           *)
(* connection carries the units of each call in their order and none       *)
(* twice.                                                                  *)
UnitsInOrder ==
  \A c \in 1..Len(wires) : \A i, j \in 1..Len(wires[c]) :
    i < j /\ wires[c][i].post = wires[c][j].post =>
      wires[c][i].unit < wires[c][j].unit
=============================================================================
