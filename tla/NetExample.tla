------------------------------ MODULE NetExample ------------------------------
(***************************************************************************)
(* The example (src/net_example): one process with a server and a client   *)
(* that posts the lines somebody types.  This composes TameServerImpl,     *)
(* with its table and its queue, and TameClientImpl, used by one thread; a *)
(* connection between them may be lost at any time.  The facades           *)
(* TameServer and TameClient forward the calls.                            *)
(*                                                                         *)
(* The first client of the example, which never sends, is one of the       *)
(* others: they do what the clients of TameServerImpl may do.              *)
(***************************************************************************)
EXTENDS TameServerImpl

CONSTANTS
  Others,           \* connections other clients make
  Client2,          \* the sequence of connections client2 makes
  Main,             \* the thread of main()
  MsgLen,           \* sizeof(ClientSendPkt)
  MaxLines,         \* bound: lines somebody types
  Together          \* bound: do others connect when client2 is used?

ASSUME ExampleAssumption ==
  /\ Others \subseteq Conns /\ Together \in BOOLEAN
  /\ Client2 \in Seq(Conns)
  /\ Together => \A i \in DOMAIN Client2 : Client2[i] \notin Others
  /\ \A i, j \in DOMAIN Client2 : Client2[i] = Client2[j] => i = j
  /\ MsgLen \in Lens \cap 1..PayloadLen /\ MaxLines \in Nat

VARIABLES
  main_at,          \* where main() is
  \* TameClientImpl
  connection_flag, sock, main_pc, posting, left, posts, result, wires, glitch

client2_vars == <<connection_flag, sock, main_pc, posting, left, posts, result,
                  wires, glitch>>
server_vars  == <<backlog, client_vars, loop_vars, mgr_vars, queue_vars>>
example_vars == <<main_at, client2_vars, server_vars>>

Cl == INSTANCE TameClientImpl WITH
        Threads <- {Main}, Lens <- {MsgLen}, Reconnectable <- TRUE,
        MaxPosts <- MaxLines, pc <- main_pc, post <- posting

ExampleInit == /\ Init
               /\ Cl!Init /\ sock = "fresh"
               /\ main_at = "server"

-----------------------------------------------------------------------------
(* main().                                                                 *)

(* The server listens from here on, and its threads run.                   *)
UserServer ==
  /\ main_at = "server" /\ main_at' = "client2"
  /\ UNCHANGED <<client2_vars, server_vars>>

Listening == main_at # "server"

(* The connection client2 makes next.                                      *)
Reaches == /\ Listening
           /\ Len(wires) < Len(Client2) /\ Connect(Client2[Len(wires) + 1])

(* The client connects while it is constructed, or prints that it could    *)
(* not.                                                                    *)
UserClient ==
  /\ main_at = "client2" /\ main_at' = "line"
  /\ Together \/ \A c \in Conns : peer[c] = "new"
  /\ \/ /\ Reaches
        /\ sock' = "connected" /\ connection_flag' = TRUE /\ wires' = << <<>> >>
        /\ UNCHANGED <<main_pc, posting, left, posts, result, glitch>>
     \/ UNCHANGED <<client2_vars, server_vars>>

(* A line is typed and sent; what post() returns is not looked at.         *)
send == /\ main_at = "line" /\ Cl!Post(Main, MsgLen)
        /\ UNCHANGED <<main_at, server_vars>>

main == UserServer \/ UserClient \/ send

(* What is sent goes to the server, a unit at a time, or nowhere when it   *)
(* has closed the connection.                                              *)
Carried(arrives) == IF peer[Client2[Len(wires)]] = "open" THEN arrives
                    ELSE UNCHANGED server_vars

(* The rest of post().  send() fails only on a broken connection.          *)
PostStep ==
  /\ \/ Cl!ConnectSucceeds(Main) /\ Reaches
     \/ Cl!SendLen(Main) /\ Carried(SendLength(Client2[Len(wires)], MsgLen))
     \/ /\ Cl!SendBody(Main) /\ left'[Main] = left[Main] - 1
        /\ Carried(SendUnit(Client2[Len(wires)]))
     \/ /\ \/ Cl!ConnectFails(Main) \/ Cl!SetFlag(Main) \/ Cl!ReturnFlag(Main)
           \/ /\ sock # "connected"
              /\ Cl!SendLenFails(Main) \/ Cl!SendBodyFails(Main)
           \/ Cl!ClearFlag(Main)
        /\ UNCHANGED server_vars
  /\ UNCHANGED main_at

-----------------------------------------------------------------------------
(* The network and the other clients.                                      *)

(* The client notices that its connection is lost; the server later, or    *)
(* never.                                                                  *)
Break == Cl!Break /\ UNCHANGED <<main_at, server_vars>>

Lost(i) == i < Len(wires) \/ (i = Len(wires) /\ sock = "broken")
Noticed == /\ \E i \in DOMAIN Client2 : Lost(i) /\ Reset(Client2[i])
           /\ UNCHANGED <<main_at, client2_vars>>

AllFrames == UNION {{c} \X DOMAIN frames[c] : c \in Conns}

Other == /\ Listening /\ (main_at = "client2" \/ Together)
         /\ \E c \in Others : \/ Connect(c)
                              \/ /\ Cardinality(AllFrames) < MaxPkts
                                 /\ \E n \in Lens : SendLength(c, n)
                              \/ SendUnit(c) \/ Close(c)
         /\ UNCHANGED <<main_at, client2_vars>>

-----------------------------------------------------------------------------
ServerSelects == SelectThread /\ UNCHANGED <<main_at, client2_vars>>
ServerPops    == PacketThread /\ UNCHANGED <<main_at, client2_vars>>

ExampleNext == \/ main \/ PostStep
               \/ Break \/ Noticed \/ Other
               \/ ServerSelects \/ ServerPops

(* The threads of the server run, and post() goes on.  Nobody has to type, *)
(* and the others do as they like.                                         *)
ExampleSpec ==
  /\ ExampleInit /\ [][ExampleNext]_example_vars
  /\ WF_example_vars(ServerSelects) /\ WF_example_vars(ServerPops)
  /\ WF_example_vars(PostStep)
-----------------------------------------------------------------------------
(* Properties.                                                             *)

(* The places on a wire where a packet begins with its length; the n-th of *)
(* them is that of line p.                                                 *)
Lengths(w) == {k \in 1..Len(w) : w[k].unit = 0}
NthLine(w, n, p) ==
  \E k \in Lengths(w) : /\ w[k].post = p
                         /\ Cardinality({l \in Lengths(w) : l <= k}) = n

(* The j-th call of on_message() is for connection i of client2, and has   *)
(* line p to log.                                                          *)
From(j, i)    == Pkt!Delivered[j].payload.conn = Client2[i]
Logs(j, i, p) == /\ From(j, i)
                 /\ NthLine(wires[i], Pkt!Delivered[j].payload.frame, p)

(* What the server logs are lines that post() said it had sent, whole, and *)
(* none of those it said it had not; from each connection in the order     *)
(* they were typed, none twice.                                            *)
LogsWhatWasSent ==
  Lossless => \A i \in 1..Len(wires), j \in 1..Len(messages) :
    From(j, i) =>
      /\ Pkt!Delivered[j].payload.len = MsgLen
      /\ \E p \in 1..Len(posts) :
           /\ Logs(j, i, p) /\ result[p] = "sent"
           /\ \A h \in 1..j - 1, q \in 1..Len(posts) : Logs(h, i, q) => q < p

(* A line that post() says it has sent is logged, unless the connection is *)
(* lost, the server refuses it because its table is full, the loop has     *)
(* ended, or it waits for ever for the rest of a body.                     *)
Carriers(p) == {i \in 1..Len(wires) : \E k \in Lengths(wires[i]) :
                                         wires[i][k].post = p}
Logged(p) == \E i \in Carriers(p), j \in 1..Len(messages) : Logs(j, i, p)
Failed(i) == Lost(i) \/ Refused(Client2[i])
SentIsLogged ==
  (\A p \in 1..MaxLines :
     result[p] = "sent"
       ~> Logged(p) \/ Halted \/ \E i \in Carriers(p) : Failed(i))
    \/ <>[]Stalled
=============================================================================
