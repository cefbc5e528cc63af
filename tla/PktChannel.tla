----------------------------- MODULE PktChannel -----------------------------
(***************************************************************************)
(* What a queue between threads promises its users (the one between a      *)
(* receiving thread and on_message, for one): every packet that is sent is *)
(* delivered, once, whole, and in the order it was sent.  A packet is      *)
(* opaque here.  ProcPktThread and TMsgQueue implement this specification. *)
(***************************************************************************)
EXTENDS Naturals, Sequences

CONSTANT Packets        \* the packets that can be sent

VARIABLES sent,         \* the packets sent so far, oldest first
          delivered     \* the packets delivered so far, oldest first

vars == <<sent, delivered>>

TypeOK == sent \in Seq(Packets) /\ delivered \in Seq(Packets)

Init == sent = <<>> /\ delivered = <<>>

Send == /\ \E p \in Packets : sent' = Append(sent, p)
        /\ UNCHANGED delivered

Deliver == /\ Len(delivered) < Len(sent)
           /\ delivered' = Append(delivered, sent[Len(delivered) + 1])
           /\ UNCHANGED sent

Next == Send \/ Deliver

SafeSpec == Init /\ [][Next]_vars

Spec == SafeSpec /\ WF_vars(Deliver)
=============================================================================
