------------------------------ MODULE TMsgQueue ------------------------------
(***************************************************************************)
(* A queue of messages between threads                                     *)
(* (src/include/CommonUtil/TMsgQueue.h): a TCircularQueue, a lock and a    *)
(* condition variable.  What the code does between lock() and unlock() is  *)
(* one step; a pop_msg() that waits is two, going to sleep and what it     *)
(* does after the wakeup.  resize() takes no lock, so its callers must not *)
(* let it overlap with anything: it is a step as well.                     *)
(***************************************************************************)
EXTENDS Naturals, Sequences

CONSTANTS
  Consumers,        \* threads that call pop_msg()
  Size,             \* the capacity of the queue
  NewSizes,         \* what resize() is called with
  TimedWaits,       \* is pop_msg() called with a timeout?
  Resets,           \* does anybody call reset()?
  SpuriousWakeups,  \* can wait() return although nobody signalled?
  NoMsg,            \* what a cell of the ring holds that nobody wrote
  MaxMsgs           \* bound: messages accepted

ASSUME MsgQueueAssumption ==
  /\ Size \in Nat \ {0} /\ NewSizes \subseteq Nat \ {0}
  /\ MaxMsgs \in Nat /\ NoMsg \notin 1..MaxMsgs
  /\ TimedWaits \in BOOLEAN /\ Resets \in BOOLEAN
  /\ SpuriousWakeups \in BOOLEAN

VARIABLES
  ring,         \* _queue
  consumer,     \* what each consumer does
  pushed,       \* history: how many messages push_msg() has accepted
  popped,       \* history: the messages pop_msg() returned, in turn
  missed        \* history: a message was taken from a woken thread, or
                \* reset() was called: pop_msg() may come back without one

vars == <<ring, consumer, pushed, popped, missed>>

Msgs == 1..MaxMsgs     \* numbered as push_msg() is called with them

Ring == INSTANCE TCircularQueue WITH
          Values <- Msgs, NoValue <- NoMsg, Sizes <- {Size} \cup NewSizes,
          MaxCapacity <- Size, unlimited <- FALSE, returned <- NoMsg

TypeOK ==
  /\ Ring!TypeOK
  /\ consumer \in [Consumers -> {"idle", "waiting", "woken", "failed"}]
  /\ pushed \in 0..MaxMsgs /\ popped \in Seq(Msgs) /\ missed \in BOOLEAN

Init == /\ ring = Ring!NewRing(Size)
        /\ consumer = [c \in Consumers |-> "idle"]
        /\ pushed = 0 /\ popped = <<>> /\ missed = FALSE

-----------------------------------------------------------------------------
Waiting == {c \in Consumers : consumer[c] = "waiting"}

(* _queue_cond->signal() wakes any one of the threads that wait.           *)
Signal == IF Waiting = {} THEN UNCHANGED consumer
          ELSE \E c \in Waiting :
                 consumer' = [consumer EXCEPT ![c] = "woken"]

PushBack == /\ ring' = Ring!push_back(ring, pushed + 1)
            /\ pushed' = pushed + 1
            /\ UNCHANGED <<popped, missed>>

Mut_PushFirst ==        \* signals, but does not push
  /\ Ring!size(ring) = 0 /\ Signal
  /\ pushed' = pushed + 1 /\ UNCHANGED <<ring, popped, missed>>
Mut_PushSilently ==     \* pushes, but does not signal
  Ring!size(ring) = 0 /\ PushBack /\ UNCHANGED consumer
PushFirst == Ring!size(ring) = 0 /\ PushBack /\ Signal

Mut_PushMore ==         \* a full queue is not noticed
  /\ Ring!size(ring) # 0
  /\ PushBack /\ UNCHANGED consumer
(* A queue that is not empty is not signalled; a full one refuses.         *)
PushMore == /\ Ring!size(ring) # 0 /\ ~Ring!is_full(ring)
            /\ PushBack /\ UNCHANGED consumer

push_msg == pushed < MaxMsgs /\ (PushFirst \/ PushMore)

-----------------------------------------------------------------------------
(* The first message is returned to c.                                     *)
Take(c) ==
  /\ ring' = Ring!pop_front(ring) /\ popped' = Append(popped, Ring!First(ring))
  /\ consumer' = [consumer EXCEPT ![c] = "idle"]
  /\ missed' = (missed \/ \E d \in Consumers \ {c} : consumer[d] = "woken")
  /\ UNCHANGED pushed

PopNow(c) ==
  consumer[c] \in {"idle", "failed"} /\ ~Ring!is_empty(ring) /\ Take(c)

PopWait(c) ==
  /\ consumer[c] \in {"idle", "failed"} /\ Ring!is_empty(ring)
  /\ consumer' = [consumer EXCEPT ![c] = "waiting"]
  /\ UNCHANGED <<ring, pushed, popped, missed>>

(* The wait times out, or ends for no reason.                              *)
WakeUp(c) ==
  /\ TimedWaits \/ SpuriousWakeups
  /\ consumer[c] = "waiting"
  /\ consumer' = [consumer EXCEPT ![c] = "woken"] /\ missed' = TRUE
  /\ UNCHANGED <<ring, pushed, popped>>

(* The thread has the lock again and looks at the size a second time.      *)
PopAfterWait(c) ==
  /\ consumer[c] = "woken"
  /\ \/ Ring!size(ring) > 0 /\ Take(c)
     \/ /\ Ring!size(ring) = 0       \* pop_msg() returns false
        /\ consumer' = [consumer EXCEPT ![c] = "failed"]
        /\ UNCHANGED <<ring, pushed, popped, missed>>

pop_msg(c) == PopNow(c) \/ PopWait(c) \/ PopAfterWait(c)

reset == /\ Resets /\ Signal /\ missed' = TRUE
         /\ UNCHANGED <<ring, pushed, popped>>

(* The new ring must hold what the old one does: resize() does not test.   *)
resize == /\ \E n \in NewSizes : /\ n >= Ring!size(ring)
                                /\ ring' = Ring!resize(ring, n)
          /\ UNCHANGED <<consumer, pushed, popped, missed>>

Next == \/ push_msg \/ reset \/ resize
        \/ \E c \in Consumers : pop_msg(c) \/ WakeUp(c)

(* Consumers call pop_msg() in a loop and get the lock.                    *)
Spec == /\ Init /\ [][Next]_vars
        /\ \A c \in Consumers : WF_vars(pop_msg(c))
-----------------------------------------------------------------------------
(* Properties.                                                             *)

(* push_msg() signals only an empty queue, so a thread may sleep beside a  *)
(* message; but never do all threads: while there is a message, one is     *)
(* awake, or woken, that will find it when it calls pop_msg() again.       *)
NotAllAsleep ==
  Consumers # {} /\ Ring!size(ring) > 0 =>
    \E c \in Consumers : consumer[c] # "waiting"

(* pop_msg() returns false only when the wait timed out or ended for no    *)
(* reason, somebody called reset(), or another thread was faster than the  *)
(* one that had been woken.                                                *)
FailsForCause == (\E c \in Consumers : consumer[c] = "failed") => missed

(* Whatever push_msg() accepted is returned once, in that order, although  *)
(* the ring below discards when it is full; and, as long as the consumers  *)
(* keep calling, all of it is.                                             *)
Channel == INSTANCE PktChannel WITH
             Packets   <- Msgs,
             sent      <- [i \in 1..pushed |-> i],
             delivered <- popped
ImplementsPktChannel == Channel!Spec
=============================================================================
