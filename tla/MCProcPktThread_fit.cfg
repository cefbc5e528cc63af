\* Payloads that fit the queue, signals the only wakeups, either value of the
\* uninitialised _recv_blocking. MaxSize holds one packet and a client id.
SPECIFICATION Spec
CONSTANTS
  ClientIds = {c1, c2}
  Payloads <- FitPayloads
  PayloadSize <- FitSizes
  IdLen = 1
  HeaderLen = 1
  MaxSize = 6
  RecvBlockingValues = {TRUE, FALSE}
  SpuriousWakeups = FALSE
  Garbage = Garbage
  MaxPkts = 3
  MaxMessages = 3
INVARIANTS TypeOK NeverMisreads InOrder
PROPERTIES QueueMoves ImplementsPktChannel
\* the packet thread sleeps for good when no packet comes
CHECK_DEADLOCK FALSE
