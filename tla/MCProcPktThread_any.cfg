\* A payload larger than the queue and spurious wakeups, so that every
\* misbehaviour of the queue can happen.
SPECIFICATION SafeSpec
CONSTANTS
  ClientIds = {c1, c2}
  Payloads <- AnyPayloads
  PayloadSize <- AnySizes
  IdLen = 1
  HeaderLen = 1
  MaxSize = 6
  RecvBlockingValues = {TRUE, FALSE}
  SpuriousWakeups = TRUE
  Garbage = Garbage
  MaxPkts = 3
  MaxMessages = 3
INVARIANTS NoLostWakeup Paired NothingLost OverrunAfterLoss
CHECK_DEADLOCK FALSE
