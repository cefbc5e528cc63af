\* A payload larger than the queue; every wakeup is a signal.
SPECIFICATION SafeSpec
CONSTANTS
  ClientIds = {c1}
  Payloads <- AnyPayloads
  PayloadSize <- AnySizes
  IdLen = 1
  HeaderLen = 1
  MaxSize = 6
  RecvBlockingValues = {TRUE, FALSE}
  SpuriousWakeups = FALSE
  Garbage = Garbage
  MaxPkts = 2
  MaxMessages = 2
INVARIANT OnlyPoppedMessages
CHECK_DEADLOCK FALSE
