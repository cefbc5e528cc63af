\* Non-blocking pushes into a queue that holds one packet and a client id.
SPECIFICATION SafeSpec
CONSTANTS
  ClientIds = {c1}
  Payloads <- FitPayloads
  PayloadSize <- FitSizes
  IdLen = 1
  HeaderLen = 1
  MaxSize = 6
  RecvBlockingValues = {FALSE}
  SpuriousWakeups = FALSE
  Garbage = Garbage
  MaxPkts = 3
  MaxMessages = 3
INVARIANT DroppedWhole
CHECK_DEADLOCK FALSE
