\* Three consumers on a queue of two messages, with timeouts and resets.
SPECIFICATION Spec
CONSTANTS
  Consumers = {c1, c2, c3}
  Size = 2
  NewSizes = {1, 3}
  TimedWaits = TRUE
  Resets = TRUE
  SpuriousWakeups = TRUE
  NoMsg = NoMsg
  MaxMsgs = 4
INVARIANTS NotAllAsleep FailsForCause
PROPERTY ImplementsPktChannel
