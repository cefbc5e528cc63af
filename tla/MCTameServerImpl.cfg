\* One more client than slots; resets and a failing select(); one packet each,
\* which may be too long for the payload buffer.
SPECIFICATION Spec
CONSTANTS
  Conns = {a, b, c}
  Listener = Listener
  NoSock = NoSock
  MaxSockNum = 2
  FdSetSize = 3
  PayloadLen = 1
  Lens = {1, 2}
  MaxFrames = 1
  ResetAllowed = TRUE
  SelectMayFail = TRUE
  IdLen = 1
  HeaderLen = 1
  MaxSize = 4
  RecvBlockingValues = {TRUE}
  SpuriousWakeups = FALSE
  Garbage = Garbage
  MaxPkts = 3
  MaxMessages = 3
SYMMETRY ConnSymmetry
INVARIANTS  MessageAfterConnect IdNamesSender
PROPERTIES DroppedForCause KeepsManagerProtocol
CHECK_DEADLOCK FALSE
