\* Another client and two connections of client2, for a table of two.
SPECIFICATION ExampleSpec
CONSTANTS
  b1 = b1
  b2 = b2
  Conns = {b1, b2}
  Others = {b1, b2}
  Client2 <- MCClient2
  Main = Main
  MsgLen = 2
  MaxLines = 2
  Together = FALSE
  Listener = Listener
  NoSock = NoSock
  MaxSockNum = 2
  FdSetSize = 3
  PayloadLen = 2
  Lens = {2}
  MaxFrames = 2
  ResetAllowed = TRUE
  SelectMayFail = FALSE
  IdLen = 1
  HeaderLen = 1
  MaxSize = 5
  RecvBlockingValues = {TRUE}
  SpuriousWakeups = FALSE
  Garbage = Garbage
  MaxPkts = 3
  MaxMessages = 3
INVARIANTS FramesInOrder LogsWhatWasSent
  
CHECK_DEADLOCK FALSE
