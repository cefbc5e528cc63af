\* Two connections, a queue of two packets, two readers.
SPECIFICATION Spec
CONSTANTS
  Base = 3
  BufLen = 3
  Payloads <- MCPayloads
  MaxPkts = 2
  MaxConns = 2
  MaxQueue = 2
  Readers = {r1, r2}
  SpuriousWakeups = TRUE
INVARIANTS InStep NoSleepBesidePacket  OverrunForCause
PROPERTY PacketsFlow
\* nothing more may come
CHECK_DEADLOCK FALSE
