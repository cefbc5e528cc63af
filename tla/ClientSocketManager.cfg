\* Three slots and more handles than slots, so that the table fills up.
SPECIFICATION Spec
CONSTANTS
  Socks = {s1, s2, s3, s4, s5}
  NoSock = NoSock
  MaxClientCnt = 3
INVARIANTS CountMatchesTable SlotsDistinct
PROPERTY IdStable
