SPECIFICATION FairSpec
CONSTANTS
  SeqSpace = 16
  Senders = {s1, s2}
  Size = 2
  FirstSeq = 14
  MaxMessages = 3
  ArrayBound = 5
  ResendAge = 1
  SendFails = TRUE
  WaitFails = TRUE
INVARIANTS
  Accounted
  NoLostWakeup
  AckIsFilter
PROPERTIES
  Drains
