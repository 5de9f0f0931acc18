SPECIFICATION FairSpec
CONSTANTS
  SeqSpace = 16
  Size = 4
  None = None
  FirstSeq = 14
  MaxMessages = 4
  Bang = 1
  PostponeSize = 2
INVARIANTS
  DeliveredAndAcked
  PostponedAreHandled
PROPERTIES
  CheckedOnceKeyed
  ThreadGoesOn
