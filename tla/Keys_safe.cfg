SPECIFICATION FairSpec
CONSTANTS
  SeqSpace = 8
  Chunk = 2
  Chunks = 2
  IntHalf = 12
  Refresh = 3
  MaxLength = 2
  MaxPos = 12
  Senders <- MCSenders
  FeedbackSize = 2
  MaxSize = 2
  Limit = 9
  MaxPackets = 4
  Header = 2
  BufSize = 5
  SizeSpace = 8
  Spoken <- MCSpoken
  Targets = {"ps5"}
  Configs <- MCConfigs
  MaxTold = 2
  MaxQueued = 2
INVARIANTS
  OpenedRight
  RingHolds
  FreshPackets
PROPERTIES
  RingCatchesUp
