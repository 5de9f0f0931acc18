SPECIFICATION FairFrontSpec
CONSTANTS
  Actions = {"ask", "go"}
  CodecMax = 1
  MaxFrames = 2
  MaxPins = 1
  Planes = 2
  MaxSessions = 2
  ChunksCount = 3
  ChunkSize = 2
  Frames = {1, 3}
  MaxPushed = 10
CHECK_DEADLOCK FALSE
INVARIANTS
  ShownIsWhole
  UserIsTold
  NoneOutlives
  PlayedInOrder
PROPERTIES
  FrontEndGoesOn
