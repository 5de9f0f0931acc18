SPECIFICATION Spec
CONSTANTS
  SeqSpace = 8
  MaxVideo = 11
  TotalOf <- MCTotalOf
  FecOf <- MCFecOf
  ProfileOf <- MCProfileOf
  Profiles = 2
  MaxSlots = 4
  Flaws <- MCFlaws
  MaxAudio = 10
  Copies = 2
  MaxPushed = 3
INVARIANTS
  VideoIsRight
  NewestIsPlayed
  LossIsExact
PROPERTIES
  DeliveredInOrder
