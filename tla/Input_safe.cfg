SPECIFICATION InputSpec
CONSTANTS
  TouchIds = 128
  HistorySize = 2
  Order <- MCOrder
  EvSlots = 3
  MaxFrames = 2
  MaxInputs = 4
CHECK_DEADLOCK FALSE
INVARIANTS
  InputArrives
  LossIsCovered
  TouchesAreHeld
