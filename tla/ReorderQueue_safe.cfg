SPECIFICATION Spec
CONSTANTS
  SeqSpace = 16
  Size = 2
  Elems = {e1, e2, e3}
  None = None
  Reach = 7
  Behind = 7
SYMMETRY Symmetry
INVARIANTS
  QueuedAreHeld
  NoAbort
PROPERTIES
  KeptInOrder
  ImplementsWindow
