SPECIFICATION SpecWithDrop
CONSTANTS
  SeqSpace = 8
  Size = 2
  Elems = {e1, e2, e3}
  None = None
  Reach = 3
  Behind = 3
SYMMETRY Symmetry
INVARIANTS
  QueuedAreHeld
