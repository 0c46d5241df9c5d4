SPECIFICATION Spec
CONSTANTS
  Writes = 1
  Presses = 1
  Backlog = 0
INVARIANT
  CancelStops
