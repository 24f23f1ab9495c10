CONSTANTS
  work = work
  Names = {work}
  Static = {}
  Handlers = {h1, h2}
  Nobody = Nobody
  MaxVersion = 1
  MaxObjects = 2
SPECIFICATION Spec
INVARIANTS TypeOK OneChild IdleHasClock
SYMMETRY Symmetry
CHECK_DEADLOCK FALSE
