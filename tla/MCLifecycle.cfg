CONSTANTS
  Daemons = {d1, d2}
  Conns = {c1, c2}
  Turns = {t1}
  None = None
  MaxStarts = 2
SPECIFICATION Spec
INVARIANTS TypeOK ServesAlone
PROPERTIES TurnsGetGrace StopsWhenRead
CHECK_DEADLOCK FALSE
