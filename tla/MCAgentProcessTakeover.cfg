CONSTANTS
  s1 = s1
  c1 = c1
  c2 = c2
  NoConn = NoConn
  Sessions = {s1}
  Conns = {c1, c2}
  MaxTurns = 2
  MaxStarts = 1
  MaxLoads = 2
SPECIFICATION Spec
INVARIANTS OneTurn TurnsClose
PROPERTIES TurnsEnd
CHECK_DEADLOCK FALSE
