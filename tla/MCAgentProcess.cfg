CONSTANTS
  s1 = s1
  s2 = s2
  c1 = c1
  NoConn = NoConn
  Sessions = {s1, s2}
  Conns = {c1}
  MaxTurns = 2
  MaxStarts = 2
  MaxLoads = 2
SPECIFICATION Spec
INVARIANTS TypeOK
PROPERTIES ImplementsTurns
SYMMETRY Symmetry
CHECK_DEADLOCK FALSE
