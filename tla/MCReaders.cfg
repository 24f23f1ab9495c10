CONSTANTS
  Owners = {c1, c2}
  Viewers = {c2, c3}
  NoConn = NoConn
  Tasks = {e1}
  MaxSeq = 1
  MaxFull = 1
SPECIFICATION Spec
INVARIANTS NothingMissed NoGhosts
CONSTRAINT InTable
CHECK_DEADLOCK FALSE
