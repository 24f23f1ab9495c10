CONSTANTS
  Tasks = {t1, t2}
  Ids = {s1}
  MaxRequests = 3
  MaxSeq = 2
SPECIFICATION Spec
INVARIANTS TypeOK SessionsHear
PROPERTY RequestsEnd
CHECK_DEADLOCK FALSE
