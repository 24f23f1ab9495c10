CONSTANTS
  Ids = {i1}
  Handlers = {h1, h2}
  Nobody = Nobody
  Absent = Absent
  MaxObjects = 2
  Natives = {n1}
  NoNative = NoNative
  MaxTurns = 2
  MaxDeaths = 2
SPECIFICATION Spec
INVARIANTS TypeOK FilesAgree DeletedIsGone  RegistryIsBehind
CONSTRAINT NotAllAstray
SYMMETRY Symmetry
CHECK_DEADLOCK FALSE
