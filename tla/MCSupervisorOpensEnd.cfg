CONSTANTS
  default = default
  work = work
  Names = {default, work}
  Static = {default}
  Handlers = {h1, h2}
  Nobody = Nobody
  MaxVersion = 2
  MaxObjects = 1
SPECIFICATION Spec
INVARIANT PersistedMatches
PROPERTY OpensEnd
CHECK_DEADLOCK FALSE
