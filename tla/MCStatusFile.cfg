SPECIFICATION Spec
CONSTANTS
  h1 = h1
  h2 = h2
  h3 = h3
  None = None
  Starts <- ThreeStarts
  MaxReaders = 2
  Retries = 2
  MaxFiles = 1
  MaxParents = 1
  DeathPoints <- BeforeFork
  Wakes = TRUE
INVARIANTS
  SlotsUnique
  StatusNamesServer
PROPERTIES
  StartsEnd
  TermEnds
CHECK_DEADLOCK FALSE
