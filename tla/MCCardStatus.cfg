SPECIFICATION Spec
CONSTANTS
  c1 = c1
  NSlots = 1
  Pipes <- Either
  EventModes <- Either
  Clients <- OneClient
  SeqLimit = 12
  MaxInsertions = 2
  MaxFailures = 1
INVARIANTS
  SwapSeen
PROPERTY
  CardsSeen
