SPECIFICATION Spec
CONSTANTS
  Apps = {a1, a2}
  Devs = {d}
  MaxWork = 2
  MaxDown = 1
  QueueLen = 1
  ReadMax = 2
  None = None
INVARIANTS
  PeersPaired
  DataInTurn
  AnswersOwnCall
PROPERTIES
  DevicesFreed
CHECK_DEADLOCK FALSE
