SPECIFICATION Spec
CONSTANTS
  s1 = s1
  s2 = s2
  s3 = s3
  u1 = u1
  u2 = u2
  NoUid = NoUid
  None = None
  Listener = Listener
  Socks <- TwoSocks
  Uids <- OneUser
  Slots = {0}
  Units = {0}
  Cmds <- CurrentCmds
  Pieces = 1
  MaxClients = 2
  HandleLimit = 3
  MaxGrants = 2
  FairClients <- NobodyFair
SYMMETRY Symmetry
PROPERTY
  ExclusiveAccess
CHECK_DEADLOCK FALSE
