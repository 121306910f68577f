SPECIFICATION Spec
CONSTANTS
  s1 = s1
  s2 = s2
  s3 = s3
  u1 = u1
  u2 = u2
  NoUid = NoUid
  None = None
  Listener = Listener
  Socks <- ThreeSocks
  Uids <- OneUser
  Slots = {0}
  Units = {0}
  Cmds <- CardCmd
  Pieces = 2
  MaxClients = 2
  HandleLimit = 1
  MaxGrants = 1
  FairClients <- OnlyFirst
INVARIANT
  SocketsBounded
PROPERTIES
  CallsEnd
  GoneClientsForgotten
CHECK_DEADLOCK FALSE
