SPECIFICATION Spec
CONSTANTS
  CommandLen <- CommandUnits
  AnswerLen <- AnswerUnits
  RcvLens = {1, 3}
  Ifsc = 2
  Ifscs <- BothIfs
  CardErrors = {TRUE}
  Retries = 3
  Resyncs = 3
  RetryMod = 16
  MaxErrors = 6
  MaxRequests = 2
  MaxCommands = 3
INVARIANTS
  ReplyIsAnswer
  ExecutedOnce
  InStep
PROPERTY
  ExchangeEnds
CHECK_DEADLOCK FALSE
