SPECIFICATION Spec
CONSTANTS
  Phone = {p1}
  Other = Other
  Datagram <- Questions
  BufSize = 9
  RecvMax = 6
  HdrLen = 2
  FlagPos = 2
  AnswerLen = 2
  Mbox = 1
  NoQ = NoQ
  MaxStation = 1
  HeapSize = 11
  Stack = 1
  RecStack = 1
  RecBuf = 1
  NetMax = 1
  Sockets = 2
CONSTRAINT OneAtATime
CHECK_DEADLOCK FALSE
INVARIANT TypeOK
INVARIANT FilterSeesOwnName
INVARIANT AnswerFits
INVARIANT AnswerEchoes
INVARIANT ReadyBeforeUse
INVARIANT HeapLasts
PROPERTY NameAnswered
