SPECIFICATION Spec
CONSTANTS
  HeaderLen = 3
  BodyLen = 8
  BadLen = 2
  SendBuf = 4
  MaxIntr = 2
CHECK_DEADLOCK FALSE
INVARIANT TypeOK
INVARIANT StreamIntact
INVARIANT HonestResult
PROPERTY AnswerEnds
PROPERTY AnswerArrives
