SPECIFICATION Spec
CONSTANTS
  Conn = {c1, c2, c3, c4}
  Fd = {f1, f2}
  NoConn = NoConn
  NoFd = NoFd
  NoReq = NoReq
  Backlog = 2
  QueueLen = 2
  Request <- GetOrPost
CHECK_DEADLOCK FALSE
SYMMETRY Symmetry
INVARIANTS
  TypeOK HandlerOwnsSocket OpenSocketOwned AnsweredMeansPosted
  SendNeverRefused NewestSurvives OneCommandAtATime RunsInPostOrder
PROPERTY MailboxImplemented
