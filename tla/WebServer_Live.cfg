SPECIFICATION Spec
CONSTANTS
  Conn = {c1, c2, c3}
  Fd = {f1, f2}
  NoConn = NoConn
  NoFd = NoFd
  NoReq = NoReq
  Backlog = 2
  QueueLen = 2
  Request <- GetRequest
CHECK_DEADLOCK FALSE
PROPERTIES ConnectionReleased NewestRuns
