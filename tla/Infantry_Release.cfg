SPECIFICATION Spec
CONSTANTS
  Conn = {c1, c2}
  Fd = {f1, f2}
  NoConn = NoConn
  NoFd = NoFd
  NoReq = NoReq
  Backlog = 2
  QueueLen = 2
  UIntMod = 1073741824
  ServoDelay = 1
  LoopDelay = 1
  WdtTicks = 4
  Preempt = 0
  MaxWait = 0
  Cells <- Up
  Buttons <- NoButtons
CHECK_DEADLOCK FALSE
INVARIANT RestAfterRelease
