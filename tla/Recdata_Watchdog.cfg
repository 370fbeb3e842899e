SPECIFICATION Spec
CONSTANTS
  UIntMod = 1073741824
  Urls <- TimeUrls
  ServoDelay = 10
  LoopDelay = 6
  WdtTicks = 500
  Preempt = 2
  MaxWait = 505
INVARIANT WatchdogNeedsIdle
PROPERTY CommandCompletes
