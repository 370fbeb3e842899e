SPECIFICATION Spec
CONSTANTS
  UIntMod = 1073741824
  Urls <- LauncherUrls
  ServoDelay = 1
  LoopDelay = 1
  WdtTicks = 4
  Preempt = 0
  MaxWait = 0
INVARIANT PluckRunsAsDocumented
