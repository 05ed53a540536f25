SPECIFICATION KernelFairSpec
CONSTANTS
  main = main
  t1 = t1
  t2 = t2
  disk = disk
  NULL = NULL
  Threads <- MCThreadSet
  Main = main
  Semaphores <- MCSemaphores
  InitialValue <- MCInitialValue
  Devices <- MCDevices
  DoneSem <- MCDoneSem
  UserThreads = {t1}
  MaxValue = 1
INVARIANTS
  KernelTypeOK
  SchedulerInv
  ControlInv
  NoLostWakeup
  DestroySafe
  TickSafe
  UserContextSafe
PROPERTIES
  ReadyRuns
  ValueTaken
