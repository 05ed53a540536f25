SPECIFICATION FairSpec
CONSTANTS
  main = main
  t1 = t1
  t2 = t2
  lock = lock
  done = done
  disk = disk
  NULL = NULL
  Threads <- MCThreadSet
  Main = main
  Semaphores <- MCSemaphores
  InitialValue <- MCInitialValue
  Devices = {disk}
  DoneSem <- MCDoneSem
  LockSem = lock
  DiskSem = done
INVARIANTS
  RequestSafe
PROPERTIES
  RequestReturns
