SPECIFICATION FairSpec
CONSTANTS
  main = main
  t1 = t1
  t2 = t2
  lock = lock
  w0 = w0
  w1 = w1
  w2 = w2
  NULL = NULL
  Threads <- MCThreadSet
  Main = main
  Semaphores <- MCSemaphores
  InitialValue <- MCInitialValue
  Devices = {}
  DoneSem <- MCDoneSem
  LockSem = lock
  Waiter <- MCWaiter
  i1 = i1
  i2 = i2
  Items = {i1, i2}
  NoItem = NoItem
  Appenders = {main, t1}
  Removers = {t1, t2}
  Appliers = {main}
  MaxItems = 2
INVARIANTS
  MonitorSafe
  NoItemStranded
PROPERTIES
  ListSpec
  ItemsTaken
