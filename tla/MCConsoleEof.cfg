SPECIFICATION FairSpec
CONSTANTS
  main = main
  t1 = t1
  t2 = t2
  keys = keys
  display = display
  inLock = inLock
  inWait = inWait
  outLock = outLock
  outWait = outWait
  EOF = EOF
  NULL = NULL
  Threads = {main, t1}
  Main = main
  Semaphores <- MCSemaphores
  InitialValue <- MCInitialValue
  Devices = {keys, display}
  DoneSem <- MCDoneSem
  Keyboard <- MCKeyboard
  Sizes = {0, 3}
  OutLength = 1
PROPERTIES
  EndOfInputReturns
