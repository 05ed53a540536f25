SPECIFICATION Spec
CONSTANTS
  ByteBits = 2
  TargetBits = 4
  PageSize = 8
  NumPhysPages = 5
  UserStackSize = 16
  GPRegs = {0, 1, 2, 3, 29, 31}
  Code <- MCCode
  Executables <- MCExecutables
INVARIANTS
  MemorySafe
PROPERTIES
  ArchSpec
CHECK_DEADLOCK FALSE
