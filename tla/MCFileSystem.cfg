SPECIFICATION Spec
CONSTANTS
  NumSectors = 11
  SectorSize = 2
  NumDirEntries = 4
  SectorWords = 8
  NumDirect = 2
  TransferSize = 2
  JunkNames = {"a"}
  Junk = 9
  Names = {"in", "out", "a", "b", "c", "d"}
  Unix <- MCUnix
  Stdin = "in"
  Stdout = "out"
  Missing = Missing
INVARIANTS
  DiskAgrees
  ReadsFile
  CopyArrives
PROPERTIES
  FileMapSpec
CHECK_DEADLOCK FALSE
