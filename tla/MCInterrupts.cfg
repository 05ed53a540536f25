SPECIFICATION InterruptSpec
CONSTANTS
  UserTick = 1
  SystemTick = 3
  RotationTime = 2
  SeekTime = 3
  ConsoleTime = 2
  NetworkTime = 5
  TimerTicks = 2
  SectorsPerTrack = 3
  NumTracks = 2
  RandomSlice = TRUE
  MaxTicks = 26
CHECK_DEADLOCK FALSE
INVARIANTS
  OnTime
  OneEach
  DiskTiming
