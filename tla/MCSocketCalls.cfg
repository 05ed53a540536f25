SPECIFICATION Spec
CONSTANTS
  Names = {"f"}
  MaxFile = 4
  Fds = {1, 2}
  Inodes = {1, 2}
  MaxSize = 2
  MaxLength = 1
  Bytes = {0, 1}
  NULL = NULL
  MaxSocket = 2
  MaxLenghtData = 1
  Ids = {0, 1, 2}
  SOCKET = SOCKET
VIEW MCView
INVARIANTS
  SocketsAndFilesApart
PROPERTIES
  IdsAreStable
  WritesAreAllowed
CHECK_DEADLOCK FALSE
