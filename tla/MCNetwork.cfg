SPECIFICATION NetworkFairSpec
CONSTANTS
  Hosts = {0, 1}
  Boxes = {0, 1}
  ClientBoxes = {0}
  Clients = {0, 1, 2}
  HostOf <- MCHostOf
  Data = {"hello", "ack"}
  Reliabilities = {"never", "sometimes", "always"}
  Nobody = Nobody
INVARIANTS
  OfficeSafe
  AckMeansReceived
PROPERTIES
  MailSpec
  MailArrives
  SendsReturn
  TestEnds
CHECK_DEADLOCK FALSE
