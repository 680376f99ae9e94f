CONSTANTS
  MaxRequests = 8
  Faults = {"lost", "refused", "hung"}
  Pages = {"/page"}
  HeadLengths = {2, 4, 7}
  FileLength = 6
  TextLength = 2
  SendBuffer = 4
  Clients = {1, 2}
  MaxQueued = 1
  Room = 40
  Length = 20
  ControlLen = 10
  MaxPrints = 3
  MaxFrames = 1
  Segments = {1, 2, 3}
  ItemBuffer = 3
  Connections = {1, 2}
  StatBits = 3
SPECIFICATION NodeSpec
INVARIANTS
  FilesAgree
  
  BuffersLive
  
PROPERTIES
  RequestsEnd
  
CHECK_DEADLOCK FALSE
