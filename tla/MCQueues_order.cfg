CONSTANTS
  Length = 4
  Events = {e1, e2}
  ZeroEvent = e1
  NoEvent = NoEvent
  Junk = Junk
  Addresses = {1, 2}
  QueueLength = 3
  MaxEvents = 4
  MaxAccepts = 3
  SendBuffer = 2
  EventRoom = 2
  AckTime = 2
  RxTime = 1
  LastPacketId = 2
  MaxPublishes = 2
  MaxMessages = 1
  BufferSize = 140
  Texts <- MCTexts
SPECIFICATION QueuesSpec
INVARIANT KeepsOrder
CHECK_DEADLOCK FALSE
