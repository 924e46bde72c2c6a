CONSTANTS
  Clients = {c1, c2}
  Capacity = 1
  MaxMessages = 3
SPECIFICATION FairSpec
INVARIANTS
  NoSendOnClosed
  StreamIsComplete
PROPERTIES
  ImplementsPacketStream
  GoroutinesReturn
  QueuedIsDelivered
CHECK_DEADLOCK FALSE
