SPECIFICATION Spec
CONSTANTS
  Conns = {c1, c2, c3}
  Slots = 1
  BusyCap = 2
  Read = 2
  Linger = 1
  BusyRead = 1
  Room = 1
INVARIANTS SlotsBalance HonestReplies BoundedHold
PROPERTY SocketsClose
CHECK_DEADLOCK FALSE
