SPECIFICATION WireSpec
CONSTANTS
  Packets <- MCPackets
  Messages = {3, 10, 40, 76, 110, 140}
  Buffer = 300
  Headroom = 64
  Overhead = 24
INVARIANTS PacketsFit DeliveredIntact PlainArrives
CHECK_DEADLOCK FALSE
