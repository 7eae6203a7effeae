\* Base 2 stands for 128 and TypeUnit 1 for 16.  The stream ends: so may the
\* model.
SPECIFICATION Spec
CONSTANTS
  Base = 2
  U32Max = 16
  OverflowChecks = TRUE
  TypeUnit = 1
  Packets <- MCPackets
  BadBytes = {2}
  MaxPkts = 2
INVARIANTS
  TypeOK
  FramesIntact
  NoPacketWaits
  EndIsExact
PROPERTIES
  PacketsYielded
CHECK_DEADLOCK FALSE
