CONSTANTS
  MacLen = 2
  MinFrame = 26
  MaxFrame = 40
  NBus = 1
  NDev = 2
  NFun = 2
  TxBufs = 2
  TxBufSize = 24
  Firmware <- MCFirmware
  Timers <- MCTimers
  Spaces <- MCSpaces
  Frames <- MCFrames
  Mac <- MCMac
  Me <- MCMe
SPECIFICATION Spec
INVARIANTS
  
  NicsExact
  PortsRight
  ReplyExact
CHECK_DEADLOCK FALSE
