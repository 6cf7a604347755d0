CONSTANTS
  RingSize = 3
  Slots = 2
  TxDescs = 2
  MaxPending = 2
  MaxFrames = 4
  Kinds = {"ARP", "other"}
SPECIFICATION FairSpec
INVARIANTS
  SignalsHaveRoom
  ReadsOldestFrame
PROPERTIES
  WokenFramesRead
  ImplementsFrameQueue
  CountedFramesRead
\* Everything waits once no more frames arrive.
CHECK_DEADLOCK FALSE
