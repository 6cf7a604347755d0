CONSTANTS
  RingSize = 4
  Slots = 2
  TxDescs = 2
  MaxPending = 2
  MaxFrames = 3
  Kinds = {"ARP"}
SPECIFICATION FairSpec
PROPERTIES
  FramesReceived
\* Everything waits once no more frames arrive.
CHECK_DEADLOCK FALSE
