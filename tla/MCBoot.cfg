CONSTANTS
  TxFifo = 2
  RxFifo = 1
  HeapSize = 1
SPECIFICATION FairSpec
INVARIANTS
  MessagesWhole
  HandlersReady
  NoHandlerSpins
  ForksFlushed
PROPERTIES
  HandlersReturn
CHECK_DEADLOCK FALSE
