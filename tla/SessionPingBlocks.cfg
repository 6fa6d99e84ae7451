\* One node whose connection breaks.
SPECIFICATION FairSpec
CONSTANTS
  Node = {1}
  MaxStream = 1
  MaxRecv = 0
  MaxHandshake = 0
PROPERTIES
  LostNodeTakenDown
\* Nothing happens any more when all nodes are served, or the thread is blocked.
CHECK_DEADLOCK FALSE
