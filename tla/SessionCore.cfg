\* Two nodes with two streams, which share ConnectionService.
SPECIFICATION Spec
CONSTANTS
  Node = {1, 2}
  MaxStream = 2
  MaxRecv = 0
  MaxHandshake = 1
INVARIANTS
  TypeOK
  RegisteredHasStream
  LatestStream
\* Nothing happens any more when all nodes are served, or the thread is blocked.
CHECK_DEADLOCK FALSE
