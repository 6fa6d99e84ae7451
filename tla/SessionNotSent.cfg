\* One node with one handshake.
SPECIFICATION Spec
CONSTANTS
  Node = {1}
  MaxStream = 1
  MaxRecv = 0
  MaxHandshake = 1
INVARIANTS
  SendSurvived
\* Nothing happens any more when all nodes are served, or the thread is blocked.
CHECK_DEADLOCK FALSE
