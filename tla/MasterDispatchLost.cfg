\* One node, one judgement.
SPECIFICATION Spec
CONSTANTS
  Node = {1}
  Judge = {11}
  TotalTime = {1}
  MaxStream <- Streams
  MaxHandshake <- Handshakes
INVARIANTS
  DispatchDelivered
\* Nothing happens any more when all clients and nodes are served.
CHECK_DEADLOCK FALSE
