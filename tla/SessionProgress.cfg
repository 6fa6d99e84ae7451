\* One node with a second stream, on which it comes back after it was removed,
\* and two handshakes, of which one may kill ConnectionService for the other.
SPECIFICATION FairSpec
CONSTANTS
  Node = {1}
  MaxStream = 2
  MaxRecv = 1
  MaxHandshake = 2
INVARIANT
  DiesOfTakenDown
PROPERTIES
  SuccessUnlessTakenDown
  NobodyStuck
  WrongPasswordLeaves
  ImplementsMaster
\* Nothing happens any more when all nodes are served, or the thread is blocked.
CHECK_DEADLOCK FALSE
