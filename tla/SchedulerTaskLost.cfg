\* The situation of test_ac1: one judgement, and one node that comes later.
SPECIFICATION Spec
CONSTANTS
  Node = {1}
  Judge = {1}
  TotalTime = {1}
INVARIANTS
  NoTaskLost
\* The actor stops for good once a handler has panicked.
CHECK_DEADLOCK FALSE
