\* Two nodes with queues that hold judgements of before and after a clock has
\* advanced, and enough judgements for two to wait while both nodes are busy.
SPECIFICATION Spec
CONSTANTS
  Node = {1, 2}
  Judge = {1, 2, 3, 4}
  TotalTime = {1}
INVARIANTS
  DeadlineBounds
  PlacementIsLoop
PROPERTIES
  NoOvertakeOnceDue
  ImplementsDispatching
\* The actor stops for good once a handler has panicked.
CHECK_DEADLOCK FALSE
