\* Two nodes that come, go and come back, three judgements.
SPECIFICATION Spec
CONSTANTS
  Node = {1, 2}
  Judge = {1, 2, 3}
  TotalTime = {0, 1}
INVARIANTS
  TypeOK
  IndexConsistent
  WorkAccounted
  NoIdleBacklog
  OnePlace
  WorkBounded
PROPERTIES
  PanicOnlyOnStaleTouch
  LossOnlyWithoutReadyNode
\* The actor stops for good once a handler has panicked.
CHECK_DEADLOCK FALSE
