\* Two judgements, of any kind, on one node that shakes hands up to twice, is
\* taken down up to twice and comes back in between; it may take the connection
\* service down with it.
SPECIFICATION FairSpec
CONSTANTS
  Node = {1}
  Judge = {1, 2}
  Request <- AllRequests
  MaxHandshake = 2
  MaxBack = 1
INVARIANTS
  TypeOK
  LockStep
  VerdictsInOrder
  StopsSettled
  PanicsExplained
PROPERTIES
  ImplementsJudging
  TestcaseCollected
\* Nothing happens any more when the judgements have ended.
CHECK_DEADLOCK FALSE
