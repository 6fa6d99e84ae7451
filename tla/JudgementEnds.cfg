\* Two nodes and two judgements, next to each other, one of which may panic or
\* lose its node.
SPECIFICATION FairSpec
CONSTANTS
  Node = {1, 2}
  Judge = {1, 2}
  Request <- EndingRequests
  MaxHandshake = 1
  MaxBack = 0
PROPERTIES
  JudgementEnds
\* Nothing happens any more when the judgements have ended.
CHECK_DEADLOCK FALSE
