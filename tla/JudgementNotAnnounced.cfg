\* One judgement of three test cases on a node that stays up.
SPECIFICATION FairSpec
CONSTANTS
  Node = {1}
  Judge = {1}
  Request <- LongRequest
  MaxHandshake = 0
  MaxBack = 0
PROPERTIES
  EndAnnounced
\* Nothing happens any more when the judgements have ended.
CHECK_DEADLOCK FALSE
