\* Two nodes, one of which may be removed and come back on a second stream,
\* and two judgements.
SPECIFICATION Spec
CONSTANTS
  Node = {1, 2}
  Judge = {11, 12}
  TotalTime = {1}
  MaxStream <- Streams
  MaxHandshake <- Handshakes
INVARIANTS
  TypeOK
  SchedulerSurvives
  AddressKnown
  OneJudgementPerStream
\* Nothing happens any more when all clients and nodes are served.
CHECK_DEADLOCK FALSE
