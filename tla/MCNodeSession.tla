---------------------------- MODULE MCNodeSession ----------------------------
(***************************************************************************)
(* NodeSession implements what Master takes nodes and handshakes to do.    *)
(***************************************************************************)
EXTENDS NodeSession

\* Member number k of a set of numbers, and the messages of a mailbox that
\* are in M, in their order.
Nth(I, k)    == CHOOSE i \in I : Cardinality({m \in I : m <= i}) = k
Kept(box, M) ==
  LET I == {i \in DOMAIN box : box[i] \in M}
  IN  [k \in 1 .. Cardinality(I) |-> box[Nth(I, k)]]

\* The messages without those who wait for an answer, which Master has not.
Packet(msg)  ==
  IF msg.msg = "ReceivePacket" THEN [msg |-> msg.msg, node |-> msg.node] ELSE msg
Packets(box) == [i \in DOMAIN box |-> Packet(box[i])]
Issue(msg)   == [issue |-> msg.issue, of |-> msg.of]
Issues(box)  == [i \in DOMAIN box |-> Issue(box[i])]

\* The mailboxes: the DownNode a blocked thread waits for is never taken,
\* and Exists changes nothing in the scheduler.
Handled    == IF blocked THEN SubSeq(handler_box, 1, Len(handler_box) - 1) ELSE handler_box
HandlerBox == Packets(Handled)
Changes    == {m \in SchedulerIssue : m.issue # "Exists"}
SchedBox   == Issues(Kept(sched_box, Changes))

\* The handshakes that were sent, and the tasks that have still to act.
Tasks(n, states) == Cardinality({t \in Task : t[1] = n /\ task[t] \in states})
Handshakes       == [n \in Node |-> MaxHandshake - Tasks(n, {"none"})]
Unfinished       == [n \in Node |-> Tasks(n, {"right", "wrong", "refusing", "refused"})]

(* The refinement mapping.                                                 *)
Abstract == INSTANCE Master WITH
  Judge       <- {}, TotalTime <- {},
  MaxStream <- [n \in Node |-> MaxStream], MaxHandshake <- [n \in Node |-> MaxHandshake],
  requested <- {}, judge_addrs <- {},
  starting    <- {}, reached <- {}, handler_up <- TRUE,
  handshakes  <- Handshakes, tasks <- Unfinished,
  handler_box <- HandlerBox, sched_box <- SchedBox

(* With the answers, streams and receive streams left out, what the        *)
(* scheduler and HandlerService see is what Master assumes of nodes: the   *)
(* runs of Master hold for the sessions as they are.                       *)
ImplementsMaster == Abstract!Spec
=============================================================================
