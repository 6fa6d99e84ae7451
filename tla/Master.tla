-------------------------------- MODULE Master --------------------------------
(***************************************************************************)
(* HandlerService (src/handler/mod.rs) and the scheduler, each with its    *)
(* mailbox, the JudgeServices up to their start, the accept loop of the    *)
(* connection service (src/handler/connection.rs) as far as it announces   *)
(* nodes, and the handshake tasks (src/commands/handshake.rs).  The        *)
(* handlers of the scheduler are those of Scheduler.                       *)
(*                                                                         *)
(* A node has one connection, on which it opens bidirectional streams and  *)
(* sends handshakes; the streams themselves are taken to work.  Reports of *)
(* slaves are in Judgement.                                                *)
(***************************************************************************)
EXTENDS Integers, FiniteSets, Sequences

CONSTANTS
  Node,          \* UUIDs of the nodes that may connect
  Judge,         \* UUIDs of the judgements that clients may request
  TotalTime,     \* the estimated_time values of their requests
  MaxStream,     \* bound on the bidirectional streams of each node's connection
  MaxHandshake   \* bound on the handshakes of each node

ASSUME NodeAssumption      == Node \subseteq Nat \ {0}
ASSUME JudgeAssumption     == Judge \subseteq Nat \ {0}
ASSUME TimeAssumption      == TotalTime \subseteq Nat
\* Uuid::new_v4 and the clients' UUIDs do not collide.
ASSUME UuidAssumption      == Node \cap Judge = {}
ASSUME BoundAssumption     == MaxStream \in [Node -> Nat] /\ MaxHandshake \in [Node -> Nat]

VARIABLES nodes, shared_key, pending, nodes_sz, nodes_by_sz, node_time,
          dispatched, submitted, running     \* those of Scheduler

VARIABLES
  requested,     \* judgements requested by clients so far
  streams,       \* bidirectional streams accepted from each node
  handshakes,    \* handshakes each node has sent
  handler_box,   \* mailbox of HandlerService
  handler_up,    \* FALSE once it has panicked
  sched_box,     \* mailbox of the scheduler
  judge_addrs,   \* judgements whose JudgeService HandlerService knows
  starting,      \* those of them whose `started` has not run yet
  tasks,         \* handshake tasks spawned and not yet run: how many per node
  reached        \* JudgeMessage::Dispatch sent: set of <<judgement, node>>

schedVars == <<nodes, shared_key, pending, nodes_sz, nodes_by_sz, node_time,
               dispatched, submitted, running>>
vars == <<schedVars, requested, streams, handshakes, handler_box, handler_up,
          sched_box, judge_addrs, starting, tasks, reached>>

Sched == INSTANCE Scheduler

-----------------------------------------------------------------------------
(* HandlerMessage and SchedulerIssue.                                      *)
ReceiveHandshake(n) == [msg |-> "ReceivePacket", node |-> n]
Request(j)          == [msg |-> "Judge", judge |-> j]
DispatchJudge(a, b) == [msg |-> "DispatchJudge", first |-> a, second |-> b]
DownNode(n)         == [msg |-> "DownNode", node |-> n]

NewNode(n)              == [issue |-> "NewNode", of |-> n]
RemoveNode(n)           == [issue |-> "RemoveNode", of |-> n]
NewTask(j)              == [issue |-> "NewTask", of |-> j]
HandshakeEstablished(n) == [issue |-> "HandshakeEstablished", of |-> n]

\* do_send, or a send whose answer is not looked at.
ToHandler(msg) ==
  handler_box' = IF handler_up THEN Append(handler_box, msg) ELSE handler_box
ToScheduler(issue) == sched_box' = Append(sched_box, issue)

-----------------------------------------------------------------------------
Init ==
  /\ Sched!Init
  /\ requested = {} /\ streams = [n \in Node |-> 0] /\ handshakes = [n \in Node |-> 0]
  /\ handler_box = <<>> /\ handler_up = TRUE
  /\ sched_box = <<>>
  /\ judge_addrs = {} /\ starting = {} /\ reached = {}
  /\ tasks = [n \in Node |-> 0]

(* A client requests a judgement.                                          *)
Submit(j) ==
  /\ j \notin requested
  /\ requested' = requested \cup {j}
  /\ ToHandler(Request(j))
  /\ UNCHANGED <<schedVars, streams, handshakes, handler_up, sched_box, judge_addrs,
                 starting, tasks, reached>>

(* The accept loop takes a bidirectional stream: the id of the node is     *)
(* that of the connection, so a second stream announces the same node.     *)
OpenStream(n) ==
  /\ streams[n] < MaxStream[n]
  /\ streams' = [streams EXCEPT ![n] = @ + 1]
  /\ ToScheduler(NewNode(n))
  /\ UNCHANGED <<schedVars, requested, handshakes, handler_box, handler_up, judge_addrs,
                 starting, tasks, reached>>

(* A handshake packet of a node with a stream reaches HandlerService.          *)
SendHandshake(n) ==
  /\ streams[n] > 0
  /\ handshakes[n] < MaxHandshake[n]
  /\ handshakes' = [handshakes EXCEPT ![n] = @ + 1]
  /\ ToHandler(ReceiveHandshake(n))
  /\ UNCHANGED <<schedVars, requested, streams, handler_up, sched_box, judge_addrs,
                 starting, tasks, reached>>

-----------------------------------------------------------------------------
(* HandlerService.                                                         *)

HandlerTakes(msg) ==
  /\ handler_up /\ handler_box # <<>> /\ Head(handler_box).msg = msg
  /\ handler_box' = Tail(handler_box)
  /\ UNCHANGED <<schedVars, requested, streams, handshakes>>

\* Command::Handshake: the task runs on its own.
HandleHandshake ==
  /\ HandlerTakes("ReceivePacket")
  /\ tasks' = [tasks EXCEPT ![Head(handler_box).node] = @ + 1]
  /\ UNCHANGED <<handler_up, sched_box, judge_addrs, starting, reached>>

\* Mutant of HandleJudge: the address of the JudgeService is not kept.
HandleJudgeForgets ==
  /\ HandlerTakes("Judge")
  /\ starting' = starting \cup {Head(handler_box).judge}
  /\ UNCHANGED <<handler_up, sched_box, judge_addrs, tasks, reached>>

HandleJudge ==
  /\ HandlerTakes("Judge")
  /\ judge_addrs' = judge_addrs \cup {Head(handler_box).judge}
  /\ starting' = starting \cup {Head(handler_box).judge}
  /\ UNCHANGED <<handler_up, sched_box, tasks, reached>>

\* The fields are taken as (node_id, judge_uuid), and judge_addrs is indexed.
HandleDispatch ==
  /\ handler_up /\ handler_box # <<>> /\ Head(handler_box).msg = "DispatchJudge"
  /\ LET node_id    == Head(handler_box).first
         judge_uuid == Head(handler_box).second
     IN  IF judge_uuid \in judge_addrs
         THEN /\ reached' = reached \cup {<<judge_uuid, node_id>>}
              /\ handler_box' = Tail(handler_box)
              /\ UNCHANGED handler_up
         ELSE /\ handler_up' = FALSE
              /\ handler_box' = <<>>
              /\ UNCHANGED reached
  /\ UNCHANGED <<schedVars, requested, streams, handshakes, sched_box, judge_addrs,
                 starting, tasks>>

\* The stream of the node is deleted, too.
HandleDown ==
  /\ HandlerTakes("DownNode")
  /\ ToScheduler(RemoveNode(Head(handler_box).node))
  /\ UNCHANGED <<handler_up, judge_addrs, starting, tasks, reached>>

-----------------------------------------------------------------------------
(* JudgeService::started.                                                  *)
JudgeStarted(j) ==
  /\ j \in starting
  /\ starting' = starting \ {j}
  /\ ToScheduler(NewTask(j))
  /\ UNCHANGED <<schedVars, requested, streams, handshakes, handler_box, handler_up,
                 judge_addrs, tasks, reached>>

(* handle_handshake: with the right password the scheduler is told, with a *)
(* wrong one the node is taken down.                                       *)
RunTask(n) ==
  /\ tasks[n] > 0
  /\ tasks' = [tasks EXCEPT ![n] = @ - 1]
  /\ \/ ToScheduler(HandshakeEstablished(n)) /\ UNCHANGED handler_box
     \/ ToHandler(DownNode(n)) /\ UNCHANGED sched_box
  /\ UNCHANGED <<schedVars, requested, streams, handshakes, handler_up, judge_addrs,
                 starting, reached>>

-----------------------------------------------------------------------------
(* The scheduler.                                                          *)

SchedulerTakes(issue) ==
  /\ running /\ sched_box # <<>> /\ Head(sched_box).issue = issue
  /\ sched_box' = Tail(sched_box)
  /\ UNCHANGED <<requested, streams, handshakes, handler_up, judge_addrs, starting,
                 tasks, reached>>

\* touch sends DispatchJudge(judgement, node, key), rebalance does so in the
\* order of the nodes.
Announce ==
  LET new == dispatched' \ dispatched
  IN  \E sent \in [1 .. Cardinality(new) -> new] :
        /\ \A i, k \in DOMAIN sent : i < k => sent[i][2] < sent[k][2]
        /\ handler_box' = IF handler_up
                          THEN handler_box \o
                                 [i \in DOMAIN sent |-> DispatchJudge(sent[i][1], sent[i][2])]
                          ELSE handler_box

TakeNewNode ==
  LET n == Head(sched_box).of
  IN  /\ SchedulerTakes("NewNode")
      /\ Sched!Register(n) \/ (n \in DOMAIN nodes /\ UNCHANGED schedVars)
      /\ Announce

TakeRemoveNode ==
  LET n == Head(sched_box).of
  IN  /\ SchedulerTakes("RemoveNode")
      /\ Sched!Unregister(n) \/ (n \notin DOMAIN nodes /\ UNCHANGED schedVars)
      /\ Announce

TakeHandshake ==
  LET n == Head(sched_box).of
  IN  /\ SchedulerTakes("HandshakeEstablished")
      /\ Sched!Promote(n) \/ (n \notin DOMAIN nodes /\ UNCHANGED schedVars)
      /\ Announce

TakeTask ==
  /\ SchedulerTakes("NewTask")
  /\ \E t \in TotalTime, w \in Sched!Weight : Sched!Push(Head(sched_box).of, t, w)
  /\ Announce

-----------------------------------------------------------------------------
HandlerStep   == HandleHandshake \/ HandleJudge \/ HandleDispatch \/ HandleDown
SchedulerStep == TakeNewNode \/ TakeRemoveNode \/ TakeHandshake \/ TakeTask

Next ==
  \/ \E j \in Judge : Submit(j) \/ JudgeStarted(j)
  \/ \E n \in Node : OpenStream(n) \/ SendHandshake(n) \/ RunTask(n)
  \/ HandlerStep
  \/ SchedulerStep

Spec == Init /\ [][Next]_vars

-----------------------------------------------------------------------------
(* Invariants.                                                             *)

HandlerMessage ==
  [msg : {"ReceivePacket", "DownNode"}, node : Node] \cup
  [msg : {"Judge"}, judge : Judge] \cup
  [msg : {"DispatchJudge"}, first : Judge, second : Node]
SchedulerIssue ==
  [issue : {"NewNode", "RemoveNode", "HandshakeEstablished"}, of : Node] \cup
  [issue : {"NewTask"}, of : Judge]

(* The types of the mailboxes and of HandlerService's state.               *)
TypeOK ==
  /\ Sched!TypeOK
  /\ requested \subseteq Judge /\ judge_addrs \subseteq Judge
  /\ starting \subseteq judge_addrs
  /\ streams \in [Node -> Nat] /\ handshakes \in [Node -> Nat]
  /\ \A n \in Node : streams[n] <= MaxStream[n] /\ handshakes[n] <= MaxHandshake[n]
  /\ handler_box \in Seq(HandlerMessage) /\ handler_up \in BOOLEAN
  /\ sched_box \in Seq(SchedulerIssue)
  /\ tasks \in [Node -> Nat]
  /\ reached \subseteq Judge \X Node

(* The scheduler never panics: no order in which the accept loop, the      *)
(* handshake tasks, HandlerService and the judgements send to it makes one *)
(* of its lookups fail.                                                    *)
SchedulerSurvives == running

(* HandlerService has the address of every JudgeService whose judgement    *)
(* the scheduler knows or will hear of, so it can always be found by the   *)
(* judgement a DispatchJudge is about.                                     *)
AddressKnown ==
  /\ submitted \subseteq judge_addrs
  /\ \A i \in DOMAIN sched_box :
       sched_box[i].issue = "NewTask" => sched_box[i].of \in judge_addrs
  /\ \A i \in DOMAIN handler_box :
       handler_box[i].msg = "DispatchJudge" => handler_box[i].first \in judge_addrs

(* Nothing sends a Touch, so a node is handed one judgement, and another   *)
(* one only after it was removed and has opened a further stream.          *)
OneJudgementPerStream ==
  \A n \in Node : Cardinality({d \in dispatched : d[2] = n}) <= streams[n]

-----------------------------------------------------------------------------
(* What the code does not do.                                              *)

(* src/tests/mod.rs requests a judgement, lets a slave connect and waits   *)
(* for the verdict: a judgement that is dispatched has to get past         *)
(* HandlerService.                                                         *)
DispatchDelivered ==
  \A d \in dispatched :
    \/ d \in reached
    \/ \E i \in DOMAIN handler_box : handler_box[i] = DispatchJudge(d[1], d[2])
=============================================================================
