----------------------------- MODULE NodeSession -----------------------------
(***************************************************************************)
(* The session of a node with the master: the accept loop of its           *)
(* connection and the ConnectionService (src/handler/connection.rs), the   *)
(* actors of its streams (src/handler/stream.rs, recv_stream.rs), the      *)
(* handshake tasks with what they wait for (src/commands/handshake.rs),    *)
(* and HandlerService and the scheduler as far as they serve them.  No     *)
(* judgement is requested here, Master and Judgement have those.           *)
(*                                                                         *)
(* Everything runs on one thread: an actor or task that waits (`await`) is *)
(* a program counter and lets the others go on; one that blocks the thread *)
(* stops them all.  A panic kills one actor; who waits for its answer gets *)
(* an error, which all of this code ignores.                               *)
(***************************************************************************)
EXTENDS Integers, FiniteSets, Sequences, Functions

CONSTANTS
  Node,          \* UUIDs of the nodes; each has one connection
  MaxStream,     \* bound on the bidirectional streams of a connection
  MaxRecv,       \* bound on its receive streams
  MaxHandshake   \* bound on the handshakes a node sends

ASSUME NodeAssumption  == Node \subseteq Nat \ {0}
ASSUME BoundAssumption == MaxStream \in Nat /\ MaxRecv \in Nat /\ MaxHandshake \in Nat

Stream == Node \X (1 .. MaxStream)      \* the StreamActors
Task   == Node \X (1 .. MaxHandshake)   \* the handshake packets and their tasks

VARIABLES nodes, shared_key, pending, nodes_sz, nodes_by_sz, node_time,
          dispatched, submitted, running     \* those of Scheduler

VARIABLES
  accept,       \* where the accept loop of each connection is
  streams,      \* bidirectional streams accepted so far
  recvs,        \* RecvStreamActors started, any of which may still run
  stream,       \* StreamActor: "none", "running", "stopped", "panicked"
  stream_box,   \* its messages of ConnectionService
  task,         \* where each handshake is
  handler_box,  \* mailbox of HandlerService
  sched_box,    \* mailbox of the scheduler
  connections,  \* ConnectionService: the last announced stream of a node
  conn_box,     \* its mailbox
  conn_up,      \* FALSE once it has panicked
  lost,         \* nodes whose connection is broken
  blocked       \* TRUE once the thread waits for one of its own actors

schedVars  == <<nodes, shared_key, pending, nodes_sz, nodes_by_sz, node_time,
                dispatched, submitted, running>>
nodeVars   == <<accept, streams, recvs>>
streamVars == <<stream, stream_box>>
connVars   == <<connections, conn_box, conn_up>>
vars == <<schedVars, nodeVars, streamVars, connVars, task, handler_box, sched_box,
          lost, blocked>>

Sched == INSTANCE Scheduler WITH Judge <- {}, TotalTime <- {}

-----------------------------------------------------------------------------
(* The messages, with who waits for the answer.                            *)
ReceivePacket(t, right) == [msg |-> "ReceivePacket", node |-> t[1], task |-> t, right |-> right]
DownNode(n)             == [msg |-> "DownNode", node |-> n]

NewNode(n)              == [issue |-> "NewNode", of |-> n]
RemoveNode(n)           == [issue |-> "RemoveNode", of |-> n]
Exists(n)               == [issue |-> "Exists", of |-> n]
HandshakeEstablished(t) == [issue |-> "HandshakeEstablished", of |-> t[1], task |-> t]

NewStream(n, k) == [op |-> "NewStream", node |-> n, stream |-> k]
Send(t)         == [op |-> "Send", node |-> t[1], task |-> t]
DeleteStream(n) == [op |-> "DeleteStream", node |-> n]

Goes(t, from, to)   == task[t] = from /\ task' = [task EXCEPT ![t] = to]
Loops(n, from, to)  == accept[n] = from /\ accept' = [accept EXCEPT ![n] = to]
ToHandler(msg)      == handler_box' = Append(handler_box, msg)
ToScheduler(issue)  == sched_box' = Append(sched_box, issue)
ToConnection(msg)   == conn_box' = Append(conn_box, msg)

-----------------------------------------------------------------------------
Init ==
  /\ Sched!Init
  /\ accept = [n \in Node |-> "idle"] /\ streams = [n \in Node |-> 0]
  /\ recvs = [n \in Node |-> 0]
  /\ stream = [s \in Stream |-> "none"] /\ stream_box = [s \in Stream |-> <<>>]
  /\ task = [t \in Task |-> "none"]
  /\ handler_box = <<>> /\ sched_box = <<>>
  /\ connections = <<>> /\ conn_box = <<>> /\ conn_up = TRUE
  /\ lost = {} /\ blocked = FALSE

(* The connection of a node breaks.                                        *)
Lose(n) ==
  /\ lost' = lost \cup {n}
  /\ UNCHANGED <<schedVars, nodeVars, streamVars, connVars, task, handler_box,
                 sched_box, blocked>>

-----------------------------------------------------------------------------
(* The accept loop of a connection.  It takes the next stream only when it *)
(* is through with the one before.                                         *)

AcceptBidirectional(n) ==
  /\ n \notin lost /\ streams[n] < MaxStream
  /\ Loops(n, "idle", "registering")
  /\ streams' = [streams EXCEPT ![n] = @ + 1]
  /\ ToScheduler(NewNode(n))
  /\ UNCHANGED <<schedVars, recvs, streamVars, connVars, task, handler_box>>

(* Mutant of StartStream: the stream is not announced.                     *)
StartStreamQuietly(n) ==
  /\ Loops(n, "registered", "idle")
  /\ stream' = [stream EXCEPT ![<<n, streams[n]>>] = "running"]
  /\ UNCHANGED <<schedVars, streams, recvs, stream_box, connVars, task,
                 handler_box, sched_box>>

(* Mutant of StartStream: the stream is announced, but not started.        *)
StartStreamNever(n) ==
  /\ Loops(n, "registered", IF conn_up THEN "announcing" ELSE "idle")
  /\ IF conn_up THEN ToConnection(NewStream(n, streams[n])) ELSE UNCHANGED conn_box
  /\ UNCHANGED <<schedVars, streams, recvs, streamVars, connections, conn_up, task,
                 handler_box, sched_box>>

(* The answer of the scheduler is ignored; a dead ConnectionService gives  *)
(* its error at once.                                                      *)
StartStream(n) ==
  /\ Loops(n, "registered", IF conn_up THEN "announcing" ELSE "idle")
  /\ stream' = [stream EXCEPT ![<<n, streams[n]>>] = "running"]
  /\ IF conn_up THEN ToConnection(NewStream(n, streams[n])) ELSE UNCHANGED conn_box
  /\ UNCHANGED <<schedVars, streams, recvs, stream_box, connections, conn_up, task,
                 handler_box, sched_box>>

AcceptReceive(n) ==
  /\ n \notin lost /\ recvs[n] < MaxRecv
  /\ Loops(n, "idle", "asking")
  /\ ToScheduler(Exists(n))
  /\ UNCHANGED <<schedVars, streams, recvs, streamVars, connVars, task, handler_box>>

StartReceive(n) ==
  /\ Loops(n, "found", "idle")
  /\ recvs' = [recvs EXCEPT ![n] = @ + 1]
  /\ UNCHANGED <<schedVars, streams, streamVars, connVars, task, handler_box, sched_box>>

RefuseReceive(n) ==
  /\ Loops(n, "refused", "idle")
  /\ UNCHANGED <<schedVars, streams, recvs, streamVars, connVars, task, handler_box,
                 sched_box>>

AcceptEnds(n) ==
  /\ n \in lost
  /\ Loops(n, "idle", "ended")
  /\ UNCHANGED <<schedVars, streams, recvs, streamVars, connVars, task, handler_box,
                 sched_box>>

-----------------------------------------------------------------------------
(* The actors of the streams.                                              *)

\* A handshake packet is passed on by the actor of the stream it came in on;
\* what an actor that has stopped is sent is dropped.
ForwardHandshake(t) ==
  /\ recvs[t[1]] > 0 \/ \E k \in 1 .. MaxStream : stream[<<t[1], k>>] = "running"
  /\ t[2] > 1 => task[<<t[1], t[2] - 1>>] # "none"
  /\ Goes(t, "none", "sent")
  /\ \E right \in BOOLEAN : ToHandler(ReceivePacket(t, right))
  /\ UNCHANGED <<schedVars, nodeVars, streamVars, connVars, sched_box>>

\* Either message ends the actor, and with it what else it was sent.
StreamTakes(s, msg) ==
  /\ stream[s] = "running" /\ stream_box[s] # <<>> /\ Head(stream_box[s]) = msg
  /\ stream_box' = [stream_box EXCEPT ![s] = <<>>]
  /\ UNCHANGED <<schedVars, nodeVars, connVars, task, handler_box, sched_box>>

\* System::new() on a thread that runs one panics before anything is written.
StreamSend(s) ==
  /\ StreamTakes(s, "Send")
  /\ stream' = [stream EXCEPT ![s] = "panicked"]

StreamDelete(s) ==
  /\ StreamTakes(s, "Delete")
  /\ stream' = [stream EXCEPT ![s] = "stopped"]

(* The timer of a StreamActor on a broken connection: block_on waits for   *)
(* HandlerService, which needs the same thread.                            *)
Ping(s) ==
  /\ stream[s] = "running" /\ s[1] \in lost
  /\ ToHandler(DownNode(s[1]))
  /\ blocked' = TRUE
  /\ UNCHANGED <<schedVars, nodeVars, streamVars, connVars, task, sched_box, lost>>

-----------------------------------------------------------------------------
(* HandlerService.                                                         *)

HandlerTakes(msg) ==
  /\ handler_box # <<>> /\ Head(handler_box).msg = msg
  /\ handler_box' = Tail(handler_box)
  /\ UNCHANGED <<schedVars, nodeVars, streamVars, connections, conn_up>>

HandleHandshake ==
  /\ HandlerTakes("ReceivePacket")
  /\ Goes(Head(handler_box).task, "sent",
          IF Head(handler_box).right THEN "right" ELSE "wrong")
  /\ UNCHANGED <<sched_box, conn_box>>

\* Mutant of HandleDown: the node stays in the scheduler.
HandleDownKeepsNode ==
  /\ HandlerTakes("DownNode")
  /\ conn_box' = IF conn_up THEN Append(conn_box, DeleteStream(Head(handler_box).node))
                 ELSE conn_box
  /\ UNCHANGED <<task, sched_box>>

HandleDown ==
  /\ HandlerTakes("DownNode")
  /\ IF conn_up THEN ToConnection(DeleteStream(Head(handler_box).node))
     ELSE UNCHANGED conn_box
  /\ ToScheduler(RemoveNode(Head(handler_box).node))
  /\ UNCHANGED task

-----------------------------------------------------------------------------
(* handle_handshake.  The right password: the scheduler is asked, then the *)
(* node is told of its success, whatever the scheduler answered.           *)

AskPromotion(t) ==
  /\ Goes(t, "right", "promoting")
  /\ ToScheduler(HandshakeEstablished(t))
  /\ UNCHANGED <<schedVars, nodeVars, streamVars, connVars, handler_box>>

\* The answer goes out through ConnectionService, if that is alive.
Answer(t, from, waiting, done) ==
  /\ Goes(t, from, IF conn_up THEN waiting ELSE done)
  /\ IF conn_up THEN ToConnection(Send(t)) ELSE UNCHANGED conn_box
  /\ UNCHANGED <<schedVars, nodeVars, streamVars, connections, conn_up, handler_box,
                 sched_box>>

Greet(t) == Answer(t, "promoted", "greeting", "greeted")

(* The wrong password: the node is told, then taken down.                  *)
Refuse(t) == Answer(t, "wrong", "refusing", "refused")

TakeDown(t) ==
  /\ Goes(t, "refused", "down")
  /\ ToHandler(DownNode(t[1]))
  /\ UNCHANGED <<schedVars, nodeVars, streamVars, connVars, sched_box>>

-----------------------------------------------------------------------------
(* The scheduler.                                                          *)

SchedulerTakes(issue) ==
  /\ sched_box # <<>> /\ Head(sched_box).issue = issue
  /\ sched_box' = Tail(sched_box)
  /\ UNCHANGED <<streams, recvs, streamVars, connVars, handler_box>>

TakeNewNode ==
  LET n == Head(sched_box).of
  IN  /\ SchedulerTakes("NewNode")
      /\ Sched!Register(n) \/ (n \in DOMAIN nodes /\ UNCHANGED schedVars)
      /\ Loops(n, "registering", "registered")
      /\ UNCHANGED task

TakeRemoveNode ==
  LET n == Head(sched_box).of
  IN  /\ SchedulerTakes("RemoveNode")
      /\ Sched!Unregister(n) \/ (n \notin DOMAIN nodes /\ UNCHANGED schedVars)
      /\ UNCHANGED <<accept, task>>

TakeHandshake ==
  LET n == Head(sched_box).of
  IN  /\ SchedulerTakes("HandshakeEstablished")
      /\ Sched!Promote(n) \/ (n \notin DOMAIN nodes /\ UNCHANGED schedVars)
      /\ Goes(Head(sched_box).task, "promoting", "promoted")
      /\ UNCHANGED accept

TakeExists ==
  LET n == Head(sched_box).of
  IN  /\ SchedulerTakes("Exists")
      /\ Loops(n, "asking", IF n \in DOMAIN nodes THEN "found" ELSE "refused")
      /\ UNCHANGED <<schedVars, task>>

-----------------------------------------------------------------------------
(* ConnectionService.                                                      *)

ConnectionTakes(op) ==
  /\ conn_up /\ conn_box # <<>> /\ Head(conn_box).op = op
  /\ conn_box' = Tail(conn_box)
  /\ UNCHANGED <<schedVars, streams, recvs, conn_up, stream, handler_box, sched_box>>

\* do_send to the StreamActor that connections has for the node.
ToStream(n, msg) ==
  LET s == <<n, connections[n]>>
  IN  /\ n \in DOMAIN connections
      /\ stream_box' = [stream_box EXCEPT ![s] =
                          IF stream[s] = "running" THEN Append(@, msg) ELSE @]

\* Who waits for ConnectionService has its answer, or its error.
Answered(t) ==
  CASE task[t] = "greeting" -> "greeted" [] task[t] = "refusing" -> "refused"
    [] OTHER -> task[t]

\* Mutant of HandleNewStream: a stream that is already there is kept.
HandleNewStreamOnce ==
  LET n == Head(conn_box).node
  IN  /\ ConnectionTakes("NewStream")
      /\ connections' = IF n \in DOMAIN connections THEN connections
                        ELSE Sched!Insert(connections, n, Head(conn_box).stream)
      /\ Loops(n, "announcing", "idle")
      /\ UNCHANGED <<task, stream_box>>

HandleNewStream ==
  LET n == Head(conn_box).node
  IN  /\ ConnectionTakes("NewStream")
      /\ connections' = Sched!Insert(connections, n, Head(conn_box).stream)
      /\ Loops(n, "announcing", "idle")
      /\ UNCHANGED <<task, stream_box>>

HandleSend ==
  /\ ConnectionTakes("Send")
  /\ ToStream(Head(conn_box).node, "Send")
  /\ task' = [task EXCEPT ![Head(conn_box).task] = Answered(Head(conn_box).task)]
  /\ UNCHANGED <<connections, accept>>

HandleDelete ==
  LET n == Head(conn_box).node
  IN  /\ ConnectionTakes("DeleteStream")
      /\ ToStream(n, "Delete")
      /\ connections' = Sched!Without(connections, n)
      /\ UNCHANGED <<task, accept>>

\* Mutant of ConnectionPanics: those who wait are not given an error.
ConnectionPanicsSilently ==
  /\ conn_up /\ conn_box # <<>>
  /\ Head(conn_box).op \in {"Send", "DeleteStream"}
  /\ Head(conn_box).node \notin DOMAIN connections
  /\ conn_up' = FALSE /\ conn_box' = <<>> /\ connections' = <<>>
  /\ UNCHANGED <<schedVars, nodeVars, streamVars, task, handler_box, sched_box>>

\* connections is indexed.  The mailbox goes, and all who wait on it go on.
ConnectionPanics ==
  /\ conn_up /\ conn_box # <<>>
  /\ Head(conn_box).op \in {"Send", "DeleteStream"}
  /\ Head(conn_box).node \notin DOMAIN connections
  /\ conn_up' = FALSE /\ conn_box' = <<>> /\ connections' = <<>>
  /\ accept' = [n \in Node |-> IF accept[n] = "announcing" THEN "idle" ELSE accept[n]]
  /\ task' = [t \in Task |-> Answered(t)]
  /\ UNCHANGED <<schedVars, streams, recvs, streamVars, handler_box, sched_box>>

-----------------------------------------------------------------------------
AcceptStep(n)   == \/ StartStream(n) \/ StartReceive(n) \/ RefuseReceive(n)
                   \/ AcceptEnds(n)
StreamStep(s)   == StreamSend(s) \/ StreamDelete(s)
TaskStep(t)     == AskPromotion(t) \/ Greet(t) \/ Refuse(t) \/ TakeDown(t)
HandlerStep     == HandleHandshake \/ HandleDown
SchedulerStep   == TakeNewNode \/ TakeRemoveNode \/ TakeHandshake \/ TakeExists
ConnectionStep  == HandleNewStream \/ HandleSend \/ HandleDelete \/ ConnectionPanics

\* What the thread runs, as long as nothing blocks it.
OnThread(A) == ~blocked /\ A /\ UNCHANGED <<lost, blocked>>

Next ==
  \/ \E n \in Node : Lose(n)
  \/ \E n \in Node : OnThread(AcceptBidirectional(n) \/ AcceptReceive(n) \/ AcceptStep(n))
  \/ \E s \in Stream : OnThread(StreamStep(s)) \/ (~blocked /\ Ping(s))
  \/ \E t \in Task : OnThread(ForwardHandshake(t) \/ TaskStep(t))
  \/ OnThread(HandlerStep) \/ OnThread(SchedulerStep) \/ OnThread(ConnectionStep)

Spec == Init /\ [][Next]_vars

(* The runtime polls every actor with a message, every task and every      *)
(* timer, unless it is blocked.  Nodes need not send anything or break.    *)
Fairness ==
  /\ \A n \in Node : WF_vars(OnThread(AcceptStep(n)))
  /\ \A s \in Stream : WF_vars(OnThread(StreamStep(s))) /\ WF_vars(~blocked /\ Ping(s))
  /\ \A t \in Task : WF_vars(OnThread(TaskStep(t)))
  /\ WF_vars(OnThread(HandlerStep)) /\ WF_vars(OnThread(SchedulerStep))
  /\ WF_vars(OnThread(ConnectionStep))

FairSpec == Spec /\ Fairness

-----------------------------------------------------------------------------
(* Invariants.                                                             *)

HandlerMessage ==
  [msg : {"ReceivePacket"}, node : Node, task : Task, right : BOOLEAN] \cup
  [msg : {"DownNode"}, node : Node]
SchedulerIssue ==
  [issue : {"NewNode", "RemoveNode", "Exists"}, of : Node] \cup
  [issue : {"HandshakeEstablished"}, of : Node, task : Task]
ConnectionMessage ==
  [op : {"NewStream"}, node : Node, stream : 1 .. MaxStream] \cup
  [op : {"Send"}, node : Node, task : Task] \cup
  [op : {"DeleteStream"}, node : Node]

(* The types of the mailboxes and program counters; connections leads to   *)
(* StreamActors that were started.                                         *)
TypeOK ==
  /\ Sched!TypeOK
  /\ accept \in [Node -> {"idle", "registering", "registered", "announcing", "asking",
                          "found", "refused", "ended"}]
  /\ streams \in [Node -> 0 .. MaxStream] /\ recvs \in [Node -> 0 .. MaxRecv]
  /\ stream \in [Stream -> {"none", "running", "stopped", "panicked"}]
  /\ stream_box \in [Stream -> Seq({"Send", "Delete"})]
  /\ task \in [Task -> {"none", "sent", "right", "promoting", "promoted", "greeting",
                        "greeted", "wrong", "refusing", "refused", "down"}]
  /\ handler_box \in Seq(HandlerMessage) /\ sched_box \in Seq(SchedulerIssue)
  /\ DOMAIN connections \subseteq Node
  /\ \A n \in DOMAIN connections : stream[<<n, connections[n]>>] # "none"
  /\ conn_box \in Seq(ConnectionMessage) /\ conn_up \in BOOLEAN
  /\ lost \subseteq Node /\ blocked \in BOOLEAN

In(msg, box) == \E i \in DOMAIN box : box[i] = msg

(* A node the scheduler may give work to has a stream, or is about to get  *)
(* one, or its removal is on the way: the two halves of a DownNode and the *)
(* two halves of a new stream go to two actors, and whatever their order   *)
(* the scheduler never keeps a node that ConnectionService has no entry    *)
(* for.  The StreamActor of the entry may have panicked.                   *)
RegisteredHasStream ==
  conn_up => \A n \in DOMAIN nodes \ {Sched!NODE_ZERO} :
    \/ n \in DOMAIN connections
    \/ accept[n] \in {"registered", "announcing"}
    \/ In(RemoveNode(n), sched_box)

(* ConnectionService dies of nothing but a node with a second handshake:   *)
(* one had a wrong password and had the node taken down, the other has had *)
(* its answer sent.  One handshake alone never kills it, nor do nodes with *)
(* the right password: the first packet to a node never comes before its   *)
(* stream, though the stream takes packets before ConnectionService knows  *)
(* of it.                                                                  *)
DiesOfTakenDown ==
  ~conn_up => \E t, u \in Task : /\ t # u /\ t[1] = u[1] /\ task[t] = "down"
                                 /\ task[u] \in {"greeted", "refused", "down"}

(* A packet goes to the stream the node opened last, unless a later one is *)
(* still to be announced.                                                  *)
LatestStream ==
  \A n \in DOMAIN connections :
    connections[n] = streams[n] \/ accept[n] \in {"registering", "registered", "announcing"}

-----------------------------------------------------------------------------
(* Action properties.                                                      *)

(* A node is told of the success of a handshake whatever the scheduler     *)
(* answered: it is not promoted then only if another handshake of it, with *)
(* a wrong password, has had it taken down.  In particular no handshake    *)
(* gets ahead of the NewNode of the stream it came in on.                  *)
SuccessUnlessTakenDown ==
  [][\A t \in Task : task[t] = "promoting" /\ task'[t] = "promoted" =>
       \/ t[1] \in shared_key'
       \/ \E u \in Task : u[1] = t[1] /\ task[u] = "down"]_vars

-----------------------------------------------------------------------------
(* Liveness.                                                               *)

(* Whoever waits for an answer gets one or an error, also when the actor   *)
(* that owes it dies in between: no accept loop and no handshake is stuck. *)
NobodyStuck ==
  /\ \A n \in Node :
       accept[n] \notin {"idle", "ended"} ~> accept[n] \in {"idle", "ended"} \/ blocked
  /\ \A t \in Task : task[t] \in {"right", "wrong"} ~> task[t] \in {"greeted", "down"} \/ blocked

(* A node with a wrong password leaves both the scheduler and connections. *)
WrongPasswordLeaves ==
  \A t \in Task :
    /\ task[t] = "wrong" ~> t[1] \notin DOMAIN nodes \/ blocked
    /\ task[t] = "wrong" ~> t[1] \notin DOMAIN connections \/ blocked

-----------------------------------------------------------------------------
(* What the code does not do.                                              *)

(* src/handler/stream.rs:135 writes the packet, or logs that writing       *)
(* failed and that the node is taken down: the StreamActor survives both.  *)
SendSurvived == \A s \in Stream : stream[s] # "panicked"

(* src/handler/stream.rs:66 logs the getting down of a node whose ping     *)
(* failed: a DownNode that was sent takes the node out of the scheduler.   *)
LostNodeTakenDown ==
  \A n \in Node : In(DownNode(n), handler_box) ~> n \notin DOMAIN nodes

=============================================================================
