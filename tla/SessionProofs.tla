----------------------------- MODULE SessionProofs -----------------------------
(***************************************************************************)
(* Theorems about NodeSession, for every set of nodes and every bound on   *)
(* streams and handshakes.  A new stream and a taking down are each        *)
(* announced to two actors, the scheduler and the ConnectionService; the   *)
(* invariant follows what is in the two mailboxes.                         *)
(***************************************************************************)
EXTENDS MCNodeSession, Mailboxes

\* The scheduler with what is proved of it.
P == INSTANCE SchedulerSteps WITH Judge <- {}, TotalTime <- {}

-----------------------------------------------------------------------------
(* The inductive invariant.                                                *)

SchedInv == P!IInv /\ running

Typed ==
  /\ accept \in [Node -> {"idle", "registering", "registered", "announcing", "asking",
                          "found", "refused", "ended"}]
  /\ streams \in [Node -> 0 .. MaxStream] /\ recvs \in [Node -> 0 .. MaxRecv]
  /\ \A n \in Node : accept[n] \in {"asking", "found"} => recvs[n] < MaxRecv
  /\ stream \in [Stream -> {"none", "running", "stopped", "panicked"}]
  /\ stream_box \in [Stream -> Seq({"Send", "Delete"})]
  /\ task \in [Task -> {"none", "sent", "right", "promoting", "promoted", "greeting",
                        "greeted", "wrong", "refusing", "refused", "down"}]
  /\ handler_box \in Seq(HandlerMessage) /\ sched_box \in Seq(SchedulerIssue)
  /\ DOMAIN connections \subseteq Node
  /\ \A n \in DOMAIN connections : connections[n] \in 1 .. MaxStream
  /\ conn_box \in Seq(ConnectionMessage) /\ conn_up \in BOOLEAN
  /\ lost \subseteq Node /\ blocked \in BOOLEAN

\* What is about a handshake is about its node.
Addressed ==
  /\ \A m \in Content(sched_box) : m.issue = "HandshakeEstablished" => m.of = m.task[1]
  /\ \A m \in Content(conn_box) : m.op = "Send" => m.node = m.task[1]

\* A dead ConnectionService has nothing left.
Dead == ~conn_up => conn_box = <<>> /\ connections = <<>>

\* Message i of the mailbox of ConnectionService is about a stream of n.
Announces(i, n) == conn_box[i].op = "NewStream" /\ conn_box[i].node = n
Deletes(i, n)   == conn_box[i].op = "DeleteStream" /\ conn_box[i].node = n
Sends(i, n)     == conn_box[i].op = "Send" /\ conn_box[i].node = n

\* A stream is announced once, by the accept loop that waits for it, and it
\* is the latest one of its node.
Announcements ==
  /\ \A n \in Node : \A i, k \in DOMAIN conn_box :
       Announces(i, n) /\ Announces(k, n) => i = k
  /\ \A n \in Node : \A i \in DOMAIN conn_box : Announces(i, n) =>
       /\ accept[n] = "announcing" /\ conn_box[i].stream = streams[n]
       /\ stream[<<n, streams[n]>>] # "none"
  /\ \A n \in Node :
       accept[n] \in {"registering", "registered", "announcing"} => streams[n] > 0

\* A node whose stream is still to be deleted is not in the scheduler, or
\* will leave it, or has a later stream on the way.
Deletions ==
  \A n \in Node : \A i \in DOMAIN conn_box : Deletes(i, n) =>
    \/ RemoveNode(n) \in Content(sched_box)
    \/ n \notin DOMAIN nodes
    \/ accept[n] = "registered"
    \/ /\ accept[n] = "announcing"
       /\ \E k \in DOMAIN conn_box : k > i /\ Announces(k, n)

HasStream ==
  conn_up => \A n \in DOMAIN nodes \cap Node :
    \/ n \in DOMAIN connections
    \/ accept[n] \in {"registered", "announcing"}
    \/ RemoveNode(n) \in Content(sched_box)

\* connections leads to streams that were started, and to the latest.
Latest ==
  \A n \in DOMAIN connections :
    /\ stream[<<n, connections[n]>>] # "none"
    /\ \/ connections[n] = streams[n]
       \/ accept[n] \in {"registering", "registered", "announcing"}

\* A handshake of the node had the wrong password and has had it taken down.
Down(n) == \E t \in Task : t[1] = n /\ task[t] = "down"

\* The node has a stream or had one.
Started(n) ==
  \/ \E k \in 1 .. MaxStream : stream[<<n, k>>] # "none"
  \/ recvs[n] > 0 \/ accept[n] = "found"
  \/ \E t \in Task : t[1] = n /\ task[t] # "none"

\* The node is in connections, or will be when message i is taken.
Reachable(n, i) ==
  n \in DOMAIN connections \/ \E k \in DOMAIN conn_box : k < i /\ Announces(k, n)

\* A node that is not taken down stays where it is.
Stays(n) ==
  /\ accept[n] = "registered" \/ Started(n) => n \in DOMAIN nodes
  /\ conn_up /\ n \in DOMAIN nodes =>
       Reachable(n, Len(conn_box) + 1) \/ accept[n] = "registered"
  /\ conn_up /\ Started(n) => Reachable(n, Len(conn_box) + 1)
  /\ \A i \in DOMAIN conn_box : Sends(i, n) => Reachable(n, i)
  /\ \A i \in DOMAIN conn_box : ~Deletes(i, n)
  /\ RemoveNode(n) \notin Content(sched_box)
  /\ DownNode(n) \in Content(handler_box) => blocked

Untouched == \A n \in Node : Down(n) \/ Stays(n)

NInv ==
  /\ SchedInv /\ Typed /\ Addressed /\ Dead
  /\ Announcements /\ Deletions /\ HasStream /\ Latest /\ Untouched

-----------------------------------------------------------------------------
(* The handlers of the scheduler in NodeSession are those of Scheduler.    *)

USE DEF Sched!NODE_ZERO, P!NODE_ZERO, Sched!None, P!None, Sched!Weight, P!Weight

(* No judgement exists, so the assumptions about them hold.                *)
LEMMA NoJudgements ==
  /\ P!NodeAssumption /\ P!JudgeAssumption /\ P!TimeAssumption
BY NodeAssumption DEF P!NodeAssumption, P!JudgeAssumption, P!TimeAssumption

(* register adds the same queue.                                           *)
LEMMA SameRegister ==
  ASSUME NEW n, Sched!Register(n)
  PROVE  P!Register(n)
BY DEF Sched!Register, P!Register, Sched!Rebalance, P!Rebalance, Sched!Serve, P!Serve,
       Sched!Cardinality, P!Cardinality, Sched!Insert, P!Insert, Sched!Entry, P!Entry,
       Sched!Before, P!Before, Sched!IsTop, P!IsTop, Sched!TimeOf, P!TimeOf,
       Sched!Ready, P!Ready, Sched!SizeOf, P!SizeOf, Sched!IsPlacement, P!IsPlacement

(* promote is written alike in both.                                       *)
LEMMA SamePromote ==
  ASSUME NEW n, Sched!Promote(n)
  PROVE  P!Promote(n)
BY DEF Sched!Promote, P!Promote

(* unregister puts the same queue back.                                    *)
LEMMA SameUnregister ==
  ASSUME NEW n, Sched!Unregister(n)
  PROVE  P!Unregister(n)
BY DEF Sched!Unregister, P!Unregister, Sched!Rebalance, P!Rebalance, Sched!Serve,
       P!Serve, Sched!Cardinality, P!Cardinality, Sched!Without, P!Without,
       Sched!Restrict, P!Restrict, Sched!Entry, P!Entry, Sched!Before, P!Before,
       Sched!IsTop, P!IsTop, Sched!TimeOf, P!TimeOf, Sched!Ready, P!Ready,
       Sched!SizeOf, P!SizeOf, Sched!IsPlacement, P!IsPlacement

(* by an initial state                                                     *)
LEMMA SameInit == Sched!Init => P!Init
BY DEF Sched!Init, P!Init

(* and by the types of the state.                                          *)
LEMMA SameTypes == P!TypeOK => Sched!TypeOK
BY DEF Sched!TypeOK, P!TypeOK, Sched!EntrySet, P!EntrySet

(* What leaves the scheduler alone leaves its invariant as it is.          *)
LEMMA OthersKeep ==
  ASSUME SchedInv, UNCHANGED schedVars
  PROVE  SchedInv' /\ DOMAIN nodes' = DOMAIN nodes
<1>1. UNCHANGED P!vars
  BY DEF schedVars, P!vars
<1>2. P!IInv'
  BY <1>1, P!StepIInv, NoJudgements DEF SchedInv
<1> QED
  BY <1>2 DEF SchedInv, schedVars

(* The queues a handler ends with are of the nodes it works on.            *)
LEMMA SameNodes ==
  ASSUME NEW h, NEW o, NEW free, P!Transfers(h, o, free)
  PROVE  DOMAIN nodes' = DOMAIN h
BY DEF P!Transfers, P!Handover, P!Hands, P!Moved, P!Drops

(* register adds the node to the scheduler and no other,                   *)
LEMMA Registers ==
  ASSUME SchedInv, NEW n \in Node, Sched!Register(n)
  PROVE  SchedInv' /\ DOMAIN nodes' = DOMAIN nodes \cup {n}
<1>1. P!Register(n)
  BY SameRegister
<1>2. SchedInv'
  BY <1>1, P!RegisterIInv, NoJudgements DEF SchedInv
<1>3. PICK h, o : /\ P!Prepared(h, o) /\ P!Transfers(h, o, P!Real(h))
                  /\ P!Real(h) = P!Real(nodes) \cup {n}
  BY <1>1, P!RegisterSteps, NoJudgements DEF SchedInv
<1>4. DOMAIN nodes' = DOMAIN h
  BY <1>3, SameNodes
<1>5. 0 \in DOMAIN h /\ 0 \in DOMAIN nodes /\ n # 0
  BY <1>3, NodeAssumption DEF P!Prepared, P!Typed, SchedInv, P!IInv, P!Shape
<1> QED
  BY <1>2, <1>3, <1>4, <1>5 DEF P!Real

(* unregister takes the node out and no other,                             *)
LEMMA Unregisters ==
  ASSUME SchedInv, NEW n \in Node, Sched!Unregister(n)
  PROVE  SchedInv' /\ DOMAIN nodes' = DOMAIN nodes \ {n}
<1>1. P!Unregister(n)
  BY SameUnregister
<1>2. SchedInv'
  BY <1>1, P!UnregisterIInv, NoJudgements DEF SchedInv
<1>3. PICK h, o : /\ P!Prepared(h, o) /\ P!Transfers(h, o, P!Real(h))
                  /\ P!Real(h) = P!Real(nodes) \ {n}
  BY <1>1, P!UnregisterSteps, NoJudgements DEF SchedInv
<1>4. DOMAIN nodes' = DOMAIN h
  BY <1>3, SameNodes
<1>5. 0 \in DOMAIN h /\ 0 \in DOMAIN nodes /\ n # 0
  BY <1>3, NodeAssumption DEF P!Prepared, P!Typed, SchedInv, P!IInv, P!Shape
<1> QED
  BY <1>2, <1>3, <1>4, <1>5 DEF P!Real

(* promote gives a node it has its key.                                    *)
LEMMA Promotes ==
  ASSUME SchedInv, NEW n \in Node, Sched!Promote(n)
  PROVE  SchedInv' /\ DOMAIN nodes' = DOMAIN nodes /\ n \in shared_key'
<1>1. P!Promote(n)
  BY SamePromote
<1> QED
  BY <1>1, P!PromoteIInv, NoJudgements DEF SchedInv, P!Promote

-----------------------------------------------------------------------------
(* At first nothing has been sent.                                         *)
LEMMA InitNInv == Init => NInv
<1> SUFFICES ASSUME Init PROVE NInv
  OBVIOUS
<1>1. SchedInv
  BY P!InitIInv, SameInit, NoJudgements DEF Init, SchedInv, Sched!Init
<1>2. Content(<<>>) = {}
  BY DEF Content
<1>3. Typed
  <2>1. MaxStream \in Nat /\ MaxRecv \in Nat
    BY BoundAssumption
  <2>2. streams \in [Node -> 0 .. MaxStream] /\ recvs \in [Node -> 0 .. MaxRecv]
    BY <2>1 DEF Init
  <2>3. /\ handler_box \in Seq(HandlerMessage) /\ sched_box \in Seq(SchedulerIssue)
        /\ conn_box \in Seq(ConnectionMessage)
        /\ stream_box \in [Stream -> Seq({"Send", "Delete"})]
    BY DEF Init
  <2>4. DOMAIN connections = {}
    BY DEF Init
  <2> QED
    BY <2>2, <2>3, <2>4 DEF Init, Typed
<1>4. Addressed /\ Dead
  BY <1>2 DEF Init, Addressed, Dead
<1>5. Announcements /\ Deletions /\ Latest
  BY DEF Init, Announcements, Deletions, Latest
<1>6. DOMAIN nodes = {0}
  BY DEF Init, Sched!Init
<1>7. HasStream
  BY <1>6, NodeAssumption DEF HasStream
<1>8. \A n \in Node : ~Started(n)
  <2>1. \A n \in Node, k \in 1 .. MaxStream : stream[<<n, k>>] = "none"
    BY DEF Init, Stream
  <2>2. \A n \in Node : ~(recvs[n] > 0) /\ accept[n] # "found"
    BY DEF Init
  <2>3. \A t \in Task : task[t] = "none"
    BY DEF Init
  <2> QED
    BY <2>1, <2>2, <2>3, Zenon DEF Started
<1>9. Untouched
  BY <1>2, <1>6, <1>8, NodeAssumption DEF Init, Untouched, Stays, Sends, Deletes
<1> QED
  BY <1>1, <1>3, <1>4, <1>5, <1>7, <1>9 DEF NInv

-----------------------------------------------------------------------------
(* Steps that leave both the members of the scheduler and the streams of   *)
(* ConnectionService alone.                                                *)

\* A stream of the node is on its way to ConnectionService.
Coming == {"registering", "registered", "announcing"}

Aside ==
  /\ UNCHANGED connVars /\ DOMAIN nodes' = DOMAIN nodes
  /\ \A s \in Stream : stream'[s] = "none" <=> stream[s] = "none"
  /\ \A n \in Node :
       /\ RemoveNode(n) \in Content(sched_box') <=> RemoveNode(n) \in Content(sched_box)
       /\ \/ accept'[n] = accept[n] /\ streams'[n] = streams[n]
          \/ /\ accept[n] \notin Coming /\ accept'[n] \notin Coming
             /\ streams'[n] = streams[n]
          \/ accept[n] \notin Coming /\ accept'[n] = "registering" /\ streams'[n] > 0
       /\ Started(n)' => Started(n) \/ (n \in DOMAIN nodes /\ accept[n] # "registered")
       /\ Down(n) => Down(n)'
       /\ DownNode(n) \in Content(handler_box') =>
            \/ DownNode(n) \in Content(handler_box) /\ ~blocked
            \/ blocked' \/ Down(n)'

(* Such a step keeps all that is about the two mailboxes.                  *)
LEMMA AsideNInv ==
  ASSUME NInv, Aside, SchedInv', Typed', Addressed'
  PROVE  NInv'
<1>1. /\ connections' = connections /\ conn_box' = conn_box /\ conn_up' = conn_up
      /\ DOMAIN nodes' = DOMAIN nodes
  BY DEF Aside, connVars
<1>2. /\ \A n \in Node : \A i : Announces(i, n)' = Announces(i, n)
      /\ \A n \in Node : \A i : Deletes(i, n)' = Deletes(i, n)
      /\ \A n \in Node : \A i : Sends(i, n)' = Sends(i, n)
      /\ \A n \in Node : \A i : Reachable(n, i)' = Reachable(n, i)
  BY <1>1 DEF Announces, Deletes, Sends, Reachable
<1>3. Dead'
  BY <1>1 DEF NInv, Dead
<1>4. \A n \in Node : accept[n] \in Coming => accept'[n] = accept[n] /\ streams'[n] = streams[n]
  BY DEF Aside
<1>5. \A n \in Node, k \in 1 .. MaxStream :
        stream'[<<n, k>>] = "none" <=> stream[<<n, k>>] = "none"
  BY DEF Aside, Stream
<1>6. Announcements'
  <2>1. ASSUME NEW n \in Node, NEW i \in DOMAIN conn_box, Announces(i, n)
        PROVE  /\ accept'[n] = "announcing" /\ conn_box[i].stream = streams'[n]
               /\ stream'[<<n, streams'[n]>>] # "none"
    <3>1. /\ accept[n] = "announcing" /\ conn_box[i].stream = streams[n]
          /\ stream[<<n, streams[n]>>] # "none" /\ streams[n] > 0
      BY <2>1 DEF NInv, Announcements
    <3>2. accept'[n] = accept[n] /\ streams'[n] = streams[n]
      BY <3>1 DEF Aside, Coming
    <3>3. streams[n] \in 1 .. MaxStream
      BY <3>1 DEF NInv, Typed
    <3> QED
      BY <1>5, <3>1, <3>2, <3>3
  <2>2. ASSUME NEW n \in Node, accept'[n] \in Coming
        PROVE  streams'[n] > 0
    BY <2>2 DEF NInv, Announcements, Aside, Coming
  <2> QED
    BY <1>1, <1>2, <2>1, <2>2 DEF NInv, Announcements, Coming
<1>7. Deletions'
  <2> SUFFICES ASSUME NEW n \in Node, NEW i \in DOMAIN conn_box, Deletes(i, n)
               PROVE  \/ RemoveNode(n) \in Content(sched_box')
                      \/ n \notin DOMAIN nodes
                      \/ accept'[n] = "registered"
                      \/ /\ accept'[n] = "announcing"
                         /\ \E k \in DOMAIN conn_box : k > i /\ Announces(k, n)
    BY <1>1, <1>2 DEF Deletions
  <2> QED
    BY <1>4 DEF NInv, Deletions, Aside, Coming
<1>8. HasStream'
  BY <1>1, <1>4 DEF NInv, HasStream, Aside, Coming
<1>9. Latest'
  <2> SUFFICES ASSUME NEW n \in DOMAIN connections
               PROVE  /\ stream'[<<n, connections[n]>>] # "none"
                      /\ connections[n] = streams'[n] \/ accept'[n] \in Coming
    BY <1>1 DEF Latest, Coming
  <2>1. n \in Node /\ connections[n] \in 1 .. MaxStream
    BY DEF NInv, Typed
  <2> QED
    BY <1>5, <2>1 DEF NInv, Latest, Aside, Coming
<1>10. Untouched'
  <2> SUFFICES ASSUME NEW n \in Node, ~Down(n)'
               PROVE  Stays(n)'
    BY DEF Untouched
  <2>1. ~Down(n) /\ Stays(n)
    BY DEF NInv, Untouched, Aside
  <2>2. accept'[n] = "registered" => accept[n] = "registered"
    BY DEF Aside, Coming
  <2>3. Started(n)' => n \in DOMAIN nodes
    BY <2>1 DEF Aside, Stays
  <2>4. conn_up /\ n \in DOMAIN nodes =>
          Reachable(n, Len(conn_box) + 1) \/ accept'[n] = "registered"
    BY <1>4, <2>1 DEF Stays, Coming
  <2>5. conn_up /\ Started(n)' => Reachable(n, Len(conn_box) + 1)
    BY <2>1 DEF Aside, Stays
  <2>6. /\ RemoveNode(n) \notin Content(sched_box')
        /\ DownNode(n) \in Content(handler_box') => blocked'
    BY <2>1 DEF Aside, Stays
  <2>7. \A i \in DOMAIN conn_box : ~Deletes(i, n) /\ (Sends(i, n) => Reachable(n, i))
    BY <2>1 DEF Stays
  <2>8. accept'[n] = "registered" => n \in DOMAIN nodes
    BY <2>1, <2>2 DEF Stays
  <2> QED
    BY <1>1, <1>2, <2>3, <2>4, <2>5, <2>6, <2>7, <2>8, Zenon DEF Stays
<1> QED
  BY <1>3, <1>6, <1>7, <1>8, <1>9, <1>10 DEF NInv

-----------------------------------------------------------------------------
(* Messages and program counters.                                          *)

Places == {"idle", "registering", "registered", "announcing", "asking", "found",
           "refused", "ended"}
Stages == {"none", "sent", "right", "promoting", "promoted", "greeting", "greeted",
           "wrong", "refusing", "refused", "down"}

(* The messages are of their types,                                        *)
LEMMA Messages ==
  /\ \A t \in Task : /\ t[1] \in Node /\ t[2] \in 1 .. MaxHandshake
                     /\ \A right \in BOOLEAN : ReceivePacket(t, right) \in HandlerMessage
                     /\ HandshakeEstablished(t) \in SchedulerIssue
                     /\ Send(t) \in ConnectionMessage
  /\ \A n \in Node : /\ DownNode(n) \in HandlerMessage
                     /\ NewNode(n) \in SchedulerIssue /\ RemoveNode(n) \in SchedulerIssue
                     /\ Exists(n) \in SchedulerIssue
                     /\ DeleteStream(n) \in ConnectionMessage
                     /\ \A k \in 1 .. MaxStream : NewStream(n, k) \in ConnectionMessage
<1>1. \A t \in Task : t[1] \in Node /\ t[2] \in 1 .. MaxHandshake
  BY DEF Task
<1>2. \A t \in Task : \A right \in BOOLEAN : ReceivePacket(t, right) \in HandlerMessage
  BY <1>1 DEF ReceivePacket, HandlerMessage
<1>3. \A t \in Task : HandshakeEstablished(t) \in SchedulerIssue
  BY <1>1 DEF HandshakeEstablished, SchedulerIssue
<1>4. \A t \in Task : Send(t) \in ConnectionMessage
  BY <1>1 DEF Send, ConnectionMessage
<1> QED
  BY <1>1, <1>2, <1>3, <1>4
  DEF DownNode, NewNode, RemoveNode, Exists, DeleteStream, NewStream, HandlerMessage,
      SchedulerIssue, ConnectionMessage

(* and they are told apart by their tags.                                  *)
LEMMA Tags ==
  /\ \A n : DownNode(n).msg = "DownNode" /\ DownNode(n).node = n
  /\ \A t, right : ReceivePacket(t, right).msg = "ReceivePacket"
  /\ \A n : NewNode(n).issue = "NewNode" /\ NewNode(n).of = n
  /\ \A n : RemoveNode(n).issue = "RemoveNode" /\ RemoveNode(n).of = n
  /\ \A n : Exists(n).issue = "Exists" /\ Exists(n).of = n
  /\ \A t : /\ HandshakeEstablished(t).issue = "HandshakeEstablished"
            /\ HandshakeEstablished(t).of = t[1] /\ HandshakeEstablished(t).task = t
  /\ \A n, k : /\ NewStream(n, k).op = "NewStream" /\ NewStream(n, k).node = n
               /\ NewStream(n, k).stream = k
  /\ \A t : Send(t).op = "Send" /\ Send(t).node = t[1] /\ Send(t).task = t
  /\ \A n : DeleteStream(n).op = "DeleteStream" /\ DeleteStream(n).node = n
BY DEF DownNode, ReceivePacket, NewNode, RemoveNode, Exists, HandshakeEstablished,
       NewStream, Send, DeleteStream

(* A RemoveNode, or a DownNode, is nothing else.                           *)
LEMMA Different ==
  /\ \A m, n : RemoveNode(m) # NewNode(n) /\ RemoveNode(m) # Exists(n)
  /\ \A m, t : RemoveNode(m) # HandshakeEstablished(t)
  /\ \A m, t, right : DownNode(m) # ReceivePacket(t, right)
  /\ \A m, n : m # n => RemoveNode(m) # RemoveNode(n) /\ DownNode(m) # DownNode(n)
BY DEF RemoveNode, NewNode, Exists, HandshakeEstablished, DownNode, ReceivePacket

(* The accept loop of one connection goes on,                              *)
LEMMA LoopMoves ==
  ASSUME Typed, NEW n \in Node, NEW from, NEW to \in Places, Loops(n, from, to)
  PROVE  /\ accept[n] = from /\ accept' \in [Node -> Places] /\ accept'[n] = to
         /\ \A m \in Node : m # n => accept'[m] = accept[m]
BY DEF Typed, Loops, Places

(* or one handshake, which never comes back.                               *)
LEMMA TaskMoves ==
  ASSUME Typed, NEW t \in Task, NEW from, NEW to \in Stages, Goes(t, from, to),
         from # "down"
  PROVE  /\ task[t] = from /\ task' \in [Task -> Stages] /\ task'[t] = to
         /\ \A u \in Task : u # t => task'[u] = task[u]
         /\ \A n \in Node : Down(n) => Down(n)'
BY DEF Typed, Goes, Stages, Down

(* A node stays taken down when no handshake goes on.                      *)
LEMMA StillDown == task' = task => \A n \in Node : Down(n) => Down(n)'
BY DEF Down

(* A node has started nothing when its counters stay.                      *)
LEMMA NotStarted ==
  ASSUME NEW n \in Node,
         \A k \in 1 .. MaxStream : stream'[<<n, k>>] = "none" <=> stream[<<n, k>>] = "none",
         recvs'[n] = recvs[n], accept'[n] = "found" => accept[n] = "found",
         \A t \in Task : t[1] = n /\ task[t] = "none" => task'[t] = "none"
  PROVE  Started(n)' => Started(n)
BY Zenon DEF Started

-----------------------------------------------------------------------------
(* The steps aside.                                                        *)

(* A bidirectional stream is taken by a loop that is through with the one  *)
(* before, so nothing of the node is on its way.                           *)
LEMMA AcceptBidirectionalNInv ==
  ASSUME NInv, NEW n \in Node, OnThread(AcceptBidirectional(n))
  PROVE  NInv'
<1>1. /\ ~blocked /\ streams[n] < MaxStream /\ Loops(n, "idle", "registering")
      /\ streams' = [streams EXCEPT ![n] = @ + 1] /\ sched_box' = Append(sched_box, NewNode(n))
      /\ UNCHANGED <<schedVars, recvs, streamVars, connVars, task, handler_box, lost, blocked>>
  BY DEF OnThread, AcceptBidirectional, ToScheduler
<1>2. /\ accept[n] = "idle" /\ accept' \in [Node -> Places] /\ accept'[n] = "registering"
      /\ \A m \in Node : m # n => accept'[m] = accept[m]
  BY <1>1, LoopMoves DEF NInv, Places
<1>3. SchedInv' /\ DOMAIN nodes' = DOMAIN nodes
  BY <1>1, OthersKeep DEF NInv
<1>4. /\ sched_box' \in Seq(SchedulerIssue)
      /\ Content(sched_box') = Content(sched_box) \cup {NewNode(n)}
  BY <1>1, Messages, ContentAppended DEF NInv, Typed
<1>5. /\ streams' \in [Node -> 0 .. MaxStream] /\ streams'[n] > 0
      /\ \A m \in Node : m # n => streams'[m] = streams[m]
  <2>1. streams \in [Node -> 0 .. MaxStream] /\ MaxStream \in Nat
    BY BoundAssumption DEF NInv, Typed
  <2>2. streams[n] + 1 \in 0 .. MaxStream /\ streams[n] + 1 > 0
    BY <1>1, <2>1
  <2> QED
    BY <1>1, <2>1, <2>2
<1>6. Typed'
  BY <1>1, <1>2, <1>4, <1>5 DEF NInv, Typed, Places, streamVars, connVars
<1>7. Addressed'
  BY <1>1, <1>4, Tags DEF NInv, Addressed, connVars
<1>8. \A m \in Node : Started(m)' => Started(m)
  BY <1>1, <1>2, NotStarted DEF streamVars
<1>9. Aside
  BY <1>1, <1>2, <1>3, <1>4, <1>5, <1>8, StillDown, Different
  DEF Aside, NInv, streamVars, Coming
<1> QED
  BY <1>3, <1>6, <1>7, <1>9, AsideNInv

(* A receive stream is asked about,                                        *)
LEMMA AcceptReceiveNInv ==
  ASSUME NInv, NEW n \in Node, OnThread(AcceptReceive(n))
  PROVE  NInv'
<1>1. /\ ~blocked /\ recvs[n] < MaxRecv /\ Loops(n, "idle", "asking")
      /\ sched_box' = Append(sched_box, Exists(n))
      /\ UNCHANGED <<schedVars, streams, recvs, streamVars, connVars, task, handler_box,
                     lost, blocked>>
  BY DEF OnThread, AcceptReceive, ToScheduler
<1>2. /\ accept[n] = "idle" /\ accept' \in [Node -> Places] /\ accept'[n] = "asking"
      /\ \A m \in Node : m # n => accept'[m] = accept[m]
  BY <1>1, LoopMoves DEF NInv, Places
<1>3. SchedInv' /\ DOMAIN nodes' = DOMAIN nodes
  BY <1>1, OthersKeep DEF NInv
<1>4. /\ sched_box' \in Seq(SchedulerIssue)
      /\ Content(sched_box') = Content(sched_box) \cup {Exists(n)}
  BY <1>1, Messages, ContentAppended DEF NInv, Typed
<1>5. Typed'
  BY <1>1, <1>2, <1>4 DEF NInv, Typed, Places, streamVars, connVars
<1>6. Addressed'
  BY <1>1, <1>4, Tags DEF NInv, Addressed, connVars
<1>7. \A m \in Node : Started(m)' => Started(m)
  BY <1>1, <1>2, NotStarted DEF streamVars
<1>8. Aside
  BY <1>1, <1>2, <1>3, <1>4, <1>7, StillDown, Different
  DEF Aside, NInv, streamVars, Coming
<1> QED
  BY <1>3, <1>5, <1>6, <1>8, AsideNInv

(* started,                                                                *)
LEMMA StartReceiveNInv ==
  ASSUME NInv, NEW n \in Node, OnThread(StartReceive(n))
  PROVE  NInv'
<1>1. /\ ~blocked /\ Loops(n, "found", "idle") /\ recvs' = [recvs EXCEPT ![n] = @ + 1]
      /\ UNCHANGED <<schedVars, streams, streamVars, connVars, task, handler_box,
                     sched_box, lost, blocked>>
  BY DEF OnThread, StartReceive
<1>2. /\ accept[n] = "found" /\ accept' \in [Node -> Places] /\ accept'[n] = "idle"
      /\ \A m \in Node : m # n => accept'[m] = accept[m]
  BY <1>1, LoopMoves DEF NInv, Places
<1>3. SchedInv' /\ DOMAIN nodes' = DOMAIN nodes
  BY <1>1, OthersKeep DEF NInv
<1>4. recvs' \in [Node -> 0 .. MaxRecv] /\ \A m \in Node : m # n => recvs'[m] = recvs[m]
  <2>1. recvs \in [Node -> 0 .. MaxRecv] /\ MaxRecv \in Nat
    BY BoundAssumption DEF NInv, Typed
  <2>2. recvs[n] + 1 \in 0 .. MaxRecv
    BY <1>2, <2>1 DEF NInv, Typed
  <2> QED
    BY <1>1, <2>1, <2>2
<1>5. Typed'
  BY <1>1, <1>2, <1>4 DEF NInv, Typed, Places, streamVars, connVars
<1>6. Addressed'
  BY <1>1 DEF NInv, Addressed, connVars
<1>7. \A m \in Node : Started(m)' => Started(m)
  <2>1. Started(n)
    BY <1>2 DEF Started
  <2>2. ASSUME NEW m \in Node, m # n PROVE Started(m)' => Started(m)
    BY <1>1, <1>2, <1>4, <2>2, NotStarted DEF streamVars
  <2> QED
    BY <2>1, <2>2
<1>8. Aside
  BY <1>1, <1>2, <1>3, <1>7, StillDown DEF Aside, NInv, streamVars, Coming
<1> QED
  BY <1>3, <1>5, <1>6, <1>8, AsideNInv

(* refused, or no more are accepted.                                       *)
LEMMA LoopEndsNInv ==
  ASSUME NInv, NEW n \in Node, OnThread(RefuseReceive(n) \/ AcceptEnds(n))
  PROVE  NInv'
<1>1. PICK to \in {"idle", "ended"} :
        /\ ~blocked /\ (Loops(n, "refused", to) \/ Loops(n, "idle", to))
        /\ UNCHANGED <<schedVars, streams, recvs, streamVars, connVars, task, handler_box,
                       sched_box, lost, blocked>>
  BY DEF OnThread, RefuseReceive, AcceptEnds
<1>2. /\ accept[n] \in {"refused", "idle"} /\ accept' \in [Node -> Places]
      /\ accept'[n] \in {"idle", "ended"}
      /\ \A m \in Node : m # n => accept'[m] = accept[m]
  <2>1. to \in Places
    BY DEF Places
  <2> QED
    BY <1>1, <2>1, LoopMoves DEF NInv
<1>3. SchedInv' /\ DOMAIN nodes' = DOMAIN nodes
  BY <1>1, OthersKeep DEF NInv
<1>4. Typed'
  BY <1>1, <1>2 DEF NInv, Typed, Places, streamVars, connVars
<1>5. Addressed'
  BY <1>1 DEF NInv, Addressed, connVars
<1>6. \A m \in Node : Started(m)' => Started(m)
  BY <1>1, <1>2, NotStarted DEF streamVars
<1>7. Aside
  BY <1>1, <1>2, <1>3, <1>6, StillDown DEF Aside, NInv, streamVars, Coming
<1> QED
  BY <1>3, <1>4, <1>5, <1>7, AsideNInv

(* What is true of all steps that no accept loop takes part in.            *)
LEMMA SameLoops ==
  UNCHANGED <<accept, streams>> =>
    \A n \in Node : \/ accept'[n] = accept[n] /\ streams'[n] = streams[n]
                    \/ /\ accept[n] \notin Coming /\ accept'[n] \notin Coming
                       /\ streams'[n] = streams[n]
                    \/ accept[n] \notin Coming /\ accept'[n] = "registering" /\ streams'[n] > 0
OBVIOUS

(* A connection breaks.                                                    *)
LEMMA LoseNInv ==
  ASSUME NInv, NEW n \in Node, Lose(n)
  PROVE  NInv'
<1>1. /\ lost' = lost \cup {n}
      /\ UNCHANGED <<schedVars, accept, streams, recvs, stream, stream_box, connVars, task,
                     handler_box, sched_box, blocked>>
  BY DEF Lose, nodeVars, streamVars
<1>2. SchedInv' /\ DOMAIN nodes' = DOMAIN nodes
  BY <1>1, OthersKeep DEF NInv
<1>3. Typed' /\ Addressed'
  BY <1>1 DEF NInv, Typed, Addressed, connVars
<1>4. \A m \in Node : Started(m)' => Started(m)
  BY <1>1, NotStarted
<1>5. Aside
  BY <1>1, <1>2, <1>4, StillDown, SameLoops DEF Aside
<1> QED
  BY <1>2, <1>3, <1>5, AsideNInv

(* A stream ends, one way or the other.                                    *)
LEMMA StreamNInv ==
  ASSUME NInv, NEW s \in Stream, OnThread(StreamStep(s))
  PROVE  NInv'
<1>1. PICK end \in {"stopped", "panicked"} :
        /\ ~blocked /\ stream[s] = "running" /\ stream' = [stream EXCEPT ![s] = end]
        /\ stream_box' = [stream_box EXCEPT ![s] = <<>>]
        /\ UNCHANGED <<schedVars, accept, streams, recvs, connVars, task, handler_box,
                       sched_box, lost, blocked>>
  BY DEF OnThread, StreamStep, StreamSend, StreamDelete, StreamTakes, nodeVars
<1>2. SchedInv' /\ DOMAIN nodes' = DOMAIN nodes
  BY <1>1, OthersKeep DEF NInv
<1>3. /\ stream' \in [Stream -> {"none", "running", "stopped", "panicked"}]
      /\ stream_box' \in [Stream -> Seq({"Send", "Delete"})]
      /\ \A r \in Stream : stream'[r] = "none" <=> stream[r] = "none"
  BY <1>1 DEF NInv, Typed
<1>4. Typed'
  BY <1>1, <1>3 DEF NInv, Typed, connVars
<1>5. Addressed'
  BY <1>1 DEF NInv, Addressed, connVars
<1>6. \A m \in Node : Started(m)' => Started(m)
  <2>1. \A m \in Node, k \in 1 .. MaxStream :
          stream'[<<m, k>>] = "none" <=> stream[<<m, k>>] = "none"
    BY <1>3 DEF Stream
  <2> QED
    BY <1>1, <2>1, NotStarted
<1>7. Aside
  BY <1>1, <1>2, <1>3, <1>6, StillDown, SameLoops DEF Aside
<1> QED
  BY <1>2, <1>4, <1>5, <1>7, AsideNInv

(* The ping of a broken connection has the node taken down, and blocks.    *)
LEMMA PingNInv ==
  ASSUME NInv, NEW s \in Stream, Ping(s)
  PROVE  NInv'
<1>1. /\ handler_box' = Append(handler_box, DownNode(s[1])) /\ blocked' = TRUE
      /\ UNCHANGED <<schedVars, accept, streams, recvs, stream, stream_box, connVars, task,
                     sched_box, lost>>
  BY DEF Ping, ToHandler, nodeVars, streamVars
<1>2. SchedInv' /\ DOMAIN nodes' = DOMAIN nodes
  BY <1>1, OthersKeep DEF NInv
<1>3. handler_box' \in Seq(HandlerMessage)
  <2>1. s[1] \in Node
    BY DEF Stream
  <2> QED
    BY <1>1, <2>1, Messages, ContentAppended DEF NInv, Typed
<1>4. Typed' /\ Addressed'
  BY <1>1, <1>3 DEF NInv, Typed, Addressed, connVars
<1>5. \A m \in Node : Started(m)' => Started(m)
  BY <1>1, NotStarted
<1>6. Aside
  BY <1>1, <1>2, <1>5, StillDown, SameLoops DEF Aside
<1> QED
  BY <1>2, <1>4, <1>6, AsideNInv

(* A handshake comes in over a stream that was started.                    *)
LEMMA ForwardHandshakeNInv ==
  ASSUME NInv, NEW t \in Task, OnThread(ForwardHandshake(t))
  PROVE  NInv'
<1>1. PICK right \in BOOLEAN :
        /\ ~blocked /\ Goes(t, "none", "sent")
        /\ handler_box' = Append(handler_box, ReceivePacket(t, right))
        /\ UNCHANGED <<schedVars, accept, streams, recvs, stream, stream_box, connVars,
                       sched_box, lost, blocked>>
  BY DEF OnThread, ForwardHandshake, ToHandler, nodeVars, streamVars
<1>2. /\ task[t] = "none" /\ task' \in [Task -> Stages] /\ task'[t] = "sent"
      /\ \A u \in Task : u # t => task'[u] = task[u]
      /\ \A n \in Node : Down(n) => Down(n)'
  BY <1>1, TaskMoves DEF NInv, Stages
<1>3. SchedInv' /\ DOMAIN nodes' = DOMAIN nodes
  BY <1>1, OthersKeep DEF NInv
<1>4. /\ handler_box' \in Seq(HandlerMessage)
      /\ Content(handler_box') = Content(handler_box) \cup {ReceivePacket(t, right)}
  BY <1>1, Messages, ContentAppended DEF NInv, Typed
<1>5. Typed'
  BY <1>1, <1>2, <1>4 DEF NInv, Typed, Stages, connVars
<1>6. Addressed'
  BY <1>1 DEF NInv, Addressed, connVars
<1>7. Started(t[1])
  <2>1. \/ recvs[t[1]] > 0
        \/ \E k \in 1 .. MaxStream : stream[<<t[1], k>>] = "running"
    BY DEF OnThread, ForwardHandshake
  <2>2. (\E k \in 1 .. MaxStream : stream[<<t[1], k>>] = "running") =>
          \E k \in 1 .. MaxStream : stream[<<t[1], k>>] # "none"
    OBVIOUS
  <2> QED
    BY <2>1, <2>2 DEF Started
<1>8. \A m \in Node : Started(m)' => Started(m)
  <2>1. ASSUME NEW m \in Node, m # t[1] PROVE Started(m)' => Started(m)
    BY <1>1, <1>2, <2>1, NotStarted
  <2> QED
    BY <1>7, <2>1
<1>9. Aside
  BY <1>1, <1>2, <1>3, <1>4, <1>8, SameLoops, Different DEF Aside
<1> QED
  BY <1>3, <1>5, <1>6, <1>9, AsideNInv

(* HandlerService looks at its password,                                   *)
LEMMA HandleHandshakeNInv ==
  ASSUME NInv, OnThread(HandleHandshake)
  PROVE  NInv'
<1> DEFINE m == Head(handler_box)
           t == m.task
<1>1. /\ ~blocked /\ handler_box # <<>> /\ m.msg = "ReceivePacket"
      /\ handler_box' = Tail(handler_box)
      /\ Goes(t, "sent", IF m.right THEN "right" ELSE "wrong")
      /\ UNCHANGED <<schedVars, accept, streams, recvs, stream, stream_box, connVars,
                     sched_box, lost, blocked>>
  BY DEF OnThread, HandleHandshake, HandlerTakes, nodeVars, streamVars, connVars
<1>2. /\ m \in HandlerMessage /\ handler_box' \in Seq(HandlerMessage)
      /\ Content(handler_box') \subseteq Content(handler_box)
  BY <1>1, ContentTaken, PositionsTaken DEF NInv, Typed
<1>3. t \in Task
  BY <1>1, <1>2 DEF HandlerMessage
<1> HIDE DEF m, t
<1>4. /\ task[t] = "sent" /\ task' \in [Task -> Stages] /\ task'[t] \in {"right", "wrong"}
      /\ \A u \in Task : u # t => task'[u] = task[u]
      /\ \A n \in Node : Down(n) => Down(n)'
  <2>1. PICK to \in {"right", "wrong"} : Goes(t, "sent", to)
    BY <1>1
  <2>2. to \in Stages
    BY DEF Stages
  <2> QED
    BY <1>3, <2>1, <2>2, TaskMoves DEF NInv
<1>5. SchedInv' /\ DOMAIN nodes' = DOMAIN nodes
  BY <1>1, OthersKeep DEF NInv
<1>6. Typed'
  BY <1>1, <1>2, <1>4 DEF NInv, Typed, Stages, connVars
<1>7. Addressed'
  BY <1>1 DEF NInv, Addressed, connVars
<1>8. \A n \in Node : Started(n)' => Started(n)
  BY <1>1, <1>4, NotStarted
<1>9. Aside
  BY <1>1, <1>2, <1>4, <1>5, <1>8, SameLoops DEF Aside
<1> QED
  BY <1>5, <1>6, <1>7, <1>9, AsideNInv

(* asks for the promotion of the node if it is right,                      *)
LEMMA AskPromotionNInv ==
  ASSUME NInv, NEW t \in Task, OnThread(AskPromotion(t))
  PROVE  NInv'
<1>1. /\ ~blocked /\ Goes(t, "right", "promoting")
      /\ sched_box' = Append(sched_box, HandshakeEstablished(t))
      /\ UNCHANGED <<schedVars, accept, streams, recvs, stream, stream_box, connVars,
                     handler_box, lost, blocked>>
  BY DEF OnThread, AskPromotion, ToScheduler, nodeVars, streamVars
<1>2. /\ task[t] = "right" /\ task' \in [Task -> Stages] /\ task'[t] = "promoting"
      /\ \A u \in Task : u # t => task'[u] = task[u]
      /\ \A n \in Node : Down(n) => Down(n)'
  BY <1>1, TaskMoves DEF NInv, Stages
<1>3. SchedInv' /\ DOMAIN nodes' = DOMAIN nodes
  BY <1>1, OthersKeep DEF NInv
<1>4. /\ sched_box' \in Seq(SchedulerIssue)
      /\ Content(sched_box') = Content(sched_box) \cup {HandshakeEstablished(t)}
  BY <1>1, Messages, ContentAppended DEF NInv, Typed
<1>5. Typed'
  BY <1>1, <1>2, <1>4 DEF NInv, Typed, Stages, connVars
<1>6. Addressed'
  <2>1. HandshakeEstablished(t).of = HandshakeEstablished(t).task[1]
    BY DEF HandshakeEstablished
  <2> QED
    BY <1>1, <1>4, <2>1 DEF NInv, Addressed, connVars
<1>7. \A n \in Node : Started(n)' => Started(n)
  BY <1>1, <1>2, NotStarted
<1>8. Aside
  BY <1>1, <1>2, <1>3, <1>4, <1>7, SameLoops, Different DEF Aside
<1> QED
  BY <1>3, <1>5, <1>6, <1>8, AsideNInv

(* and has the node taken down if it is wrong.                             *)
LEMMA TakeDownNInv ==
  ASSUME NInv, NEW t \in Task, OnThread(TakeDown(t))
  PROVE  NInv'
<1>1. /\ ~blocked /\ Goes(t, "refused", "down")
      /\ handler_box' = Append(handler_box, DownNode(t[1]))
      /\ UNCHANGED <<schedVars, accept, streams, recvs, stream, stream_box, connVars,
                     sched_box, lost, blocked>>
  BY DEF OnThread, TakeDown, ToHandler, nodeVars, streamVars
<1>2. /\ task[t] = "refused" /\ task' \in [Task -> Stages] /\ task'[t] = "down"
      /\ \A u \in Task : u # t => task'[u] = task[u]
      /\ \A n \in Node : Down(n) => Down(n)'
  BY <1>1, TaskMoves DEF NInv, Stages
<1>3. SchedInv' /\ DOMAIN nodes' = DOMAIN nodes
  BY <1>1, OthersKeep DEF NInv
<1>4. /\ handler_box' \in Seq(HandlerMessage)
      /\ Content(handler_box') = Content(handler_box) \cup {DownNode(t[1])}
  BY <1>1, Messages, ContentAppended DEF NInv, Typed
<1>5. Typed'
  BY <1>1, <1>2, <1>4 DEF NInv, Typed, Stages, connVars
<1>6. Addressed'
  BY <1>1 DEF NInv, Addressed, connVars
<1>7. \A n \in Node : Started(n)' => Started(n)
  BY <1>1, <1>2, NotStarted
<1>8. Down(t[1])'
  BY <1>2 DEF Down
<1>9. Aside
  BY <1>1, <1>2, <1>3, <1>4, <1>7, <1>8, SameLoops, Different DEF Aside
<1> QED
  BY <1>3, <1>5, <1>6, <1>9, AsideNInv

(* An issue that is no RemoveNode leaves those that are.                   *)
LEMMA OtherIssue ==
  ASSUME sched_box \in Seq(SchedulerIssue), sched_box # <<>>, sched_box' = Tail(sched_box),
         Head(sched_box).issue # "RemoveNode"
  PROVE  /\ Head(sched_box) \in SchedulerIssue /\ Head(sched_box) \in Content(sched_box)
         /\ sched_box' \in Seq(SchedulerIssue)
         /\ Content(sched_box') \subseteq Content(sched_box)
         /\ \A n : RemoveNode(n) \in Content(sched_box') <=>
                  RemoveNode(n) \in Content(sched_box)
<1>1. /\ Head(sched_box) \in SchedulerIssue /\ Head(sched_box) \in Content(sched_box)
      /\ sched_box' \in Seq(SchedulerIssue) /\ Content(sched_box') \subseteq Content(sched_box)
      /\ \A m \in Content(sched_box) : m = Head(sched_box) \/ m \in Content(sched_box')
  BY ContentTaken, PositionsTaken
<1>2. \A n : RemoveNode(n) # Head(sched_box)
  BY DEF RemoveNode
<1> QED
  BY <1>1, <1>2

(* The scheduler promotes the node of a handshake, which leaves or has     *)
(* left only if it is taken down,                                          *)
LEMMA TakeHandshakeNInv ==
  ASSUME NInv, OnThread(TakeHandshake)
  PROVE  /\ NInv'
         /\ \E t \in Task : /\ task[t] = "promoting" /\ task'[t] = "promoted"
                            /\ \A u \in Task : u # t => task'[u] = task[u]
                            /\ t[1] \in shared_key' \/ Down(t[1])
<1> DEFINE m == Head(sched_box)
           t == m.task
<1>1. /\ ~blocked /\ sched_box # <<>> /\ m.issue = "HandshakeEstablished"
      /\ sched_box' = Tail(sched_box)
      /\ Sched!Promote(m.of) \/ (m.of \notin DOMAIN nodes /\ UNCHANGED schedVars)
      /\ Goes(t, "promoting", "promoted")
      /\ UNCHANGED <<accept, streams, recvs, stream, stream_box, connVars, handler_box,
                     lost, blocked>>
  BY DEF OnThread, TakeHandshake, SchedulerTakes, streamVars
<1>2. /\ m \in SchedulerIssue /\ m \in Content(sched_box)
      /\ sched_box' \in Seq(SchedulerIssue) /\ Content(sched_box') \subseteq Content(sched_box)
      /\ \A n : RemoveNode(n) \in Content(sched_box') <=> RemoveNode(n) \in Content(sched_box)
  BY <1>1, OtherIssue DEF NInv, Typed
<1>3. t \in Task /\ m.of = t[1] /\ t[1] \in Node
  BY <1>1, <1>2, Messages DEF SchedulerIssue, NInv, Addressed
<1> HIDE DEF m, t
<1>4. /\ task[t] = "promoting" /\ task' \in [Task -> Stages] /\ task'[t] = "promoted"
      /\ \A u \in Task : u # t => task'[u] = task[u]
      /\ \A n \in Node : Down(n) => Down(n)'
  BY <1>1, <1>3, TaskMoves DEF NInv, Stages
<1>5. SchedInv' /\ DOMAIN nodes' = DOMAIN nodes
  BY <1>1, <1>3, OthersKeep, Promotes DEF NInv
<1>6. Typed'
  BY <1>1, <1>2, <1>4 DEF NInv, Typed, Stages, connVars
<1>7. Addressed'
  BY <1>1, <1>2 DEF NInv, Addressed, connVars
<1>8. \A n \in Node : Started(n)' => Started(n)
  BY <1>1, <1>4, NotStarted
<1>9. Aside
  BY <1>1, <1>2, <1>4, <1>5, <1>8, SameLoops DEF Aside
<1>10. NInv'
  BY <1>5, <1>6, <1>7, <1>9, AsideNInv
<1>11. t[1] \in shared_key' \/ Down(t[1])
  <2>1. CASE Sched!Promote(m.of)
    BY <1>3, <2>1, Promotes DEF NInv
  <2>2. CASE m.of \notin DOMAIN nodes
    <3>1. Started(t[1])
      BY <1>3, <1>4 DEF Started
    <3>2. Down(t[1]) \/ Stays(t[1])
      BY <1>3 DEF NInv, Untouched
    <3> QED
      BY <1>3, <2>2, <3>1, <3>2 DEF Stays
  <2> QED
    BY <1>1, <2>1, <2>2
<1> QED
  BY <1>3, <1>4, <1>10, <1>11

(* and answers whether it has a node.                                      *)
LEMMA TakeExistsNInv ==
  ASSUME NInv, OnThread(TakeExists)
  PROVE  NInv'
<1> DEFINE m == Head(sched_box)
           n == m.of
<1>1. /\ ~blocked /\ sched_box # <<>> /\ m.issue = "Exists"
      /\ sched_box' = Tail(sched_box)
      /\ Loops(n, "asking", IF n \in DOMAIN nodes THEN "found" ELSE "refused")
      /\ UNCHANGED <<schedVars, streams, recvs, stream, stream_box, connVars, task,
                     handler_box, lost, blocked>>
  BY DEF OnThread, TakeExists, SchedulerTakes, streamVars
<1>2. /\ m \in SchedulerIssue
      /\ sched_box' \in Seq(SchedulerIssue) /\ Content(sched_box') \subseteq Content(sched_box)
      /\ \A k : RemoveNode(k) \in Content(sched_box') <=> RemoveNode(k) \in Content(sched_box)
  BY <1>1, OtherIssue DEF NInv, Typed
<1>3. n \in Node
  BY <1>1, <1>2 DEF SchedulerIssue
<1> HIDE DEF m, n
<1>4. /\ accept[n] = "asking" /\ accept' \in [Node -> Places]
      /\ accept'[n] \in {"found", "refused"}
      /\ accept'[n] = "found" => n \in DOMAIN nodes
      /\ \A k \in Node : k # n => accept'[k] = accept[k]
  <2>1. PICK to \in {"found", "refused"} :
          Loops(n, "asking", to) /\ (to = "found" => n \in DOMAIN nodes)
    BY <1>1
  <2>2. to \in Places
    BY DEF Places
  <2> QED
    BY <1>3, <2>1, <2>2, LoopMoves DEF NInv
<1>5. SchedInv' /\ DOMAIN nodes' = DOMAIN nodes
  BY <1>1, OthersKeep DEF NInv
<1>6. Typed'
  BY <1>1, <1>2, <1>4 DEF NInv, Typed, Places, connVars
<1>7. Addressed'
  BY <1>1, <1>2 DEF NInv, Addressed, connVars
<1>8. \A k \in Node : Started(k)' =>
        Started(k) \/ (k \in DOMAIN nodes /\ accept[k] # "registered")
  <2>1. ASSUME NEW k \in Node, ~(k = n /\ accept'[n] = "found")
        PROVE  Started(k)' => Started(k)
    <3>1. accept'[k] = "found" => accept[k] = "found"
      BY <1>4, <2>1
    <3> QED
      BY <1>1, <3>1, NotStarted
  <2> QED
    BY <1>4, <2>1
<1>9. Aside
  BY <1>1, <1>2, <1>4, <1>5, <1>8, StillDown DEF Aside, Coming
<1> QED
  BY <1>5, <1>6, <1>7, <1>9, AsideNInv

-----------------------------------------------------------------------------
(* The mailbox of ConnectionService.                                       *)

\* What message i of it is about, one step on.
Same(i, k) ==
  \A n \in Node : /\ Announces(k, n)' = Announces(i, n)
                  /\ Deletes(k, n)' = Deletes(i, n)
                  /\ Sends(k, n)' = Sends(i, n)

(* A message is appended.                                                  *)
LEMMA BoxAppended ==
  ASSUME conn_box \in Seq(ConnectionMessage), NEW m \in ConnectionMessage,
         ToConnection(m), connections' = connections
  PROVE  /\ conn_box' \in Seq(ConnectionMessage)
         /\ Content(conn_box') = Content(conn_box) \cup {m}
         /\ Len(conn_box) \in Nat /\ Len(conn_box') = Len(conn_box) + 1
         /\ DOMAIN conn_box' = DOMAIN conn_box \cup {Len(conn_box) + 1}
         /\ \A i \in DOMAIN conn_box : /\ i \in Nat /\ i < Len(conn_box) + 1
                                       /\ conn_box'[i] = conn_box[i] /\ Same(i, i)
         /\ conn_box'[Len(conn_box) + 1] = m
         /\ \A n \in Node, i \in Nat : Reachable(n, i) => Reachable(n, i)'
         /\ \A n \in Node : Reachable(n, Len(conn_box) + 1) => Reachable(n, Len(conn_box) + 1)'
<1>1. /\ conn_box' \in Seq(ConnectionMessage)
      /\ Content(conn_box') = Content(conn_box) \cup {m}
  BY ContentAppended DEF ToConnection
<1>2. /\ DOMAIN conn_box \subseteq 1 .. Len(conn_box) /\ Len(conn_box) \in Nat
      /\ DOMAIN conn_box' = DOMAIN conn_box \cup {Len(conn_box) + 1}
      /\ Len(conn_box') = Len(conn_box) + 1
      /\ \A i \in DOMAIN conn_box : conn_box'[i] = conn_box[i] /\ i < Len(conn_box) + 1
      /\ conn_box'[Len(conn_box) + 1] = m
  BY PositionsAppended DEF ToConnection
<1>3. \A i \in DOMAIN conn_box : i \in Nat /\ Same(i, i)
  BY <1>2 DEF Same, Announces, Deletes, Sends
<1>4. \A n \in Node, i \in Nat : Reachable(n, i) => Reachable(n, i)'
  BY <1>2, <1>3 DEF Reachable, Same
<1>5. \A n \in Node : Reachable(n, Len(conn_box) + 1) => Reachable(n, Len(conn_box) + 1)'
  <2> SUFFICES ASSUME NEW n \in Node, Reachable(n, Len(conn_box) + 1),
                      n \notin DOMAIN connections
               PROVE  \E k \in DOMAIN conn_box' :
                        k < Len(conn_box') + 1 /\ Announces(k, n)'
    BY DEF Reachable
  <2>1. PICK k \in DOMAIN conn_box : k < Len(conn_box) + 1 /\ Announces(k, n)
    BY DEF Reachable
  <2> QED
    BY <1>2, <1>3, <2>1 DEF Same
<1> QED
  BY <1>1, <1>2, <1>3, <1>4, <1>5

(* The first message is taken.                                             *)
LEMMA BoxTaken ==
  ASSUME conn_box \in Seq(ConnectionMessage), conn_box # <<>>, conn_box' = Tail(conn_box)
  PROVE  /\ Head(conn_box) = conn_box[1] /\ Head(conn_box) \in ConnectionMessage
         /\ 1 \in DOMAIN conn_box
         /\ conn_box' \in Seq(ConnectionMessage)
         /\ Content(conn_box') \subseteq Content(conn_box)
         /\ Head(conn_box) \in Content(conn_box)
         /\ Len(conn_box') = Len(conn_box) - 1 /\ Len(conn_box) \in Nat
         /\ \A i \in DOMAIN conn_box : i \in Nat \ {0}
         /\ \A i \in DOMAIN conn_box' :
              /\ i \in Nat \ {0} /\ i + 1 \in DOMAIN conn_box
              /\ conn_box'[i] = conn_box[i + 1] /\ Same(i + 1, i)
         /\ \A i \in DOMAIN conn_box \ {1} : i - 1 \in DOMAIN conn_box' /\ Same(i, i - 1)
<1>1. /\ conn_box' \in Seq(ConnectionMessage) /\ Head(conn_box) \in Content(conn_box)
      /\ Content(conn_box') \subseteq Content(conn_box)
  BY ContentTaken
<1>2. /\ 1 \in DOMAIN conn_box /\ Head(conn_box) = conn_box[1]
      /\ conn_box[1] \in ConnectionMessage
      /\ DOMAIN conn_box \subseteq Nat \ {0} /\ DOMAIN conn_box' \subseteq Nat \ {0}
      /\ Len(conn_box) \in Nat /\ Len(conn_box') = Len(conn_box) - 1
      /\ \A i \in DOMAIN conn_box' :
           i + 1 \in DOMAIN conn_box /\ conn_box'[i] = conn_box[i + 1]
      /\ \A i \in DOMAIN conn_box \ {1} :
           i - 1 \in DOMAIN conn_box' /\ conn_box'[i - 1] = conn_box[i]
  BY PositionsTaken
<1>3. \A i \in DOMAIN conn_box' : Same(i + 1, i)
  BY <1>2 DEF Same, Announces, Deletes, Sends
<1>4. \A i \in DOMAIN conn_box \ {1} : Same(i, i - 1)
  BY <1>2 DEF Same, Announces, Deletes, Sends
<1> QED
  BY <1>1, <1>2, <1>3, <1>4

(* A node that was reachable is so when the first message is gone, unless  *)
(* that was the one to say so or the node is taken out.                    *)
LEMMA StillReachable ==
  ASSUME conn_box \in Seq(ConnectionMessage), conn_box # <<>>, conn_box' = Tail(conn_box),
         NEW n \in Node, n \in DOMAIN connections => n \in DOMAIN connections',
         Announces(1, n) => n \in DOMAIN connections', NEW i \in Nat, Reachable(n, i + 1)
  PROVE  Reachable(n, i)'
<1>1. CASE n \in DOMAIN connections \/ Announces(1, n)
  BY <1>1 DEF Reachable
<1>2. CASE ~(n \in DOMAIN connections \/ Announces(1, n))
  <2>1. PICK k \in DOMAIN conn_box : k < i + 1 /\ Announces(k, n)
    BY <1>2 DEF Reachable
  <2>2. k # 1 /\ k \in Nat
    BY <1>2, <2>1, BoxTaken
  <2>3. k - 1 \in DOMAIN conn_box' /\ Same(k, k - 1)
    BY <2>1, <2>2, BoxTaken
  <2>4. Announces(k - 1, n)' /\ k - 1 < i
    BY <2>1, <2>2, <2>3 DEF Same
  <2> QED
    BY <2>3, <2>4 DEF Reachable
<1> QED
  BY <1>1, <1>2

-----------------------------------------------------------------------------
(* What is sent to ConnectionService.                                      *)

(* A stream that is started is announced, and the loop waits; if           *)
(* ConnectionService is dead nobody needs to know.                         *)
LEMMA StartStreamNInv ==
  ASSUME NInv, NEW n \in Node, OnThread(StartStream(n))
  PROVE  NInv'
<1> DEFINE m == NewStream(n, streams[n])
           s == <<n, streams[n]>>
<1>1. /\ ~blocked /\ Loops(n, "registered", IF conn_up THEN "announcing" ELSE "idle")
      /\ stream' = [stream EXCEPT ![s] = "running"]
      /\ IF conn_up THEN ToConnection(m) ELSE UNCHANGED conn_box
      /\ UNCHANGED <<schedVars, streams, recvs, stream_box, connections, conn_up, task,
                     handler_box, sched_box, lost, blocked>>
  BY DEF OnThread, StartStream
<1>2. /\ accept[n] = "registered" /\ accept' \in [Node -> Places]
      /\ accept'[n] = IF conn_up THEN "announcing" ELSE "idle"
      /\ \A k \in Node : k # n => accept'[k] = accept[k]
  <2>1. (IF conn_up THEN "announcing" ELSE "idle") \in Places
    BY DEF Places
  <2> QED
    BY <1>1, <2>1, LoopMoves DEF NInv
<1>3. SchedInv' /\ DOMAIN nodes' = DOMAIN nodes
  BY <1>1, OthersKeep DEF NInv
<1>4. streams[n] \in 1 .. MaxStream /\ s \in Stream
  <2>1. streams[n] > 0 /\ streams[n] \in 0 .. MaxStream
    BY <1>2 DEF NInv, Announcements, Typed
  <2> QED
    BY <2>1 DEF Stream
<1>5. /\ stream' \in [Stream -> {"none", "running", "stopped", "panicked"}]
      /\ stream'[s] = "running" /\ \A r \in Stream : r # s => stream'[r] = stream[r]
      /\ \A k \in Node, j \in 1 .. MaxStream :
           stream[<<k, j>>] # "none" => stream'[<<k, j>>] # "none"
  <2>1. stream \in [Stream -> {"none", "running", "stopped", "panicked"}]
    BY DEF NInv, Typed
  <2>2. \A k \in Node, j \in 1 .. MaxStream : <<k, j>> \in Stream
    BY DEF Stream
  <2> HIDE DEF s
  <2> QED
    BY <1>1, <1>4, <2>1, <2>2
<1>6. m \in ConnectionMessage /\ conn_box \in Seq(ConnectionMessage)
  BY <1>4, Messages DEF NInv, Typed
<1>7. m.op = "NewStream" /\ m.node = n /\ m.stream = streams[n]
  BY DEF NewStream
<1> HIDE DEF m
<1>8. Len(conn_box) + 1 \in Nat
  BY <1>6
<1>9. PICK L \in Nat : L = Len(conn_box) + 1
  BY <1>8, Zenon
<1>10. conn_up => /\ conn_box' \in Seq(ConnectionMessage)
                  /\ Content(conn_box') = Content(conn_box) \cup {m}
                  /\ Len(conn_box') = L /\ DOMAIN conn_box' = DOMAIN conn_box \cup {L}
                  /\ \A i \in DOMAIN conn_box :
                       i \in Nat /\ i < L /\ conn_box'[i] = conn_box[i] /\ Same(i, i)
                  /\ conn_box'[L] = m
                  /\ \A k \in Node, i \in Nat : Reachable(k, i) => Reachable(k, i)'
                  /\ \A k \in Node : Reachable(k, L) => Reachable(k, Len(conn_box) + 1)'
  BY <1>1, <1>6, <1>9, BoxAppended
<1>11. conn_up => \A k \in Node : /\ Announces(L, k)' <=> k = n
                                  /\ ~Deletes(L, k)' /\ ~Sends(L, k)'
  BY <1>7, <1>10 DEF Announces, Deletes, Sends
<1>12. ~conn_up => conn_box' = <<>> /\ conn_box = <<>> /\ connections' = <<>>
  BY <1>1 DEF NInv, Dead
<1>13. Typed'
  BY <1>1, <1>2, <1>5, <1>6, <1>10 DEF NInv, Typed, Places
<1>14. Addressed' /\ Dead'
  BY <1>1, <1>7, <1>10, <1>12 DEF NInv, Addressed, Dead
<1>15. Announcements'
  <2>1. \A k \in Node :
          accept'[k] \in {"registering", "registered", "announcing"} => streams'[k] > 0
    BY <1>1, <1>2, <1>4 DEF NInv, Announcements
  <2>2. CASE ~conn_up
    <3>1. DOMAIN conn_box' = {}
      BY <1>12, <2>2
    <3> QED
      BY <2>1, <3>1 DEF Announcements
  <2>3. CASE conn_up
    <3>1. \A i \in DOMAIN conn_box : ~Announces(i, n)
      BY <1>2 DEF NInv, Announcements
    <3>2. \A k \in Node : \A i, h \in DOMAIN conn_box' :
            Announces(i, k)' /\ Announces(h, k)' => i = h
      <4> SUFFICES ASSUME NEW k \in Node, NEW i \in DOMAIN conn_box',
                          NEW h \in DOMAIN conn_box', Announces(i, k)', Announces(h, k)'
                   PROVE  i = h
        OBVIOUS
      <4>1. CASE k = n
        <5>1. \A g \in DOMAIN conn_box : ~Announces(g, k)'
          BY <1>10, <2>3, <3>1, <4>1 DEF Same
        <5>2. DOMAIN conn_box' = DOMAIN conn_box \cup {L}
          BY <1>10, <2>3
        <5>3. i \notin DOMAIN conn_box /\ h \notin DOMAIN conn_box
          BY <5>1, Zenon
        <5> QED
          BY <5>2, <5>3, Zenon
      <4>2. CASE k # n
        <5>1. ~Announces(L, k)'
          BY <1>11, <2>3, <4>2
        <5>2. \A g \in DOMAIN conn_box : Announces(g, k)' <=> Announces(g, k)
          BY <1>10, <2>3 DEF Same
        <5>3. i \in DOMAIN conn_box /\ h \in DOMAIN conn_box
          BY <1>10, <2>3, <5>1
        <5>4. Announces(i, k) /\ Announces(h, k)
          BY <5>2, <5>3
        <5> QED
          BY <5>3, <5>4 DEF NInv, Announcements
      <4> QED
        BY <4>1, <4>2
    <3>3. \A k \in Node : \A i \in DOMAIN conn_box : Announces(i, k)' =>
            /\ accept'[k] = "announcing" /\ conn_box'[i].stream = streams'[k]
            /\ stream'[<<k, streams'[k]>>] # "none"
      <4> SUFFICES ASSUME NEW k \in Node, NEW i \in DOMAIN conn_box, Announces(i, k)'
                   PROVE  /\ accept'[k] = "announcing" /\ conn_box'[i].stream = streams'[k]
                          /\ stream'[<<k, streams'[k]>>] # "none"
        OBVIOUS
      <4>1. Announces(i, k) /\ k # n
        BY <1>10, <2>3, <3>1 DEF Same
      <4>2. /\ accept[k] = "announcing" /\ conn_box[i].stream = streams[k]
            /\ stream[<<k, streams[k]>>] # "none"
        BY <4>1 DEF NInv, Announcements
      <4>3. streams[k] \in 1 .. MaxStream
        <5>1. streams[k] \in 0 .. MaxStream /\ streams[k] > 0
          BY <4>2 DEF NInv, Typed, Announcements
        <5> QED
          BY <5>1
      <4> QED
        BY <1>1, <1>2, <1>5, <1>10, <2>3, <4>1, <4>2, <4>3
    <3>4. /\ accept'[n] = "announcing" /\ conn_box'[L].stream = streams'[n]
          /\ stream'[<<n, streams'[n]>>] # "none"
      BY <1>1, <1>2, <1>5, <1>7, <1>10, <2>3
    <3>5. \A k \in Node : \A i \in DOMAIN conn_box' : Announces(i, k)' =>
            /\ accept'[k] = "announcing" /\ conn_box'[i].stream = streams'[k]
            /\ stream'[<<k, streams'[k]>>] # "none"
      BY <1>10, <1>11, <2>3, <3>3, <3>4
    <3> QED
      BY <2>1, <3>2, <3>5 DEF Announcements
  <2> QED
    BY <2>2, <2>3
<1>16. Deletions'
  <2> SUFFICES ASSUME NEW k \in Node, NEW i \in DOMAIN conn_box, Deletes(i, k), conn_up
               PROVE  \/ RemoveNode(k) \in Content(sched_box)
                      \/ k \notin DOMAIN nodes
                      \/ accept'[k] = "registered"
                      \/ /\ accept'[k] = "announcing"
                         /\ \E j \in DOMAIN conn_box' : j > i /\ Announces(j, k)'
    BY <1>1, <1>3, <1>10, <1>11, <1>12 DEF Deletions, Same
  <2>1. CASE k = n
    BY <1>2, <1>10, <1>11, <2>1
  <2>2. CASE k # n
    <3>1. accept'[k] = accept[k]
      BY <1>2, <2>2
    <3>2. \A j \in DOMAIN conn_box : j > i /\ Announces(j, k) =>
            j \in DOMAIN conn_box' /\ Announces(j, k)'
      BY <1>10 DEF Same
    <3> QED
      BY <3>1, <3>2 DEF NInv, Deletions
  <2> QED
    BY <2>1, <2>2
<1>17. HasStream'
  BY <1>1, <1>2, <1>3 DEF NInv, HasStream
<1>18. Latest'
  <2> SUFFICES ASSUME NEW k \in DOMAIN connections
               PROVE  /\ stream'[<<k, connections[k]>>] # "none"
                      /\ \/ connections[k] = streams[k]
                         \/ accept'[k] \in {"registering", "registered", "announcing"}
    BY <1>1 DEF Latest
  <2>1. k \in Node /\ connections[k] \in 1 .. MaxStream /\ conn_up
    BY <1>1, <1>12 DEF NInv, Typed
  <2> QED
    BY <1>2, <1>5, <2>1 DEF NInv, Latest
<1>19. ASSUME NEW k \in Node, ~Down(k)' PROVE Stays(k)'
  <2>1. Stays(k)
    BY <1>1, <1>19, StillDown DEF NInv, Untouched
  <2>2. k # n => (Started(k)' => Started(k))
    <3>1. ASSUME k # n PROVE \A j \in 1 .. MaxStream : stream'[<<k, j>>] = stream[<<k, j>>]
      BY <1>5, <3>1 DEF Stream
    <3> QED
      BY <1>1, <1>2, <3>1, NotStarted
  <2>3. n \in DOMAIN nodes \/ k # n
    BY <1>2, <2>1 DEF Stays
  <2>4. accept'[k] = "registered" \/ Started(k)' => k \in DOMAIN nodes'
    BY <1>2, <1>3, <2>1, <2>2, <2>3 DEF Stays
  <2>5. conn_up => Reachable(n, Len(conn_box) + 1)'
    BY <1>9, <1>10, <1>11 DEF Reachable
  <2>6. conn_up' /\ k \in DOMAIN nodes' =>
          Reachable(k, Len(conn_box) + 1)' \/ accept'[k] = "registered"
    BY <1>1, <1>2, <1>3, <1>9, <1>10, <2>1, <2>5 DEF Stays
  <2>7. conn_up' /\ Started(k)' => Reachable(k, Len(conn_box) + 1)'
    BY <1>1, <1>9, <1>10, <2>1, <2>2, <2>5 DEF Stays
  <2>8. \A i \in DOMAIN conn_box' : ~Deletes(i, k)' /\ (Sends(i, k)' => Reachable(k, i)')
    <3>1. CASE conn_up
      BY <1>10, <1>11, <2>1, <3>1 DEF Stays, Same
    <3>2. CASE ~conn_up
      BY <1>12, <3>2
    <3> QED
      BY <3>1, <3>2
  <2>9. /\ RemoveNode(k) \notin Content(sched_box')
        /\ DownNode(k) \in Content(handler_box') => blocked'
    BY <1>1, <2>1 DEF Stays
  <2> QED
    BY <2>4, <2>6, <2>7, <2>8, <2>9, Zenon DEF Stays
<1>20. Untouched'
  BY <1>1, <1>19, StillDown DEF NInv, Untouched
<1> QED
  BY <1>3, <1>13, <1>14, <1>15, <1>16, <1>17, <1>18, <1>20 DEF NInv

(* A taking down is sent to both, the scheduler and ConnectionService, and *)
(* only of a node that has been refused: no ping goes unblocked.           *)
LEMMA HandleDownNInv ==
  ASSUME NInv, OnThread(HandleDown)
  PROVE  NInv'
<1> DEFINE h == Head(handler_box)
           n == h.node
           m == DeleteStream(n)
<1>1. /\ ~blocked /\ handler_box # <<>> /\ h.msg = "DownNode"
      /\ handler_box' = Tail(handler_box)
      /\ IF conn_up THEN ToConnection(m) ELSE UNCHANGED conn_box
      /\ sched_box' = Append(sched_box, RemoveNode(n))
      /\ UNCHANGED <<schedVars, accept, streams, recvs, stream, stream_box, connections,
                     conn_up, task, lost, blocked>>
  BY DEF OnThread, HandleDown, HandlerTakes, ToScheduler, nodeVars, streamVars
<1>2. /\ h \in HandlerMessage /\ h \in Content(handler_box)
      /\ handler_box' \in Seq(HandlerMessage)
      /\ Content(handler_box') \subseteq Content(handler_box)
  BY <1>1, ContentTaken, PositionsTaken DEF NInv, Typed
<1>3. n \in Node /\ h = DownNode(n)
  BY <1>1, <1>2 DEF HandlerMessage, DownNode
<1> HIDE DEF h, n
<1>4. Down(n)
  BY <1>1, <1>2, <1>3 DEF NInv, Untouched, Stays
<1>5. SchedInv' /\ DOMAIN nodes' = DOMAIN nodes
  BY <1>1, OthersKeep DEF NInv
<1>6. /\ sched_box' \in Seq(SchedulerIssue)
      /\ Content(sched_box') = Content(sched_box) \cup {RemoveNode(n)}
  BY <1>1, <1>3, Messages, ContentAppended DEF NInv, Typed
<1>7. /\ m \in ConnectionMessage /\ conn_box \in Seq(ConnectionMessage)
      /\ m.op = "DeleteStream" /\ m.node = n
  BY <1>3, Messages, Tags DEF NInv, Typed
<1> HIDE DEF m
<1>8. Len(conn_box) + 1 \in Nat
  BY <1>7
<1>9. PICK L \in Nat : L = Len(conn_box) + 1
  BY <1>8, Zenon
<1>10. conn_up => /\ conn_box' \in Seq(ConnectionMessage)
                  /\ Content(conn_box') = Content(conn_box) \cup {m}
                  /\ Len(conn_box') = L /\ DOMAIN conn_box' = DOMAIN conn_box \cup {L}
                  /\ \A i \in DOMAIN conn_box :
                       i \in Nat /\ i < L /\ conn_box'[i] = conn_box[i] /\ Same(i, i)
                  /\ conn_box'[L] = m
                  /\ \A k \in Node, i \in Nat : Reachable(k, i) => Reachable(k, i)'
                  /\ \A k \in Node : Reachable(k, L) => Reachable(k, Len(conn_box) + 1)'
  BY <1>1, <1>7, <1>9, BoxAppended
<1>11. conn_up => \A k \in Node : /\ Deletes(L, k)' <=> k = n
                                  /\ ~Announces(L, k)' /\ ~Sends(L, k)'
  BY <1>7, <1>10 DEF Announces, Deletes, Sends
<1>12. ~conn_up => conn_box' = <<>> /\ conn_box = <<>> /\ connections' = <<>>
  BY <1>1 DEF NInv, Dead
<1>13. Typed'
  BY <1>1, <1>2, <1>6, <1>10 DEF NInv, Typed
<1>14. Addressed' /\ Dead'
  <2>1. RemoveNode(n).issue # "HandshakeEstablished"
    BY DEF RemoveNode
  <2> QED
    BY <1>1, <1>6, <1>7, <1>10, <1>12, <2>1 DEF NInv, Addressed, Dead
<1>15. Announcements'
  BY <1>1, <1>10, <1>11, <1>12 DEF NInv, Announcements, Same
<1>16. Deletions'
  <2> SUFFICES ASSUME NEW k \in Node, NEW i \in DOMAIN conn_box', Deletes(i, k)', conn_up
               PROVE  \/ RemoveNode(k) \in Content(sched_box')
                      \/ k \notin DOMAIN nodes
                      \/ accept[k] = "registered"
                      \/ /\ accept[k] = "announcing"
                         /\ \E j \in DOMAIN conn_box' : j > i /\ Announces(j, k)'
    BY <1>1, <1>5, <1>12 DEF Deletions
  <2>1. CASE i = L
    BY <1>6, <1>11, <2>1
  <2>2. CASE i # L
    <3>1. i \in DOMAIN conn_box /\ Deletes(i, k)
      BY <1>10, <2>2 DEF Same
    <3>2. \A j \in DOMAIN conn_box : j > i /\ Announces(j, k) =>
            j \in DOMAIN conn_box' /\ Announces(j, k)'
      BY <1>10 DEF Same
    <3> QED
      BY <1>6, <3>1, <3>2 DEF NInv, Deletions
  <2> QED
    BY <2>1, <2>2
<1>17. HasStream'
  BY <1>1, <1>5, <1>6 DEF NInv, HasStream
<1>18. Latest'
  BY <1>1 DEF NInv, Latest
<1>19. ASSUME NEW k \in Node, ~Down(k)' PROVE Stays(k)'
  <2>1. Stays(k) /\ k # n
    BY <1>1, <1>4, <1>19, StillDown DEF NInv, Untouched
  <2>2. Started(k)' => Started(k)
    BY <1>1, NotStarted
  <2>3. accept'[k] = "registered" \/ Started(k)' => k \in DOMAIN nodes'
    BY <1>1, <1>5, <2>1, <2>2 DEF Stays
  <2>4. conn_up' /\ k \in DOMAIN nodes' =>
          Reachable(k, Len(conn_box) + 1)' \/ accept'[k] = "registered"
    BY <1>1, <1>5, <1>9, <1>10, <2>1 DEF Stays
  <2>5. conn_up' /\ Started(k)' => Reachable(k, Len(conn_box) + 1)'
    BY <1>1, <1>9, <1>10, <2>1, <2>2 DEF Stays
  <2>6. \A i \in DOMAIN conn_box' : ~Deletes(i, k)' /\ (Sends(i, k)' => Reachable(k, i)')
    <3>1. CASE conn_up
      BY <1>10, <1>11, <2>1, <3>1 DEF Stays, Same
    <3>2. CASE ~conn_up
      BY <1>12, <3>2
    <3> QED
      BY <3>1, <3>2
  <2>7. /\ RemoveNode(k) \notin Content(sched_box')
        /\ DownNode(k) \in Content(handler_box') => blocked'
    BY <1>1, <1>2, <1>6, <2>1, Different DEF Stays
  <2> QED
    BY <2>3, <2>4, <2>5, <2>6, <2>7, Zenon DEF Stays
<1>20. Untouched'
  BY <1>1, <1>19, StillDown DEF NInv, Untouched
<1> QED
  BY <1>5, <1>13, <1>14, <1>15, <1>16, <1>17, <1>18, <1>20 DEF NInv

(* The answer to a handshake is sent to a node that is reachable when the  *)
(* message is taken, unless the node is taken down.                        *)
LEMMA AnswerNInv ==
  ASSUME NInv, NEW t \in Task, OnThread(Greet(t) \/ Refuse(t))
  PROVE  NInv'
<1> DEFINE m == Send(t)
           n == t[1]
<1>1. /\ ~blocked
      /\ \E from \in {"promoted", "wrong"},
            to \in {"greeting", "greeted", "refusing", "refused"} : Goes(t, from, to)
      /\ IF conn_up THEN ToConnection(m) ELSE UNCHANGED conn_box
      /\ UNCHANGED <<schedVars, accept, streams, recvs, stream, stream_box, connections,
                     conn_up, handler_box, sched_box, lost, blocked>>
  BY DEF OnThread, Greet, Refuse, Answer, nodeVars, streamVars
<1>2. /\ task[t] # "none" /\ task' \in [Task -> Stages]
      /\ \A u \in Task : u # t => task'[u] = task[u]
      /\ \A k \in Node : Down(k) => Down(k)'
  <2>1. PICK from \in {"promoted", "wrong"},
             to \in {"greeting", "greeted", "refusing", "refused"} : Goes(t, from, to)
    BY <1>1
  <2>2. to \in Stages
    BY DEF Stages
  <2> QED
    BY <2>1, <2>2, TaskMoves DEF NInv
<1>3. n \in Node /\ Started(n)
  BY <1>2, Messages DEF Started
<1>4. SchedInv' /\ DOMAIN nodes' = DOMAIN nodes
  BY <1>1, OthersKeep DEF NInv
<1>5. /\ m \in ConnectionMessage /\ conn_box \in Seq(ConnectionMessage)
      /\ m.op = "Send" /\ m.node = n /\ m.task = t
  BY Messages, Tags DEF NInv, Typed
<1> HIDE DEF m
<1>6. Len(conn_box) + 1 \in Nat
  BY <1>5
<1>7. PICK L \in Nat : L = Len(conn_box) + 1
  BY <1>6, Zenon
<1>8. conn_up => /\ conn_box' \in Seq(ConnectionMessage)
                 /\ Content(conn_box') = Content(conn_box) \cup {m}
                 /\ Len(conn_box') = L /\ DOMAIN conn_box' = DOMAIN conn_box \cup {L}
                 /\ \A i \in DOMAIN conn_box :
                      i \in Nat /\ i < L /\ conn_box'[i] = conn_box[i] /\ Same(i, i)
                 /\ conn_box'[L] = m
                 /\ \A k \in Node, i \in Nat : Reachable(k, i) => Reachable(k, i)'
                 /\ \A k \in Node : Reachable(k, L) => Reachable(k, Len(conn_box) + 1)'
  BY <1>1, <1>5, <1>7, BoxAppended
<1>9. conn_up => \A k \in Node : /\ Sends(L, k)' <=> k = n
                                 /\ ~Announces(L, k)' /\ ~Deletes(L, k)'
  BY <1>5, <1>8 DEF Announces, Deletes, Sends
<1>10. ~conn_up => conn_box' = <<>> /\ conn_box = <<>> /\ connections' = <<>>
  BY <1>1 DEF NInv, Dead
<1>11. Typed'
  BY <1>1, <1>2, <1>8 DEF NInv, Typed, Stages
<1>12. Addressed' /\ Dead'
  BY <1>1, <1>5, <1>8, <1>10 DEF NInv, Addressed, Dead
<1>13. Announcements'
  BY <1>1, <1>8, <1>9, <1>10 DEF NInv, Announcements, Same
<1>14. Deletions'
  <2> SUFFICES ASSUME NEW k \in Node, NEW i \in DOMAIN conn_box, Deletes(i, k), conn_up
               PROVE  \/ RemoveNode(k) \in Content(sched_box)
                      \/ k \notin DOMAIN nodes
                      \/ accept[k] = "registered"
                      \/ /\ accept[k] = "announcing"
                         /\ \E j \in DOMAIN conn_box' : j > i /\ Announces(j, k)'
    BY <1>1, <1>4, <1>8, <1>9, <1>10 DEF Deletions, Same
  <2>1. \A j \in DOMAIN conn_box : j > i /\ Announces(j, k) =>
          j \in DOMAIN conn_box' /\ Announces(j, k)'
    BY <1>8 DEF Same
  <2> QED
    BY <2>1 DEF NInv, Deletions
<1>15. HasStream' /\ Latest'
  BY <1>1, <1>4 DEF NInv, HasStream, Latest
<1>16. ASSUME NEW k \in Node, ~Down(k)' PROVE Stays(k)'
  <2>1. Stays(k)
    BY <1>2, <1>16 DEF NInv, Untouched
  <2>2. Started(k)' => Started(k)
    BY <1>1, <1>2, NotStarted
  <2>3. accept'[k] = "registered" \/ Started(k)' => k \in DOMAIN nodes'
    BY <1>1, <1>4, <2>1, <2>2 DEF Stays
  <2>4. conn_up' /\ k \in DOMAIN nodes' =>
          Reachable(k, Len(conn_box) + 1)' \/ accept'[k] = "registered"
    BY <1>1, <1>4, <1>7, <1>8, <2>1 DEF Stays
  <2>5. conn_up' /\ Started(k)' => Reachable(k, Len(conn_box) + 1)'
    BY <1>1, <1>7, <1>8, <2>1, <2>2 DEF Stays
  <2>6. \A i \in DOMAIN conn_box' : ~Deletes(i, k)' /\ (Sends(i, k)' => Reachable(k, i)')
    <3>1. CASE conn_up
      <4>1. k = n => Reachable(k, L)
        BY <1>3, <1>7, <2>1, <3>1 DEF Stays
      <4>2. ~Deletes(L, k)' /\ (Sends(L, k)' => Reachable(k, L)')
        BY <1>7, <1>8, <1>9, <3>1, <4>1
      <4>3. \A i \in DOMAIN conn_box : ~Deletes(i, k)' /\ (Sends(i, k)' => Reachable(k, i)')
        BY <1>8, <2>1, <3>1 DEF Stays, Same
      <4> QED
        BY <1>8, <3>1, <4>2, <4>3
    <3>2. CASE ~conn_up
      BY <1>10, <3>2
    <3> QED
      BY <3>1, <3>2
  <2>7. /\ RemoveNode(k) \notin Content(sched_box')
        /\ DownNode(k) \in Content(handler_box') => blocked'
    BY <1>1, <2>1 DEF Stays
  <2> QED
    BY <2>3, <2>4, <2>5, <2>6, <2>7, Zenon DEF Stays
<1>17. Untouched'
  BY <1>1, <1>2, <1>16 DEF NInv, Untouched
<1> QED
  BY <1>4, <1>11, <1>12, <1>13, <1>14, <1>15, <1>17 DEF NInv

-----------------------------------------------------------------------------
(* What the scheduler is told of streams.                                  *)

(* A node with a new stream is in the scheduler, and in connections or     *)
(* about to be.                                                            *)
LEMMA TakeNewNodeNInv ==
  ASSUME NInv, OnThread(TakeNewNode)
  PROVE  NInv'
<1> DEFINE m == Head(sched_box)
           n == m.of
<1>1. /\ ~blocked /\ sched_box # <<>> /\ m.issue = "NewNode"
      /\ sched_box' = Tail(sched_box)
      /\ Sched!Register(n) \/ (n \in DOMAIN nodes /\ UNCHANGED schedVars)
      /\ Loops(n, "registering", "registered")
      /\ UNCHANGED <<streams, recvs, stream, stream_box, connections, conn_box, conn_up,
                     task, handler_box, lost, blocked>>
  BY DEF OnThread, TakeNewNode, SchedulerTakes, streamVars, connVars
<1>2. /\ m \in SchedulerIssue
      /\ sched_box' \in Seq(SchedulerIssue) /\ Content(sched_box') \subseteq Content(sched_box)
      /\ \A k : RemoveNode(k) \in Content(sched_box') <=> RemoveNode(k) \in Content(sched_box)
  BY <1>1, OtherIssue DEF NInv, Typed
<1>3. n \in Node
  BY <1>1, <1>2 DEF SchedulerIssue
<1> HIDE DEF m, n
<1>4. /\ accept[n] = "registering" /\ accept' \in [Node -> Places]
      /\ accept'[n] = "registered" /\ \A k \in Node : k # n => accept'[k] = accept[k]
  BY <1>1, <1>3, LoopMoves DEF NInv, Places
<1>5. SchedInv' /\ DOMAIN nodes' = DOMAIN nodes \cup {n}
  BY <1>1, <1>3, OthersKeep, Registers DEF NInv
<1>6. \A i \in DOMAIN conn_box : Same(i, i)
      /\ \A k \in Node, j \in Nat : Reachable(k, j)' = Reachable(k, j)
  BY <1>1 DEF Same, Announces, Deletes, Sends, Reachable
<1>7. Typed'
  BY <1>1, <1>2, <1>4 DEF NInv, Typed, Places
<1>8. Addressed' /\ Dead'
  BY <1>1, <1>2 DEF NInv, Addressed, Dead
<1>9. Announcements'
  BY <1>1, <1>4, <1>6 DEF NInv, Announcements, Same
<1>10. Deletions'
  <2> SUFFICES ASSUME NEW k \in Node, NEW i \in DOMAIN conn_box, Deletes(i, k), k # n
               PROVE  \/ RemoveNode(k) \in Content(sched_box)
                      \/ k \notin DOMAIN nodes
                      \/ accept[k] = "registered"
                      \/ /\ accept[k] = "announcing"
                         /\ \E j \in DOMAIN conn_box : j > i /\ Announces(j, k)
    BY <1>1, <1>2, <1>4, <1>5, <1>6 DEF Deletions, Same
  <2> QED
    BY DEF NInv, Deletions
<1>11. HasStream'
  BY <1>1, <1>2, <1>4, <1>5 DEF NInv, HasStream
<1>12. Latest'
  BY <1>1, <1>4 DEF NInv, Latest, Typed
<1>13. ASSUME NEW k \in Node, ~Down(k)' PROVE Stays(k)'
  <2>1. Stays(k)
    BY <1>1, <1>13, StillDown DEF NInv, Untouched
  <2>2. Started(k)' => Started(k)
    BY <1>1, <1>4, NotStarted
  <2>3. accept'[k] = "registered" \/ Started(k)' => k \in DOMAIN nodes'
    BY <1>4, <1>5, <2>1, <2>2 DEF Stays
  <2>4. Reachable(k, Len(conn_box) + 1)' = Reachable(k, Len(conn_box) + 1)
    BY <1>1 DEF Reachable, Announces
  <2>5. conn_up' /\ k \in DOMAIN nodes' =>
          Reachable(k, Len(conn_box) + 1)' \/ accept'[k] = "registered"
    BY <1>1, <1>4, <1>5, <2>1, <2>4 DEF Stays
  <2>6. conn_up' /\ Started(k)' => Reachable(k, Len(conn_box) + 1)'
    BY <1>1, <2>1, <2>2, <2>4 DEF Stays
  <2>7. \A i \in DOMAIN conn_box' : ~Deletes(i, k)' /\ (Sends(i, k)' => Reachable(k, i)')
    BY <1>1, <2>1 DEF Stays, Deletes, Sends, Reachable, Announces
  <2>8. /\ RemoveNode(k) \notin Content(sched_box')
        /\ DownNode(k) \in Content(handler_box') => blocked'
    BY <1>1, <1>2, <2>1 DEF Stays
  <2> QED
    BY <2>3, <2>5, <2>6, <2>7, <2>8, Zenon DEF Stays
<1>14. Untouched'
  BY <1>1, <1>13, StillDown DEF NInv, Untouched
<1> QED
  BY <1>5, <1>7, <1>8, <1>9, <1>10, <1>11, <1>12, <1>14 DEF NInv

(* A node leaves the scheduler only if it is taken down.                   *)
LEMMA TakeRemoveNodeNInv ==
  ASSUME NInv, OnThread(TakeRemoveNode)
  PROVE  NInv'
<1> DEFINE m == Head(sched_box)
           n == m.of
<1>1. /\ ~blocked /\ sched_box # <<>> /\ m.issue = "RemoveNode"
      /\ sched_box' = Tail(sched_box)
      /\ Sched!Unregister(n) \/ (n \notin DOMAIN nodes /\ UNCHANGED schedVars)
      /\ UNCHANGED <<accept, streams, recvs, stream, stream_box, connections, conn_box,
                     conn_up, task, handler_box, lost, blocked>>
  BY DEF OnThread, TakeRemoveNode, SchedulerTakes, streamVars, connVars
<1>2. /\ m \in SchedulerIssue /\ m \in Content(sched_box)
      /\ sched_box' \in Seq(SchedulerIssue) /\ Content(sched_box') \subseteq Content(sched_box)
      /\ \A x \in Content(sched_box) : x = m \/ x \in Content(sched_box')
  BY <1>1, ContentTaken, PositionsTaken DEF NInv, Typed
<1>3. n \in Node /\ m = RemoveNode(n)
  BY <1>1, <1>2 DEF SchedulerIssue, RemoveNode
<1> HIDE DEF m, n
<1>4. Down(n)
  BY <1>2, <1>3 DEF NInv, Untouched, Stays
<1>5. SchedInv' /\ DOMAIN nodes' = DOMAIN nodes \ {n}
  BY <1>1, <1>3, OthersKeep, Unregisters DEF NInv
<1>6. \A k : k # n /\ RemoveNode(k) \in Content(sched_box) =>
        RemoveNode(k) \in Content(sched_box')
  BY <1>2, <1>3, Different
<1>7. Typed'
  BY <1>1, <1>2 DEF NInv, Typed
<1>8. Addressed' /\ Dead'
  BY <1>1, <1>2 DEF NInv, Addressed, Dead
<1>9. Announcements'
  BY <1>1 DEF NInv, Announcements, Announces
<1>10. Deletions'
  <2> SUFFICES ASSUME NEW k \in Node, NEW i \in DOMAIN conn_box, Deletes(i, k), k # n,
                      RemoveNode(k) \notin Content(sched_box)
               PROVE  \/ k \notin DOMAIN nodes
                      \/ accept[k] = "registered"
                      \/ /\ accept[k] = "announcing"
                         /\ \E j \in DOMAIN conn_box : j > i /\ Announces(j, k)
    BY <1>1, <1>5, <1>6 DEF Deletions, Deletes, Announces
  <2> QED
    BY DEF NInv, Deletions
<1>11. HasStream'
  BY <1>1, <1>5, <1>6 DEF NInv, HasStream
<1>12. Latest'
  BY <1>1 DEF NInv, Latest
<1>13. ASSUME NEW k \in Node, ~Down(k)' PROVE Stays(k)'
  <2>1. Stays(k) /\ k # n
    BY <1>1, <1>4, <1>13, StillDown DEF NInv, Untouched
  <2>2. Started(k)' => Started(k)
    BY <1>1, NotStarted
  <2>3. accept'[k] = "registered" \/ Started(k)' => k \in DOMAIN nodes'
    BY <1>1, <1>5, <2>1, <2>2 DEF Stays
  <2>4. Reachable(k, Len(conn_box) + 1)' = Reachable(k, Len(conn_box) + 1)
    BY <1>1 DEF Reachable, Announces
  <2>5. conn_up' /\ k \in DOMAIN nodes' =>
          Reachable(k, Len(conn_box) + 1)' \/ accept'[k] = "registered"
    BY <1>1, <1>5, <2>1, <2>4 DEF Stays
  <2>6. conn_up' /\ Started(k)' => Reachable(k, Len(conn_box) + 1)'
    BY <1>1, <2>1, <2>2, <2>4 DEF Stays
  <2>7. \A i \in DOMAIN conn_box' : ~Deletes(i, k)' /\ (Sends(i, k)' => Reachable(k, i)')
    BY <1>1, <2>1 DEF Stays, Deletes, Sends, Reachable, Announces
  <2>8. /\ RemoveNode(k) \notin Content(sched_box')
        /\ DownNode(k) \in Content(handler_box') => blocked'
    BY <1>1, <1>2, <2>1 DEF Stays
  <2> QED
    BY <2>3, <2>5, <2>6, <2>7, <2>8, Zenon DEF Stays
<1>14. Untouched'
  BY <1>1, <1>13, StillDown DEF NInv, Untouched
<1> QED
  BY <1>5, <1>7, <1>8, <1>9, <1>10, <1>11, <1>12, <1>14 DEF NInv

-----------------------------------------------------------------------------
(* ConnectionService.                                                      *)

(* It takes a new stream: the latest one of the node, whose loop waits for *)
(* it.                                                                     *)
LEMMA HandleNewStreamNInv ==
  ASSUME NInv, OnThread(HandleNewStream)
  PROVE  NInv'
<1> DEFINE m == Head(conn_box)
<1>1. /\ ~blocked /\ conn_up /\ conn_box # <<>> /\ m.op = "NewStream"
      /\ conn_box' = Tail(conn_box)
      /\ connections' = Sched!Insert(connections, m.node, m.stream)
      /\ Loops(m.node, "announcing", "idle")
      /\ UNCHANGED <<schedVars, streams, recvs, conn_up, stream, stream_box, task,
                     handler_box, sched_box, lost, blocked>>
  BY DEF OnThread, HandleNewStream, ConnectionTakes
<1>2. /\ conn_box \in Seq(ConnectionMessage) /\ m = conn_box[1] /\ m \in ConnectionMessage
      /\ 1 \in DOMAIN conn_box
      /\ conn_box' \in Seq(ConnectionMessage)
      /\ Content(conn_box') \subseteq Content(conn_box)
      /\ Len(conn_box') = Len(conn_box) - 1 /\ Len(conn_box) \in Nat
      /\ \A i \in DOMAIN conn_box' : /\ i \in Nat \ {0} /\ i + 1 \in DOMAIN conn_box
                                     /\ conn_box'[i] = conn_box[i + 1] /\ Same(i + 1, i)
      /\ \A i \in DOMAIN conn_box \ {1} : i - 1 \in DOMAIN conn_box' /\ Same(i, i - 1)
  BY <1>1, BoxTaken DEF NInv, Typed
<1>3. PICK n \in Node : m.node = n /\ m.stream \in 1 .. MaxStream
  BY <1>1, <1>2 DEF ConnectionMessage
<1>4. /\ Announces(1, n) /\ m.stream = streams[n] /\ stream[<<n, streams[n]>>] # "none"
      /\ \A k \in Node : k # n => ~Announces(1, k)
      /\ \A k \in Node : ~Deletes(1, k) /\ ~Sends(1, k)
  <2>1. Announces(1, n) /\ conn_box[1].stream = m.stream
    BY <1>1, <1>2, <1>3 DEF Announces
  <2> QED
    BY <1>1, <1>2, <1>3, <2>1 DEF NInv, Announcements, Announces, Deletes, Sends
<1> HIDE DEF m
<1>5. /\ accept[n] = "announcing" /\ accept' \in [Node -> Places]
      /\ accept'[n] = "idle" /\ \A k \in Node : k # n => accept'[k] = accept[k]
  BY <1>1, <1>3, LoopMoves DEF NInv, Places
<1>6. /\ DOMAIN connections' = DOMAIN connections \cup {n}
      /\ connections'[n] = streams[n]
      /\ \A k \in DOMAIN connections : k # n => connections'[k] = connections[k]
  BY <1>1, <1>3, <1>4 DEF Sched!Insert
<1>7. SchedInv' /\ DOMAIN nodes' = DOMAIN nodes
  BY <1>1, OthersKeep DEF NInv
<1>8. Typed'
  BY <1>1, <1>2, <1>3, <1>4, <1>5, <1>6 DEF NInv, Typed, Places
<1>9. Addressed' /\ Dead'
  BY <1>1, <1>2 DEF NInv, Addressed, Dead
<1>10. \A i \in DOMAIN conn_box' : ~Announces(i, n)'
  <2> SUFFICES ASSUME NEW i \in DOMAIN conn_box', Announces(i, n)' PROVE FALSE
    OBVIOUS
  <2>1. i \in Nat \ {0} /\ i + 1 \in DOMAIN conn_box /\ Announces(i + 1, n)
    BY <1>2, <1>3 DEF Same
  <2>2. i + 1 = 1
    BY <1>2, <1>3, <1>4, <2>1 DEF NInv, Announcements
  <2> QED
    BY <2>1, <2>2
<1>11. Announcements'
  <2>1. ASSUME NEW k \in Node, NEW i \in DOMAIN conn_box', NEW j \in DOMAIN conn_box',
               Announces(i, k)', Announces(j, k)'
        PROVE  i = j
    <3>1. i + 1 = j + 1
      BY <1>2, <2>1 DEF NInv, Announcements, Same
    <3> QED
      BY <1>2, <3>1
  <2>2. ASSUME NEW k \in Node, NEW i \in DOMAIN conn_box', Announces(i, k)'
        PROVE  /\ accept'[k] = "announcing" /\ conn_box'[i].stream = streams'[k]
               /\ stream'[<<k, streams'[k]>>] # "none"
    <3>1. k # n /\ i + 1 \in DOMAIN conn_box /\ Announces(i + 1, k)
      BY <1>2, <1>10, <2>2 DEF Same
    <3> QED
      BY <1>1, <1>2, <1>5, <3>1 DEF NInv, Announcements
  <2>3. ASSUME NEW k \in Node, accept'[k] \in {"registering", "registered", "announcing"}
        PROVE  streams'[k] > 0
    BY <1>1, <1>5, <2>3 DEF NInv, Announcements
  <2> QED
    BY <2>1, <2>2, <2>3 DEF Announcements
<1>12. Deletions'
  <2> SUFFICES ASSUME NEW k \in Node, NEW i \in DOMAIN conn_box', Deletes(i, k)',
                      RemoveNode(k) \notin Content(sched_box), k \in DOMAIN nodes
               PROVE  \/ accept'[k] = "registered"
                      \/ /\ accept'[k] = "announcing"
                         /\ \E j \in DOMAIN conn_box' : j > i /\ Announces(j, k)'
    BY <1>1, <1>7 DEF Deletions
  <2>1. i \in Nat \ {0} /\ i + 1 \in DOMAIN conn_box /\ Deletes(i + 1, k)
    BY <1>2 DEF Same
  <2>2. CASE accept[k] = "registered"
    BY <1>5, <2>2
  <2>3. CASE accept[k] # "registered"
    <3>1. /\ accept[k] = "announcing"
          /\ \E j \in DOMAIN conn_box : j > i + 1 /\ Announces(j, k)
      BY <2>1, <2>3 DEF NInv, Deletions
    <3>2. PICK j \in DOMAIN conn_box : j > i + 1 /\ Announces(j, k)
      BY <3>1
    <3>3. j \in Nat /\ j # 1
      BY <1>2, <2>1, <3>2
    <3>4. j - 1 \in DOMAIN conn_box' /\ Announces(j - 1, k)' /\ j - 1 > i
      BY <1>2, <2>1, <3>2, <3>3 DEF Same
    <3>5. k # n
      BY <1>10, <3>4
    <3> QED
      BY <1>5, <3>1, <3>4, <3>5
  <2> QED
    BY <2>2, <2>3
<1>13. HasStream'
  BY <1>1, <1>5, <1>6, <1>7 DEF NInv, HasStream
<1>14. Latest'
  <2> SUFFICES ASSUME NEW k \in DOMAIN connections, k # n
               PROVE  /\ stream[<<k, connections[k]>>] # "none"
                      /\ \/ connections[k] = streams[k]
                         \/ accept'[k] \in {"registering", "registered", "announcing"}
    BY <1>1, <1>4, <1>6 DEF Latest
  <2>1. k \in Node
    BY DEF NInv, Typed
  <2> QED
    BY <1>5, <2>1 DEF NInv, Latest
<1>15. ASSUME NEW k \in Node, ~Down(k)' PROVE Stays(k)'
  <2>1. Stays(k)
    BY <1>1, <1>15, StillDown DEF NInv, Untouched
  <2>2. Started(k)' => Started(k)
    BY <1>1, <1>5, NotStarted
  <2>3. accept'[k] = "registered" \/ Started(k)' => k \in DOMAIN nodes'
    BY <1>5, <1>7, <2>1, <2>2 DEF Stays
  <2>4. \A i \in Nat : Reachable(k, i + 1) => Reachable(k, i)'
    BY <1>1, <1>2, <1>4, <1>6, StillReachable
  <2>5. Reachable(k, Len(conn_box) + 1) => Reachable(k, Len(conn_box) + 1)'
    <3>1. PICK L \in Nat : L = Len(conn_box)
      BY <1>2
    <3>2. Reachable(k, L + 1) => Reachable(k, L)'
      BY <2>4
    <3>3. Len(conn_box') + 1 = L
      BY <1>2, <3>1
    <3> QED
      BY <3>1, <3>2, <3>3 DEF Reachable
  <2>6. conn_up' /\ k \in DOMAIN nodes' =>
          Reachable(k, Len(conn_box) + 1)' \/ accept'[k] = "registered"
    BY <1>1, <1>5, <1>7, <2>1, <2>5 DEF Stays
  <2>7. conn_up' /\ Started(k)' => Reachable(k, Len(conn_box) + 1)'
    BY <1>1, <2>1, <2>2, <2>5 DEF Stays
  <2>8. \A i \in DOMAIN conn_box' : ~Deletes(i, k)' /\ (Sends(i, k)' => Reachable(k, i)')
    BY <1>2, <2>1, <2>4 DEF Stays, Same
  <2>9. /\ RemoveNode(k) \notin Content(sched_box')
        /\ DownNode(k) \in Content(handler_box') => blocked'
    BY <1>1, <2>1 DEF Stays
  <2> QED
    BY <2>3, <2>6, <2>7, <2>8, <2>9, Zenon DEF Stays
<1>16. Untouched'
  BY <1>1, <1>15, StillDown DEF NInv, Untouched
<1> QED
  BY <1>7, <1>8, <1>9, <1>11, <1>12, <1>13, <1>14, <1>16 DEF NInv

\* What a handler leaves alone that takes a message of a node from the box of
\* ConnectionService, other than NewStream.
Passes ==
  /\ ~blocked /\ conn_up /\ conn_box # <<>> /\ conn_box' = Tail(conn_box)
  /\ Head(conn_box).op # "NewStream"
  /\ \A t \in Task : task'[t] = "none" <=> task[t] = "none"
  /\ \A n \in Node : Down(n) => Down(n)'
  /\ UNCHANGED <<schedVars, accept, streams, recvs, conn_up, stream, handler_box,
                 sched_box, lost, blocked>>
  /\ \A n \in DOMAIN connections' : n \in DOMAIN connections /\ connections'[n] = connections[n]
  /\ \A n \in DOMAIN connections \ DOMAIN connections' : Deletes(1, n) /\ Down(n)

(* Such a step keeps what is about the mailbox: a deleted stream is one of *)
(* a node that is taken down, and is on its way out of the scheduler.      *)
LEMMA PassesNInv ==
  ASSUME NInv, Passes, Typed'
  PROVE  NInv'
<1>1. /\ conn_box \in Seq(ConnectionMessage) /\ 1 \in DOMAIN conn_box
      /\ Content(conn_box') \subseteq Content(conn_box)
      /\ Len(conn_box') = Len(conn_box) - 1 /\ Len(conn_box) \in Nat
      /\ \A i \in DOMAIN conn_box : i \in Nat \ {0}
      /\ \A i \in DOMAIN conn_box' : /\ i \in Nat \ {0} /\ i + 1 \in DOMAIN conn_box
                                     /\ conn_box'[i] = conn_box[i + 1] /\ Same(i + 1, i)
      /\ \A i \in DOMAIN conn_box \ {1} : i - 1 \in DOMAIN conn_box' /\ Same(i, i - 1)
  BY BoxTaken DEF NInv, Typed, Passes
<1>2. \A n \in Node : ~Announces(1, n)
  BY BoxTaken DEF NInv, Typed, Passes, Announces
<1>3. SchedInv' /\ DOMAIN nodes' = DOMAIN nodes
  BY OthersKeep DEF NInv, Passes
<1>4. Addressed' /\ Dead'
  BY <1>1 DEF NInv, Addressed, Dead, Passes
<1>5. Announcements'
  <2>1. ASSUME NEW k \in Node, NEW i \in DOMAIN conn_box', NEW j \in DOMAIN conn_box',
               Announces(i, k)', Announces(j, k)'
        PROVE  i = j
    <3>1. i + 1 = j + 1
      BY <1>1, <2>1 DEF NInv, Announcements, Same
    <3> QED
      BY <1>1, <3>1
  <2>2. ASSUME NEW k \in Node, NEW i \in DOMAIN conn_box', Announces(i, k)'
        PROVE  /\ accept'[k] = "announcing" /\ conn_box'[i].stream = streams'[k]
               /\ stream'[<<k, streams'[k]>>] # "none"
    <3>1. i + 1 \in DOMAIN conn_box /\ Announces(i + 1, k)
      BY <1>1, <2>2 DEF Same
    <3> QED
      BY <1>1, <3>1 DEF NInv, Announcements, Passes
  <2>3. ASSUME NEW k \in Node, accept'[k] \in {"registering", "registered", "announcing"}
        PROVE  streams'[k] > 0
    BY <2>3 DEF NInv, Announcements, Passes
  <2> QED
    BY <2>1, <2>2, <2>3 DEF Announcements
<1>6. Deletions'
  <2> SUFFICES ASSUME NEW k \in Node, NEW i \in DOMAIN conn_box', Deletes(i, k)',
                      RemoveNode(k) \notin Content(sched_box), k \in DOMAIN nodes,
                      accept[k] # "registered"
               PROVE  /\ accept[k] = "announcing"
                      /\ \E j \in DOMAIN conn_box' : j > i /\ Announces(j, k)'
    BY <1>3 DEF Deletions, Passes
  <2>1. i \in Nat \ {0} /\ i + 1 \in DOMAIN conn_box /\ Deletes(i + 1, k)
    BY <1>1 DEF Same
  <2>2. /\ accept[k] = "announcing"
        /\ \E j \in DOMAIN conn_box : j > i + 1 /\ Announces(j, k)
    BY <2>1 DEF NInv, Deletions
  <2>3. PICK j \in DOMAIN conn_box : j > i + 1 /\ Announces(j, k)
    BY <2>2
  <2>4. j \in Nat /\ j # 1
    BY <1>1, <2>1, <2>3
  <2>5. j - 1 \in DOMAIN conn_box' /\ Announces(j - 1, k)' /\ j - 1 > i
    BY <1>1, <2>1, <2>3, <2>4 DEF Same
  <2> QED
    BY <2>2, <2>5
<1>7. HasStream'
  <2> SUFFICES ASSUME NEW n \in DOMAIN nodes \cap Node, n \notin DOMAIN connections'
               PROVE  \/ accept[n] \in {"registered", "announcing"}
                      \/ RemoveNode(n) \in Content(sched_box)
    BY <1>3 DEF HasStream, Passes
  <2>1. CASE n \in DOMAIN connections
    <3>1. Deletes(1, n)
      BY <2>1 DEF Passes
    <3> QED
      BY <1>1, <3>1 DEF NInv, Deletions
  <2>2. CASE n \notin DOMAIN connections
    BY <2>2 DEF NInv, HasStream, Passes
  <2> QED
    BY <2>1, <2>2
<1>8. Latest'
  BY DEF NInv, Latest, Passes
<1>9. ASSUME NEW k \in Node, ~Down(k)' PROVE Stays(k)'
  <2>1. Stays(k) /\ ~Down(k)
    BY <1>9 DEF NInv, Untouched, Passes
  <2>2. Started(k)' => Started(k)
    BY NotStarted DEF Passes
  <2>3. accept'[k] = "registered" \/ Started(k)' => k \in DOMAIN nodes'
    BY <1>3, <2>1, <2>2 DEF Stays, Passes
  <2>4. k \in DOMAIN connections => k \in DOMAIN connections'
    BY <2>1 DEF Passes
  <2>5. \A i \in Nat : Reachable(k, i + 1) => Reachable(k, i)'
    BY <1>1, <1>2, <2>4, StillReachable DEF Passes
  <2>6. Reachable(k, Len(conn_box) + 1) => Reachable(k, Len(conn_box) + 1)'
    <3>1. PICK L \in Nat : L = Len(conn_box)
      BY <1>1
    <3>2. Reachable(k, L + 1) => Reachable(k, L)'
      BY <2>5
    <3>3. Len(conn_box') + 1 = L
      BY <1>1, <3>1
    <3> QED
      BY <3>1, <3>2, <3>3 DEF Reachable
  <2>7. conn_up' /\ k \in DOMAIN nodes' =>
          Reachable(k, Len(conn_box) + 1)' \/ accept'[k] = "registered"
    BY <1>3, <2>1, <2>6 DEF Stays, Passes
  <2>8. conn_up' /\ Started(k)' => Reachable(k, Len(conn_box) + 1)'
    BY <2>1, <2>2, <2>6 DEF Stays, Passes
  <2>9. \A i \in DOMAIN conn_box' : ~Deletes(i, k)' /\ (Sends(i, k)' => Reachable(k, i)')
    BY <1>1, <2>1, <2>5 DEF Stays, Same
  <2>10. /\ RemoveNode(k) \notin Content(sched_box')
         /\ DownNode(k) \in Content(handler_box') => blocked'
    BY <2>1 DEF Stays, Passes
  <2> QED
    BY <2>3, <2>7, <2>8, <2>9, <2>10, Zenon DEF Stays
<1>10. Untouched'
  BY <1>9 DEF NInv, Untouched, Passes
<1> QED
  BY <1>3, <1>4, <1>5, <1>6, <1>7, <1>8, <1>10 DEF NInv

(* A packet is passed on to the stream, and who waits goes on.             *)
LEMMA HandleSendNInv ==
  ASSUME NInv, OnThread(HandleSend)
  PROVE  NInv'
<1> DEFINE m == Head(conn_box)
           n == m.node
           t == m.task
           s == <<n, connections[n]>>
<1>1. /\ ~blocked /\ conn_up /\ conn_box # <<>> /\ m.op = "Send"
      /\ conn_box' = Tail(conn_box) /\ n \in DOMAIN connections
      /\ stream_box' = [stream_box EXCEPT ![s] =
                          IF stream[s] = "running" THEN Append(@, "Send") ELSE @]
      /\ task' = [task EXCEPT ![t] = Answered(t)]
      /\ UNCHANGED <<schedVars, accept, streams, recvs, connections, conn_up, stream,
                     handler_box, sched_box, lost, blocked>>
  BY DEF OnThread, HandleSend, ConnectionTakes, ToStream
<1>2. m \in ConnectionMessage /\ conn_box' \in Seq(ConnectionMessage)
  BY <1>1, BoxTaken DEF NInv, Typed
<1>3. t \in Task /\ s \in Stream
  BY <1>1, <1>2 DEF ConnectionMessage, NInv, Typed, Stream
<1>4. stream_box' \in [Stream -> Seq({"Send", "Delete"})]
  <2>1. stream_box \in [Stream -> Seq({"Send", "Delete"})]
    BY DEF NInv, Typed
  <2>2. stream_box[s] \in Seq({"Send", "Delete"})
        /\ Append(stream_box[s], "Send") \in Seq({"Send", "Delete"})
    BY <1>3, <2>1, ContentAppended
  <2> QED
    BY <1>1, <2>1, <2>2
<1>5. /\ Answered(t) \in Stages
      /\ Answered(t) = "none" <=> task[t] = "none"
      /\ task[t] = "down" => Answered(t) = "down"
  BY <1>3 DEF NInv, Typed, Answered, Stages
<1> HIDE DEF m, n, t, s
<1>6. /\ task' \in [Task -> Stages]
      /\ \A u \in Task : /\ task'[u] = "none" <=> task[u] = "none"
                         /\ task[u] = "down" => task'[u] = "down"
  BY <1>1, <1>3, <1>5 DEF NInv, Typed, Stages
<1>7. Typed'
  BY <1>1, <1>2, <1>4, <1>6 DEF NInv, Typed, Stages
<1>8. Passes
  BY <1>1, <1>6 DEF Passes, Down, m
<1> QED
  BY <1>7, <1>8, PassesNInv

(* A stream is deleted only of a node that is taken down.                  *)
LEMMA HandleDeleteNInv ==
  ASSUME NInv, OnThread(HandleDelete)
  PROVE  NInv'
<1> DEFINE m == Head(conn_box)
           n == m.node
           s == <<n, connections[n]>>
<1>1. /\ ~blocked /\ conn_up /\ conn_box # <<>> /\ m.op = "DeleteStream"
      /\ conn_box' = Tail(conn_box) /\ n \in DOMAIN connections
      /\ stream_box' = [stream_box EXCEPT ![s] =
                          IF stream[s] = "running" THEN Append(@, "Delete") ELSE @]
      /\ connections' = Sched!Without(connections, n)
      /\ UNCHANGED <<schedVars, accept, streams, recvs, conn_up, stream, task,
                     handler_box, sched_box, lost, blocked>>
  BY DEF OnThread, HandleDelete, ConnectionTakes, ToStream
<1>2. /\ m \in ConnectionMessage /\ conn_box' \in Seq(ConnectionMessage)
      /\ m = conn_box[1] /\ 1 \in DOMAIN conn_box
  BY <1>1, BoxTaken DEF NInv, Typed
<1>3. n \in Node /\ s \in Stream
  BY <1>1, <1>2 DEF ConnectionMessage, NInv, Typed, Stream
<1>4. stream_box' \in [Stream -> Seq({"Send", "Delete"})]
  <2>1. stream_box \in [Stream -> Seq({"Send", "Delete"})]
    BY DEF NInv, Typed
  <2>2. stream_box[s] \in Seq({"Send", "Delete"})
        /\ Append(stream_box[s], "Delete") \in Seq({"Send", "Delete"})
    BY <1>3, <2>1, ContentAppended
  <2> QED
    BY <1>1, <2>1, <2>2
<1>5. Deletes(1, n) /\ Down(n)
  BY <1>1, <1>2, <1>3 DEF Deletes, NInv, Untouched, Stays
<1> HIDE DEF m, n, s
<1>6. /\ DOMAIN connections' = DOMAIN connections \ {n}
      /\ \A k \in DOMAIN connections' : connections'[k] = connections[k]
  BY <1>1 DEF Sched!Without, Sched!Restrict
<1>7. Typed'
  BY <1>1, <1>2, <1>4, <1>6 DEF NInv, Typed
<1>8. Passes
  BY <1>1, <1>5, <1>6, StillDown DEF Passes, m
<1> QED
  BY <1>7, <1>8, PassesNInv

(* ConnectionService dies of a node that is taken down, and all who wait   *)
(* for it go on.                                                           *)
LEMMA ConnectionPanicsNInv ==
  ASSUME NInv, OnThread(ConnectionPanics)
  PROVE  NInv'
<1>1. /\ ~blocked /\ conn_up /\ conn_box # <<>>
      /\ Head(conn_box).op \in {"Send", "DeleteStream"}
      /\ Head(conn_box).node \notin DOMAIN connections
      /\ conn_up' = FALSE /\ conn_box' = <<>> /\ connections' = <<>>
      /\ accept' = [n \in Node |-> IF accept[n] = "announcing" THEN "idle" ELSE accept[n]]
      /\ task' = [t \in Task |-> Answered(t)]
      /\ UNCHANGED <<schedVars, streams, recvs, stream, stream_box, handler_box, sched_box,
                     lost, blocked>>
  BY DEF OnThread, ConnectionPanics, streamVars
<1>2. \A t \in Task : /\ task'[t] \in Stages
                      /\ task'[t] = "none" <=> task[t] = "none"
                      /\ task[t] = "down" => task'[t] = "down"
  <2> SUFFICES ASSUME NEW t \in Task
               PROVE  /\ Answered(t) \in Stages
                      /\ Answered(t) = "none" <=> task[t] = "none"
                      /\ task[t] = "down" => Answered(t) = "down"
    BY <1>1
  <2> QED
    BY DEF NInv, Typed, Answered, Stages
<1>3. \A n \in Node : /\ accept'[n] \in Places
                      /\ accept[n] # "announcing" => accept'[n] = accept[n]
                      /\ accept[n] = "announcing" => accept'[n] = "idle"
  BY <1>1 DEF NInv, Typed, Places
<1>4. \A n \in Node : Down(n) => Down(n)'
  BY <1>2 DEF Down
<1>5. SchedInv' /\ DOMAIN nodes' = DOMAIN nodes
  BY <1>1, OthersKeep DEF NInv
<1>6. Typed'
  <2>1. task' \in [Task -> Stages] /\ accept' \in [Node -> Places]
    BY <1>1, <1>2, <1>3
  <2>2. \A n \in Node : accept'[n] \in {"asking", "found"} => recvs'[n] < MaxRecv
    BY <1>1, <1>3 DEF NInv, Typed
  <2>3. DOMAIN connections' = {} /\ conn_up' \in BOOLEAN
    <3>1. connections' = <<>> /\ conn_up' = FALSE
      BY <1>1
    <3>2. DOMAIN <<>> = {}
      OBVIOUS
    <3> QED
      BY <3>1, <3>2, Zenon
  <2>4. conn_box' \in Seq(ConnectionMessage)
    <3>1. <<>> \in Seq(ConnectionMessage)
      OBVIOUS
    <3> QED
      BY <1>1, <3>1
  <2>5. UNCHANGED <<streams, recvs, stream, stream_box, handler_box, sched_box, lost,
                    blocked>>
    BY <1>1
  <2> QED
    BY <2>1, <2>2, <2>3, <2>4, <2>5 DEF NInv, Typed, Stages, Places
<1>7. Addressed' /\ Dead'
  BY <1>1 DEF NInv, Addressed, Dead, Content
<1>8. Announcements' /\ Deletions' /\ HasStream' /\ Latest'
  <2>1. \A n \in Node : accept'[n] \in {"registering", "registered", "announcing"} =>
          streams'[n] > 0
    BY <1>1, <1>3 DEF NInv, Announcements
  <2> QED
    BY <1>1, <2>1 DEF Announcements, Deletions, HasStream, Latest
<1>9. ASSUME NEW k \in Node, ~Down(k)' PROVE Stays(k)'
  <2>1. Stays(k)
    BY <1>4, <1>9 DEF NInv, Untouched
  <2>2. Started(k)' => Started(k)
    BY <1>1, <1>2, <1>3, NotStarted
  <2>3. accept'[k] = "registered" \/ Started(k)' => k \in DOMAIN nodes'
    BY <1>3, <1>5, <2>1, <2>2 DEF Stays
  <2>4. ~conn_up' /\ DOMAIN conn_box' = {}
    BY <1>1
  <2>5. /\ RemoveNode(k) \notin Content(sched_box')
        /\ DownNode(k) \in Content(handler_box') => blocked'
    BY <1>1, <2>1 DEF Stays
  <2> QED
    BY <2>3, <2>4, <2>5 DEF Stays
<1>10. Untouched'
  BY <1>4, <1>9 DEF Untouched
<1> QED
  BY <1>5, <1>6, <1>7, <1>8, <1>10 DEF NInv

-----------------------------------------------------------------------------
(* The theorems.                                                           *)

(* Nothing that happens to the sessions breaks the invariant.              *)
LEMMA StepNInv ==
  ASSUME NInv, [Next]_vars
  PROVE  NInv'
<1>1. CASE UNCHANGED vars
  <2>1. SchedInv' /\ DOMAIN nodes' = DOMAIN nodes
    BY <1>1, OthersKeep DEF NInv, vars
  <2>2. Typed' /\ Addressed'
    BY <1>1 DEF NInv, Typed, Addressed, vars, nodeVars, streamVars, connVars
  <2>3. \A n \in Node : Started(n)' => Started(n)
    BY <1>1, NotStarted DEF vars, nodeVars, streamVars
  <2>4. Aside
    BY <1>1, <2>1, <2>3, StillDown, SameLoops
    DEF NInv, Aside, vars, nodeVars, streamVars
  <2> QED
    BY <2>1, <2>2, <2>4, AsideNInv
<1>2. CASE \E n \in Node : Lose(n)
  BY <1>2, LoseNInv
<1>3. CASE \E n \in Node : OnThread(AcceptBidirectional(n) \/ AcceptReceive(n) \/ AcceptStep(n))
  <2>1. PICK n \in Node :
          \/ OnThread(AcceptBidirectional(n)) \/ OnThread(AcceptReceive(n))
          \/ OnThread(StartStream(n)) \/ OnThread(StartReceive(n))
          \/ OnThread(RefuseReceive(n) \/ AcceptEnds(n))
    BY <1>3 DEF AcceptStep, OnThread
  <2> QED
    BY <2>1, AcceptBidirectionalNInv, AcceptReceiveNInv, StartStreamNInv,
       StartReceiveNInv, LoopEndsNInv
<1>4. CASE \E s \in Stream : OnThread(StreamStep(s)) \/ (~blocked /\ Ping(s))
  BY <1>4, StreamNInv, PingNInv
<1>5. CASE \E t \in Task : OnThread(ForwardHandshake(t) \/ TaskStep(t))
  <2>1. PICK t \in Task :
          \/ OnThread(ForwardHandshake(t)) \/ OnThread(AskPromotion(t))
          \/ OnThread(Greet(t) \/ Refuse(t)) \/ OnThread(TakeDown(t))
    BY <1>5 DEF TaskStep, OnThread
  <2> QED
    BY <2>1, ForwardHandshakeNInv, AskPromotionNInv, AnswerNInv, TakeDownNInv
<1>6. CASE OnThread(HandlerStep)
  <2>1. OnThread(HandleHandshake) \/ OnThread(HandleDown)
    BY <1>6 DEF HandlerStep, OnThread
  <2> QED
    BY <2>1, HandleHandshakeNInv, HandleDownNInv
<1>7. CASE OnThread(SchedulerStep)
  <2>1. \/ OnThread(TakeNewNode) \/ OnThread(TakeRemoveNode)
        \/ OnThread(TakeHandshake) \/ OnThread(TakeExists)
    BY <1>7 DEF SchedulerStep, OnThread
  <2> QED
    BY <2>1, TakeNewNodeNInv, TakeRemoveNodeNInv, TakeHandshakeNInv, TakeExistsNInv
<1>8. CASE OnThread(ConnectionStep)
  <2>1. \/ OnThread(HandleNewStream) \/ OnThread(HandleSend)
        \/ OnThread(HandleDelete) \/ OnThread(ConnectionPanics)
    BY <1>8 DEF ConnectionStep, OnThread
  <2> QED
    BY <2>1, HandleNewStreamNInv, HandleSendNInv, HandleDeleteNInv, ConnectionPanicsNInv
<1> QED
  BY <1>1, <1>2, <1>3, <1>4, <1>5, <1>6, <1>7, <1>8 DEF Next

(* The invariant holds of all sessions.                                    *)
THEOREM SessionInductive == Spec => []NInv
BY InitNInv, StepNInv, PTL DEF Spec

(* It implies the types,                                                   *)
THEOREM SessionTypes == Spec => []TypeOK
<1>1. NInv => TypeOK
  BY SameTypes, P!IInvTypes, NoJudgements
  DEF NInv, SchedInv, Typed, Latest, TypeOK
<1> QED
  BY <1>1, SessionInductive, PTL

(* that a node the scheduler may give work to has a stream, is about to    *)
(* get one or is about to leave the scheduler,                             *)
THEOREM NodesHaveStreams == Spec => []RegisteredHasStream
<1>1. NInv => RegisteredHasStream
  <2> SUFFICES ASSUME NInv, conn_up, NEW n \in DOMAIN nodes \ {0}
               PROVE  \/ n \in DOMAIN connections
                      \/ accept[n] \in {"registered", "announcing"}
                      \/ In(RemoveNode(n), sched_box)
    BY DEF RegisteredHasStream
  <2>1. n \in Node
    BY DEF NInv, SchedInv, P!IInv, P!Shape
  <2> QED
    BY <2>1 DEF NInv, HasStream, In, Content
<1> QED
  BY <1>1, SessionInductive, PTL

(* and that packets go to the stream a node opened last.                   *)
THEOREM LatestStreamTaken == Spec => []LatestStream
<1>1. NInv => LatestStream
  BY DEF NInv, Latest, LatestStream
<1> QED
  BY <1>1, SessionInductive, PTL

-----------------------------------------------------------------------------
(* How ConnectionService dies.                                             *)

\* Handshakes that have had their answer sent, or could not send it.
Spoken == {"greeted", "refused", "down"}

\* One handshake has had the node taken down, another has been answered.
Crossed(n) ==
  \E t, u \in Task : /\ t # u /\ t[1] = n /\ u[1] = n
                     /\ task[t] = "down" /\ task[u] \in Spoken

\* Who has an answer in the mailbox waits for it, and has it there once.
Unanswered == {"greeting", "refusing"}
Waits(t)   == task[t] \in Unanswered
Waiting    ==
  /\ \A i \in DOMAIN conn_box : conn_box[i].op = "Send" => Waits(conn_box[i].task)
  /\ \A i, k \in DOMAIN conn_box :
       conn_box[i].op = "Send" /\ conn_box[k].op = "Send" /\ conn_box[i].task = conn_box[k].task
         => i = k

\* Of a taking down there is one message, and it comes after the stream.
DeletedOnce(n)  == \A i, k \in DOMAIN conn_box : Deletes(i, n) /\ Deletes(k, n) => i = k
DeletesLater(n) == \A i \in DOMAIN conn_box : Deletes(i, n) => Reachable(n, i)
Undeleted(n)    == \A i \in DOMAIN conn_box : ~Deletes(i, n)
Bound(n)        == Reachable(n, Len(conn_box) + 1)
DownOnce(n)     ==
  \A i, k \in DOMAIN handler_box :
    handler_box[i] = DownNode(n) /\ handler_box[k] = DownNode(n) => i = k
Once(n) ==
  /\ DeletedOnce(n) /\ DeletesLater(n) /\ DownOnce(n)
  /\ DownNode(n) \in Content(handler_box) => Bound(n) /\ Undeleted(n)

CrossedOrOnce == conn_up /\ ~blocked => \A n \in Node : Crossed(n) \/ Once(n)
DiesOfCrossed == ~conn_up => \E n \in Node : Crossed(n)

DInv == Waiting /\ CrossedOrOnce /\ DiesOfCrossed

(* A handshake that waits for nothing does not wait again, and what was    *)
(* taken down stays so.                                                    *)
LEMMA StaySpoken ==
  ASSUME NInv, [Next]_vars
  PROVE  /\ \A t \in Task : task[t] \in Spoken => task'[t] \in Spoken
         /\ \A t \in Task : task[t] = "down" => task'[t] = "down"
<1> SUFFICES ASSUME NEW t \in Task
             PROVE  /\ task[t] \in Spoken => task'[t] \in Spoken
                    /\ task[t] = "down" => task'[t] = "down"
  OBVIOUS
<1>1. task \in [Task -> Stages]
  BY DEF NInv, Typed, Stages
<1> DEFINE Stay == /\ task[t] \in Spoken => task'[t] \in Spoken
                   /\ task[t] = "down" => task'[t] = "down"
<1> SUFFICES Stay
  OBVIOUS
<1>2. ASSUME NEW u \in Task, NEW from, NEW to, Goes(u, from, to),
             from \notin Spoken \/ (from = "refused" /\ to = "down")
      PROVE  Stay
  BY <1>1, <1>2 DEF Goes, Spoken
<1>3. task' = task => Stay
  OBVIOUS
<1>4. task[t] \in Spoken => Answered(t) = task[t]
  BY DEF Answered, Spoken
<1> HIDE DEF Stay
<1>5. CASE UNCHANGED vars \/ \E n \in Node : Lose(n)
  BY <1>3, <1>5 DEF vars, Lose
<1>6. CASE \E n \in Node : OnThread(AcceptBidirectional(n) \/ AcceptReceive(n) \/ AcceptStep(n))
  BY <1>3, <1>6
  DEF OnThread, AcceptBidirectional, AcceptReceive, AcceptStep, StartStream, StartReceive,
      RefuseReceive, AcceptEnds
<1>7. CASE \E s \in Stream : OnThread(StreamStep(s)) \/ (~blocked /\ Ping(s))
  BY <1>3, <1>7 DEF OnThread, StreamStep, StreamSend, StreamDelete, StreamTakes, Ping
<1>8. CASE \E u \in Task : OnThread(ForwardHandshake(u) \/ TaskStep(u))
  <2>1. \E u \in Task : \E from, to :
          Goes(u, from, to) /\ (from \notin Spoken \/ (from = "refused" /\ to = "down"))
    BY <1>8
    DEF OnThread, ForwardHandshake, TaskStep, AskPromotion, Greet, Refuse, Answer, TakeDown,
        Spoken
  <2> QED
    BY <1>2, <2>1
<1>9. CASE OnThread(HandlerStep)
  <2>1. CASE OnThread(HandleHandshake)
    <3>1. PICK to : Goes(Head(handler_box).task, "sent", to)
      BY <2>1 DEF OnThread, HandleHandshake
    <3> QED
      BY <1>1, <3>1 DEF Goes, Spoken, Stay
  <2> QED
    BY <1>3, <1>9, <2>1 DEF OnThread, HandlerStep, HandleDown
<1>10. CASE OnThread(SchedulerStep)
  <2>1. CASE OnThread(TakeHandshake)
    <3>1. Goes(Head(sched_box).task, "promoting", "promoted")
      BY <2>1 DEF OnThread, TakeHandshake
    <3> QED
      BY <1>1, <3>1 DEF Goes, Spoken, Stay
  <2> QED
    BY <1>3, <1>10, <2>1 DEF OnThread, SchedulerStep, TakeNewNode, TakeRemoveNode, TakeExists
<1>11. CASE OnThread(ConnectionStep)
  <2>1. CASE OnThread(HandleSend)
    <3>1. PICK u : task' = [task EXCEPT ![u] = Answered(u)]
      BY <2>1 DEF OnThread, HandleSend
    <3>2. task[t] \in Spoken => task'[t] = task[t]
      BY <1>1, <1>4, <3>1
    <3> QED
      BY <3>2 DEF Stay, Spoken
  <2>2. CASE OnThread(ConnectionPanics)
    <3>1. task'[t] = Answered(t)
      BY <2>2 DEF OnThread, ConnectionPanics
    <3> QED
      BY <1>4, <3>1 DEF Stay, Spoken
  <2> QED
    BY <1>3, <1>11, <2>1, <2>2 DEF OnThread, ConnectionStep, HandleNewStream, HandleDelete
<1> QED
  BY <1>5, <1>6, <1>7, <1>8, <1>9, <1>10, <1>11 DEF Next

LEMMA StayCrossed ==
  ASSUME NInv, [Next]_vars, NEW n \in Node, Crossed(n)
  PROVE  Crossed(n)'
BY StaySpoken, Zenon DEF Crossed

(* What is done to the mailbox of ConnectionService does not disturb what  *)
(* is there of a node if it is not about that node.                        *)
LEMMA DeletesKept ==
  ASSUME conn_box \in Seq(ConnectionMessage), NEW n \in Node,
         \/ UNCHANGED <<conn_box, connections>>
         \/ /\ UNCHANGED connections
            /\ \E m \in ConnectionMessage : /\ ToConnection(m)
                                            /\ ~(m.op = "DeleteStream" /\ m.node = n)
         \/ /\ conn_box # <<>> /\ conn_box' = Tail(conn_box)
            /\ n \in DOMAIN connections => n \in DOMAIN connections'
            /\ Announces(1, n) => n \in DOMAIN connections'
  PROVE  /\ DeletedOnce(n) => DeletedOnce(n)'
         /\ DeletesLater(n) => DeletesLater(n)'
         /\ Undeleted(n) => Undeleted(n)'
         /\ Bound(n) => Bound(n)'
<1>1. CASE UNCHANGED <<conn_box, connections>>
  BY <1>1 DEF DeletedOnce, DeletesLater, Undeleted, Bound, Deletes, Reachable, Announces
<1>2. ASSUME UNCHANGED connections, NEW m \in ConnectionMessage, ToConnection(m),
             ~(m.op = "DeleteStream" /\ m.node = n)
      PROVE  /\ DeletedOnce(n) => DeletedOnce(n)'
             /\ DeletesLater(n) => DeletesLater(n)'
             /\ Undeleted(n) => Undeleted(n)'
             /\ Bound(n) => Bound(n)'
  <2>1. PICK L \in Nat : L = Len(conn_box) + 1
    BY <1>2, BoxAppended
  <2>2. /\ DOMAIN conn_box' = DOMAIN conn_box \cup {L} /\ conn_box'[L] = m
        /\ \A i \in DOMAIN conn_box : i \in Nat /\ Deletes(i, n)' = Deletes(i, n)
        /\ \A i \in Nat : Reachable(n, i) => Reachable(n, i)'
        /\ Reachable(n, L) => Reachable(n, Len(conn_box) + 1)'
    BY <1>2, <2>1, BoxAppended DEF Same
  <2>3. ~Deletes(L, n)'
    BY <1>2, <2>2 DEF Deletes
  <2>4. \A i \in DOMAIN conn_box' : Deletes(i, n)' => i \in DOMAIN conn_box /\ Deletes(i, n)
    BY <2>2, <2>3
  <2>5. DeletedOnce(n) => DeletedOnce(n)'
    BY <2>4, Zenon DEF DeletedOnce
  <2>6. DeletesLater(n) => DeletesLater(n)'
    BY <2>2, <2>4, Zenon DEF DeletesLater
  <2>7. Undeleted(n) => Undeleted(n)'
    BY <2>4, Zenon DEF Undeleted
  <2>8. Bound(n) => Bound(n)'
    BY <2>1, <2>2 DEF Bound
  <2> QED
    BY <2>5, <2>6, <2>7, <2>8
<1>3. ASSUME conn_box # <<>>, conn_box' = Tail(conn_box),
             n \in DOMAIN connections => n \in DOMAIN connections',
             Announces(1, n) => n \in DOMAIN connections'
      PROVE  /\ DeletedOnce(n) => DeletedOnce(n)'
             /\ DeletesLater(n) => DeletesLater(n)'
             /\ Undeleted(n) => Undeleted(n)'
             /\ Bound(n) => Bound(n)'
  <2>0. \A i \in DOMAIN conn_box' : /\ i \in Nat \ {0} /\ i + 1 \in DOMAIN conn_box
                                    /\ conn_box'[i] = conn_box[i + 1]
    BY <1>3, PositionsTaken
  <2>1. \A i \in DOMAIN conn_box' : /\ i \in Nat \ {0} /\ i + 1 \in DOMAIN conn_box
                                    /\ Deletes(i, n)' <=> Deletes(i + 1, n)
    BY <2>0 DEF Deletes
  <2>2. \A i \in Nat : Reachable(n, i + 1) => Reachable(n, i)'
    BY <1>3, StillReachable
  <2>3. DeletedOnce(n) => DeletedOnce(n)'
    <3> SUFFICES ASSUME DeletedOnce(n), NEW i \in DOMAIN conn_box', NEW k \in DOMAIN conn_box',
                        Deletes(i, n)', Deletes(k, n)'
                 PROVE  i = k
      BY DEF DeletedOnce
    <3>1. i + 1 = k + 1
      BY <2>1 DEF DeletedOnce
    <3> QED
      BY <2>1, <3>1
  <2>4. DeletesLater(n) => DeletesLater(n)'
    BY <2>1, <2>2 DEF DeletesLater
  <2>5. Undeleted(n) => Undeleted(n)'
    BY <2>1 DEF Undeleted
  <2>6. Bound(n) => Bound(n)'
    <3>1. Len(conn_box) \in Nat /\ Len(conn_box') = Len(conn_box) - 1
      BY <1>3, PositionsTaken
    <3>2. PICK L \in Nat : L = Len(conn_box) /\ L = Len(conn_box') + 1
      BY <3>1
    <3>3. Reachable(n, L + 1) => Reachable(n, L)'
      BY <2>2
    <3> QED
      BY <3>2, <3>3, Zenon DEF Bound
  <2> QED
    BY <2>3, <2>4, <2>5, <2>6
<1> QED
  BY <1>1, <1>2, <1>3

(* The same of the mailbox of HandlerService.                              *)
LEMMA DownsKept ==
  ASSUME handler_box \in Seq(HandlerMessage), NEW n \in Node,
         \/ handler_box' = handler_box
         \/ handler_box # <<>> /\ handler_box' = Tail(handler_box)
         \/ \E m \in HandlerMessage : m # DownNode(n) /\ handler_box' = Append(handler_box, m)
  PROVE  /\ DownOnce(n) => DownOnce(n)'
         /\ DownNode(n) \in Content(handler_box') => DownNode(n) \in Content(handler_box)
<1>1. CASE handler_box' = handler_box
  BY <1>1 DEF DownOnce
<1>2. CASE handler_box # <<>> /\ handler_box' = Tail(handler_box)
  <2>1. \A i \in DOMAIN handler_box' : /\ i \in Nat /\ i + 1 \in DOMAIN handler_box
                                       /\ handler_box'[i] = handler_box[i + 1]
    BY <1>2, PositionsTaken
  <2>2. DownOnce(n) => DownOnce(n)'
    <3> SUFFICES ASSUME DownOnce(n), NEW i \in DOMAIN handler_box',
                        NEW k \in DOMAIN handler_box',
                        handler_box'[i] = DownNode(n), handler_box'[k] = DownNode(n)
                 PROVE  i = k
      BY DEF DownOnce
    <3>1. i + 1 = k + 1
      BY <2>1 DEF DownOnce
    <3> QED
      BY <2>1, <3>1
  <2> QED
    BY <1>2, <2>2, ContentTaken
<1>3. ASSUME NEW m \in HandlerMessage, m # DownNode(n), handler_box' = Append(handler_box, m)
      PROVE  /\ DownOnce(n) => DownOnce(n)'
             /\ DownNode(n) \in Content(handler_box') => DownNode(n) \in Content(handler_box)
  <2>1. \A i \in DOMAIN handler_box' : handler_box'[i] = DownNode(n) =>
          i \in DOMAIN handler_box /\ handler_box[i] = DownNode(n)
    BY <1>3, PositionsAppended
  <2>2. DownOnce(n) => DownOnce(n)'
    BY <2>1, Zenon DEF DownOnce
  <2> QED
    BY <1>3, <2>2, ContentAppended
<1> QED
  BY <1>1, <1>2, <1>3

LEMMA OnceKept ==
  ASSUME conn_box \in Seq(ConnectionMessage), handler_box \in Seq(HandlerMessage),
         NEW n \in Node, Once(n),
         \/ UNCHANGED <<conn_box, connections>>
         \/ /\ UNCHANGED connections
            /\ \E m \in ConnectionMessage : /\ ToConnection(m)
                                            /\ ~(m.op = "DeleteStream" /\ m.node = n)
         \/ /\ conn_box # <<>> /\ conn_box' = Tail(conn_box)
            /\ n \in DOMAIN connections => n \in DOMAIN connections'
            /\ Announces(1, n) => n \in DOMAIN connections',
         \/ handler_box' = handler_box
         \/ handler_box # <<>> /\ handler_box' = Tail(handler_box)
         \/ \E m \in HandlerMessage : m # DownNode(n) /\ handler_box' = Append(handler_box, m)
  PROVE  Once(n)'
<1>1. /\ DeletedOnce(n) => DeletedOnce(n)'
      /\ DeletesLater(n) => DeletesLater(n)'
      /\ Undeleted(n) => Undeleted(n)'
      /\ Bound(n) => Bound(n)'
  BY DeletesKept
<1>2. /\ DownOnce(n) => DownOnce(n)'
      /\ DownNode(n) \in Content(handler_box') => DownNode(n) \in Content(handler_box)
  BY DownsKept
<1> QED
  BY <1>1, <1>2 DEF Once

(* Nor does it make anyone stop waiting.                                   *)
LEMMA WaitingKept ==
  ASSUME conn_box \in Seq(ConnectionMessage), Waiting,
         \A t \in Task : Waits(t) => task'[t] = task[t],
         \/ conn_box' = conn_box
         \/ conn_box # <<>> /\ conn_box' = Tail(conn_box)
         \/ \E m \in ConnectionMessage : m.op # "Send" /\ conn_box' = Append(conn_box, m)
  PROVE  Waiting'
<1>1. \A i \in DOMAIN conn_box : conn_box[i].op = "Send" => conn_box[i].task \in Task
  <2> SUFFICES ASSUME NEW i \in DOMAIN conn_box, conn_box[i].op = "Send"
               PROVE  conn_box[i].task \in Task
    OBVIOUS
  <2>1. conn_box[i] \in ConnectionMessage
    OBVIOUS
  <2> QED
    BY <2>1 DEF ConnectionMessage
<1>2. \A i \in DOMAIN conn_box : conn_box[i].op = "Send" =>
          task'[conn_box[i].task] \in Unanswered
  BY <1>1 DEF Waiting, Waits, Unanswered
<1>3. CASE conn_box' = conn_box
  BY <1>2, <1>3 DEF Waiting, Waits, Unanswered
<1>4. CASE conn_box # <<>> /\ conn_box' = Tail(conn_box)
  <2>1. \A i \in DOMAIN conn_box' : /\ i \in Nat /\ i + 1 \in DOMAIN conn_box
                                    /\ conn_box'[i] = conn_box[i + 1]
    BY <1>4, PositionsTaken
  <2>2. \A i \in DOMAIN conn_box' : conn_box'[i].op = "Send" =>
            task'[conn_box'[i].task] \in Unanswered
    BY <1>2, <2>1 DEF Waits, Unanswered
  <2>3. ASSUME NEW i \in DOMAIN conn_box', NEW k \in DOMAIN conn_box',
               conn_box'[i].op = "Send", conn_box'[k].op = "Send",
               conn_box'[i].task = conn_box'[k].task
        PROVE  i = k
    <3>1. i + 1 = k + 1
      BY <2>1, <2>3 DEF Waiting
    <3> QED
      BY <2>1, <3>1
  <2> QED
    BY <2>2, <2>3 DEF Waiting, Waits, Unanswered
<1>5. ASSUME NEW m \in ConnectionMessage, m.op # "Send", conn_box' = Append(conn_box, m)
      PROVE  Waiting'
  <2>1. \A i \in DOMAIN conn_box' : conn_box'[i].op = "Send" =>
          i \in DOMAIN conn_box /\ conn_box'[i] = conn_box[i]
    BY <1>5, PositionsAppended
  <2>2. \A i \in DOMAIN conn_box' : conn_box'[i].op = "Send" =>
            task'[conn_box'[i].task] \in Unanswered
    BY <1>2, <2>1 DEF Waits, Unanswered
  <2>3. \A i, k \in DOMAIN conn_box' :
          /\ conn_box'[i].op = "Send" /\ conn_box'[k].op = "Send"
          /\ conn_box'[i].task = conn_box'[k].task
          => i = k
    BY <2>1 DEF Waiting
  <2> QED
    BY <2>2, <2>3 DEF Waiting, Waits, Unanswered
<1> QED
  BY <1>3, <1>4, <1>5

(* The invariant is kept by a step that keeps ConnectionService alive and  *)
(* disturbs no node that is not crossed.                                   *)
LEMMA AliveDInv ==
  ASSUME NInv, DInv, [Next]_vars, Waiting', conn_up' = conn_up, blocked => blocked',
         \A n \in Node : conn_up /\ ~blocked' /\ ~Crossed(n)' /\ ~Crossed(n) /\ Once(n) => Once(n)'
  PROVE  DInv'
<1>1. CrossedOrOnce'
  <2> SUFFICES ASSUME conn_up, ~blocked', NEW n \in Node PROVE Crossed(n)' \/ Once(n)'
    BY DEF CrossedOrOnce
  <2>1. Crossed(n) \/ Once(n)
    BY DEF DInv, CrossedOrOnce
  <2> QED
    BY <2>1, StayCrossed
<1>2. DiesOfCrossed'
  BY StayCrossed DEF DInv, DiesOfCrossed
<1> QED
  BY <1>1, <1>2 DEF DInv

(* The steps that leave ConnectionService alone and send no DownNode,      *)
LEMMA QuietDInv ==
  ASSUME NInv, DInv, [Next]_vars, UNCHANGED <<connVars, blocked>>,
         \A t \in Task : Waits(t) => task'[t] = task[t],
         \/ handler_box' = handler_box
         \/ handler_box # <<>> /\ handler_box' = Tail(handler_box)
         \/ \E t \in Task, right \in BOOLEAN :
              handler_box' = Append(handler_box, ReceivePacket(t, right))
  PROVE  DInv'
<1>1. conn_box \in Seq(ConnectionMessage) /\ handler_box \in Seq(HandlerMessage)
  BY DEF NInv, Typed
<1>2. UNCHANGED <<connections, conn_box, conn_up>>
  BY DEF connVars
<1>3. Waiting'
  BY <1>1, <1>2, WaitingKept DEF DInv
<1>4. ASSUME NEW n \in Node, Once(n) PROVE Once(n)'
  <2>1. \/ handler_box' = handler_box
        \/ handler_box # <<>> /\ handler_box' = Tail(handler_box)
        \/ \E m \in HandlerMessage : m # DownNode(n) /\ handler_box' = Append(handler_box, m)
    BY Messages, Different
  <2> QED
    BY <1>1, <1>2, <1>4, <2>1, OnceKept
<1> QED
  BY <1>2, <1>3, <1>4, AliveDInv

(* a stream that is announced,                                             *)
LEMMA StartStreamDInv ==
  ASSUME NInv, DInv, [Next]_vars, NEW n \in Node, OnThread(StartStream(n))
  PROVE  DInv'
<1>1. /\ IF conn_up THEN ToConnection(NewStream(n, streams[n])) ELSE UNCHANGED conn_box
      /\ accept[n] = "registered"
      /\ UNCHANGED <<connections, conn_up, task, handler_box, blocked>>
  BY DEF OnThread, StartStream, Loops
<1>2. CASE ~conn_up
  BY <1>1, <1>2, QuietDInv DEF connVars
<1>3. CASE conn_up
  <2>1. conn_box \in Seq(ConnectionMessage) /\ handler_box \in Seq(HandlerMessage)
    BY DEF NInv, Typed
  <2>2. streams[n] \in 1 .. MaxStream
    BY <1>1, BoundAssumption DEF NInv, Typed, Announcements
  <2>3. PICK m \in ConnectionMessage : ToConnection(m) /\ m.op = "NewStream"
    <3>1. NewStream(n, streams[n]) \in ConnectionMessage
      BY <2>2, Messages
    <3>2. ToConnection(NewStream(n, streams[n])) /\ NewStream(n, streams[n]).op = "NewStream"
      BY <1>1, <1>3, Tags
    <3> QED
      BY <3>1, <3>2, Zenon
  <2>4. Waiting'
    BY <1>1, <2>1, <2>3, WaitingKept DEF DInv, ToConnection
  <2>5. ASSUME NEW k \in Node, Once(k) PROVE Once(k)'
    BY <1>1, <2>1, <2>3, <2>5, OnceKept
  <2> QED
    BY <1>1, <2>4, <2>5, AliveDInv
<1> QED
  BY <1>2, <1>3

(* a ping, after which nothing runs any more,                              *)
LEMMA PingDInv ==
  ASSUME NInv, DInv, [Next]_vars, NEW s \in Stream, ~blocked, Ping(s)
  PROVE  DInv'
<1>1. UNCHANGED <<connections, conn_box, conn_up, task>> /\ blocked' = TRUE
  BY DEF Ping, connVars
<1>2. Waiting'
  BY <1>1, WaitingKept DEF DInv, NInv, Typed
<1> QED
  BY <1>1, <1>2, AliveDInv

(* the answer to a handshake, which waits for it,                          *)
LEMMA AnswerDInv ==
  ASSUME NInv, DInv, [Next]_vars, NEW t \in Task, OnThread(Greet(t) \/ Refuse(t))
  PROVE  DInv'
<1>1. /\ \/ Goes(t, "promoted", IF conn_up THEN "greeting" ELSE "greeted")
         \/ Goes(t, "wrong", IF conn_up THEN "refusing" ELSE "refused")
      /\ IF conn_up THEN ToConnection(Send(t)) ELSE UNCHANGED conn_box
      /\ UNCHANGED <<connections, conn_up, handler_box, blocked>>
  BY DEF OnThread, Greet, Refuse, Answer
<1>2. /\ task \in [Task -> Stages]
      /\ conn_box \in Seq(ConnectionMessage) /\ handler_box \in Seq(HandlerMessage)
  BY DEF NInv, Typed, Stages
<1>3. /\ ~Waits(t)
      /\ conn_up => task'[t] \in Unanswered
      /\ \A u \in Task : u # t => task'[u] = task[u]
  BY <1>1, <1>2 DEF Goes, Waits, Unanswered
<1>4. CASE ~conn_up
  <2>1. \A u \in Task : Waits(u) => task'[u] = task[u]
    BY <1>3
  <2> QED
    BY <1>1, <1>4, <2>1, QuietDInv DEF connVars
<1>5. CASE conn_up
  <2> DEFINE m == Send(t)
  <2>1. /\ m \in ConnectionMessage /\ m.op = "Send" /\ m.task = t
        /\ ToConnection(m)
    BY <1>1, <1>5, Messages, Tags
  <2> HIDE DEF m
  <2>2. PICK L \in Nat : L = Len(conn_box) + 1
    BY <1>2, PositionsAppended, <2>1
  <2>3. /\ DOMAIN conn_box' = DOMAIN conn_box \cup {L} /\ conn_box'[L] = m
        /\ \A i \in DOMAIN conn_box : conn_box'[i] = conn_box[i]
    BY <1>2, <2>1, <2>2, PositionsAppended DEF ToConnection
  <2>4. \A i \in DOMAIN conn_box : conn_box[i].op = "Send" =>
          conn_box[i].task # t /\ task'[conn_box[i].task] \in Unanswered
    <3> SUFFICES ASSUME NEW i \in DOMAIN conn_box, conn_box[i].op = "Send"
                 PROVE  conn_box[i].task # t /\ task'[conn_box[i].task] \in Unanswered
      OBVIOUS
    <3>1. conn_box[i] \in ConnectionMessage
      BY <1>2
    <3>2. conn_box[i].task \in Task /\ Waits(conn_box[i].task)
      BY <3>1 DEF ConnectionMessage, DInv, Waiting
    <3> QED
      BY <1>3, <3>2 DEF Waits, Unanswered
  <2>5. Waiting'
    <3>1. \A i \in DOMAIN conn_box' : conn_box'[i].op = "Send" =>
              task'[conn_box'[i].task] \in Unanswered
      BY <1>3, <1>5, <2>1, <2>3, <2>4 DEF Waits, Unanswered
    <3>2. \A i, k \in DOMAIN conn_box' :
            /\ conn_box'[i].op = "Send" /\ conn_box'[k].op = "Send"
            /\ conn_box'[i].task = conn_box'[k].task
            => i = k
      BY <2>1, <2>3, <2>4 DEF DInv, Waiting
    <3> QED
      BY <3>1, <3>2 DEF Waiting, Waits, Unanswered
  <2>6. ASSUME NEW k \in Node, Once(k) PROVE Once(k)'
    BY <1>1, <1>2, <2>1, <2>6, OnceKept
  <2> QED
    BY <1>1, <2>5, <2>6, AliveDInv
<1> QED
  BY <1>4, <1>5

(* a taking down: if it is the first of the node nothing of an earlier one *)
(* is on the way,                                                          *)
LEMMA TakeDownDInv ==
  ASSUME NInv, DInv, [Next]_vars, NEW t \in Task, OnThread(TakeDown(t))
  PROVE  DInv'
<1> DEFINE n == t[1]
<1>1. /\ Goes(t, "refused", "down") /\ handler_box' = Append(handler_box, DownNode(n))
      /\ ~blocked /\ UNCHANGED <<connections, conn_box, conn_up, blocked>>
  BY DEF OnThread, TakeDown, ToHandler, connVars
<1>2. /\ task \in [Task -> Stages] /\ n \in Node
      /\ conn_box \in Seq(ConnectionMessage) /\ handler_box \in Seq(HandlerMessage)
      /\ DownNode(n) \in HandlerMessage
  BY Messages DEF NInv, Typed, Stages
<1>3. /\ task[t] = "refused" /\ task'[t] = "down"
      /\ \A u \in Task : u # t => task'[u] = task[u]
  BY <1>1, <1>2 DEF Goes
<1>4. Waiting'
  <2>1. \A u \in Task : Waits(u) => task'[u] = task[u]
    BY <1>3 DEF Waits, Unanswered
  <2> QED
    BY <1>1, <1>2, <2>1, WaitingKept DEF DInv
<1>5. ASSUME NEW k \in Node, k # n, Once(k) PROVE Once(k)'
  <2>1. DownNode(n) # DownNode(k)
    BY <1>5, Different
  <2> QED
    BY <1>1, <1>2, <1>5, <2>1, OnceKept
<1>6. ASSUME ~Crossed(n)', conn_up PROVE Once(n)'
  <2>1. ~Down(n)
    <3> SUFFICES ASSUME NEW u \in Task, u[1] = n, task[u] = "down" PROVE FALSE
      BY DEF Down
    <3>1. u # t /\ task'[u] = "down"
      BY <1>3
    <3> QED
      BY <1>3, <1>6, <3>1 DEF Crossed, Spoken
  <2>2. Stays(n) /\ Started(n)
    <3>1. Started(n)
      BY <1>3 DEF Started
    <3> QED
      BY <1>2, <2>1, <3>1 DEF NInv, Untouched
  <2>3. Bound(n) /\ Undeleted(n) /\ DownNode(n) \notin Content(handler_box)
    BY <1>1, <1>6, <2>2 DEF Stays, Bound, Undeleted
  <2>4. Bound(n)' /\ Undeleted(n)'
    BY <1>1, <1>2, <2>3, DeletesKept
  <2>5. DeletedOnce(n)' /\ DeletesLater(n)'
    BY <2>4 DEF DeletedOnce, DeletesLater, Undeleted
  <2>6. \A i \in DOMAIN handler_box : handler_box[i] # DownNode(n)
    BY <2>3 DEF Content
  <2>7. DownOnce(n)'
    <3>1. \A i \in DOMAIN handler_box' :
            handler_box'[i] = DownNode(n) => i = Len(handler_box) + 1
      BY <1>1, <1>2, <2>6, PositionsAppended
    <3> QED
      BY <3>1 DEF DownOnce
  <2> QED
    BY <2>4, <2>5, <2>7 DEF Once
<1> HIDE DEF n
<1> QED
  BY <1>1, <1>4, <1>5, <1>6, AliveDInv

(* which HandlerService passes on,                                         *)
LEMMA HandleDownDInv ==
  ASSUME NInv, DInv, [Next]_vars, OnThread(HandleDown)
  PROVE  DInv'
<1> DEFINE h == Head(handler_box)
<1>1. /\ ~blocked /\ handler_box # <<>> /\ h.msg = "DownNode"
      /\ handler_box' = Tail(handler_box)
      /\ IF conn_up THEN ToConnection(DeleteStream(h.node)) ELSE UNCHANGED conn_box
      /\ UNCHANGED <<connections, conn_up, task, blocked>>
  BY DEF OnThread, HandleDown, HandlerTakes
<1>2. /\ handler_box \in Seq(HandlerMessage) /\ conn_box \in Seq(ConnectionMessage)
      /\ h \in HandlerMessage /\ h = handler_box[1] /\ 1 \in DOMAIN handler_box
  BY <1>1, PositionsTaken DEF NInv, Typed
<1>3. PICK n \in Node : n = h.node /\ h = DownNode(n)
  BY <1>1, <1>2 DEF HandlerMessage, DownNode
<1> HIDE DEF h
<1>4. CASE ~conn_up
  BY <1>1, <1>4, QuietDInv DEF connVars
<1>5. CASE conn_up
  <2> DEFINE m == DeleteStream(n)
  <2>1. /\ m \in ConnectionMessage /\ m.op = "DeleteStream" /\ m.node = n
        /\ ToConnection(m)
    BY <1>1, <1>3, <1>5, Messages, Tags
  <2> HIDE DEF m
  <2>2. Waiting'
    BY <1>1, <1>2, <2>1, WaitingKept DEF DInv, ToConnection
  <2>3. ASSUME NEW k \in Node, k # n, Once(k) PROVE Once(k)'
    BY <1>1, <1>2, <2>1, <2>3, OnceKept
  <2>4. ASSUME Once(n) PROVE Once(n)'
    <3>1. PICK L \in Nat : L = Len(conn_box) + 1
      BY <1>2, <2>1, PositionsAppended
    <3>2. /\ DOMAIN conn_box' = DOMAIN conn_box \cup {L}
          /\ \A i \in DOMAIN conn_box : Deletes(i, n)' <=> Deletes(i, n)
          /\ Reachable(n, L) => Reachable(n, L)'
      <4>1. /\ DOMAIN conn_box' = DOMAIN conn_box \cup {L}
            /\ \A i \in DOMAIN conn_box : conn_box'[i] = conn_box[i]
        BY <1>2, <2>1, <3>1, PositionsAppended DEF ToConnection
      <4>2. \A k \in Node, i \in Nat : Reachable(k, i) => Reachable(k, i)'
        BY <1>1, <1>2, <2>1, BoxAppended
      <4> QED
        BY <4>1, <4>2 DEF Deletes
    <3>3. Bound(n) /\ Undeleted(n)
      BY <1>2, <1>3, <2>4 DEF Once, Content
    <3>4. \A i \in DOMAIN conn_box' : Deletes(i, n)' => i = L
      BY <3>2, <3>3 DEF Undeleted
    <3>5. DeletedOnce(n)' /\ DeletesLater(n)'
      <4>1. Reachable(n, L)'
        BY <3>1, <3>2, <3>3 DEF Bound
      <4>2. DeletesLater(n)'
        BY <3>4, <4>1, Zenon DEF DeletesLater
      <4>3. DeletedOnce(n)'
        BY <3>4, Zenon DEF DeletedOnce
      <4> QED
        BY <4>2, <4>3
    <3>6. DownOnce(n)'
      BY <1>1, <1>2, <1>3, <2>4, DownsKept DEF Once
    <3>7. DownNode(n) \notin Content(handler_box')
      <4>1. \A i \in DOMAIN handler_box' : /\ i \in Nat \ {0} /\ i + 1 \in DOMAIN handler_box
                                           /\ handler_box'[i] = handler_box[i + 1]
        BY <1>1, <1>2, PositionsTaken
      <4>2. \A i \in DOMAIN handler_box : handler_box[i] = DownNode(n) => i = 1
        BY <1>2, <1>3, <2>4 DEF Once, DownOnce
      <4>3. \A i \in DOMAIN handler_box' : handler_box'[i] # DownNode(n)
        <5> SUFFICES ASSUME NEW i \in DOMAIN handler_box', handler_box'[i] = DownNode(n)
                     PROVE  FALSE
          OBVIOUS
        <5>1. i + 1 = 1
          BY <4>1, <4>2
        <5> QED
          BY <4>1, <5>1
      <4> QED
        BY <4>3 DEF Content
    <3> QED
      BY <3>5, <3>6, <3>7 DEF Once
  <2> QED
    BY <1>1, <2>2, <2>3, <2>4, AliveDInv
<1> QED
  BY <1>4, <1>5

(* and what ConnectionService does with its messages.                      *)
LEMMA HandleNewStreamDInv ==
  ASSUME NInv, DInv, [Next]_vars, OnThread(HandleNewStream)
  PROVE  DInv'
<1> DEFINE m == Head(conn_box)
           n == m.node
<1>1. /\ conn_box # <<>> /\ m.op = "NewStream" /\ conn_box' = Tail(conn_box)
      /\ connections' = Sched!Insert(connections, n, m.stream)
      /\ UNCHANGED <<conn_up, task, handler_box, blocked>>
  BY DEF OnThread, HandleNewStream, ConnectionTakes
<1>2. /\ conn_box \in Seq(ConnectionMessage) /\ handler_box \in Seq(HandlerMessage)
      /\ m = conn_box[1]
  BY <1>1, BoxTaken DEF NInv, Typed
<1> HIDE DEF m
<1>3. DOMAIN connections' = DOMAIN connections \cup {n}
  BY <1>1 DEF Sched!Insert
<1>4. Waiting'
  BY <1>1, <1>2, WaitingKept DEF DInv
<1>5. ASSUME NEW k \in Node, Once(k) PROVE Once(k)'
  <2>1. /\ k \in DOMAIN connections => k \in DOMAIN connections'
        /\ Announces(1, k) => k \in DOMAIN connections'
    BY <1>2, <1>3 DEF Announces
  <2> QED
    BY <1>1, <1>2, <1>5, <2>1, OnceKept
<1> QED
  BY <1>1, <1>4, <1>5, AliveDInv

LEMMA HandleSendDInv ==
  ASSUME NInv, DInv, [Next]_vars, OnThread(HandleSend)
  PROVE  DInv'
<1> DEFINE m == Head(conn_box)
           t == m.task
<1>1. /\ conn_box # <<>> /\ m.op = "Send" /\ conn_box' = Tail(conn_box)
      /\ task' = [task EXCEPT ![t] = Answered(t)]
      /\ UNCHANGED <<connections, conn_up, handler_box, blocked>>
  BY DEF OnThread, HandleSend, ConnectionTakes
<1>2. /\ conn_box \in Seq(ConnectionMessage) /\ handler_box \in Seq(HandlerMessage)
      /\ task \in [Task -> Stages]
  BY DEF NInv, Typed, Stages
<1>3. /\ m = conn_box[1] /\ 1 \in DOMAIN conn_box
      /\ \A i \in DOMAIN conn_box' : /\ i \in Nat \ {0} /\ i + 1 \in DOMAIN conn_box
                                     /\ conn_box'[i] = conn_box[i + 1]
  BY <1>1, <1>2, BoxTaken
<1> HIDE DEF m, t
<1>4. \A i \in DOMAIN conn_box' : conn_box'[i].op = "Send" =>
        conn_box'[i].task # t /\ task'[conn_box'[i].task] \in Unanswered
  <2> SUFFICES ASSUME NEW i \in DOMAIN conn_box', conn_box'[i].op = "Send"
               PROVE  conn_box'[i].task # t /\ task'[conn_box'[i].task] \in Unanswered
    OBVIOUS
  <2>1. conn_box'[i] \in ConnectionMessage /\ conn_box'[i] = conn_box[i + 1]
    BY <1>2, <1>3
  <2>2. conn_box'[i].task \in Task /\ Waits(conn_box'[i].task)
    BY <1>3, <2>1 DEF ConnectionMessage, DInv, Waiting
  <2>3. conn_box'[i].task # t
    <3>1. SUFFICES ASSUME conn_box'[i].task = t PROVE FALSE
      OBVIOUS
    <3>2. i + 1 = 1
      BY <1>1, <1>3, <2>1, <3>1 DEF DInv, Waiting, t
    <3> QED
      BY <1>3, <3>2
  <2>4. task'[conn_box'[i].task] = task[conn_box'[i].task]
    BY <1>1, <1>2, <2>2, <2>3
  <2> QED
    BY <2>2, <2>3, <2>4 DEF Waits, Unanswered
<1>5. Waiting'
  <2>1. ASSUME NEW i \in DOMAIN conn_box', NEW k \in DOMAIN conn_box',
               conn_box'[i].op = "Send", conn_box'[k].op = "Send",
               conn_box'[i].task = conn_box'[k].task
        PROVE  i = k
    <3>1. i + 1 = k + 1
      BY <1>3, <2>1 DEF DInv, Waiting
    <3> QED
      BY <1>3, <3>1
  <2>2. \A i \in DOMAIN conn_box' : conn_box'[i].op = "Send" =>
            task'[conn_box'[i].task] \in Unanswered
    BY <1>4
  <2> QED
    BY <2>1, <2>2 DEF Waiting, Waits, Unanswered
<1>6. ASSUME NEW k \in Node, Once(k) PROVE Once(k)'
  <2>1. ~Announces(1, k)
    BY <1>1, <1>3 DEF Announces
  <2> QED
    BY <1>1, <1>2, <1>6, <2>1, OnceKept
<1> QED
  BY <1>1, <1>5, <1>6, AliveDInv

LEMMA HandleDeleteDInv ==
  ASSUME NInv, DInv, [Next]_vars, OnThread(HandleDelete)
  PROVE  DInv'
<1> DEFINE m == Head(conn_box)
<1>1. /\ conn_box # <<>> /\ m.op = "DeleteStream" /\ conn_box' = Tail(conn_box)
      /\ connections' = Sched!Without(connections, m.node)
      /\ UNCHANGED <<conn_up, task, handler_box, blocked>>
  BY DEF OnThread, HandleDelete, ConnectionTakes
<1>2. /\ conn_box \in Seq(ConnectionMessage) /\ handler_box \in Seq(HandlerMessage)
      /\ m = conn_box[1] /\ 1 \in DOMAIN conn_box /\ m \in ConnectionMessage
  BY <1>1, BoxTaken DEF NInv, Typed
<1>3. PICK n \in Node : n = m.node /\ Deletes(1, n)
  BY <1>1, <1>2 DEF ConnectionMessage, Deletes
<1> HIDE DEF m
<1>4. DOMAIN connections' = DOMAIN connections \ {n}
  BY <1>1, <1>3 DEF Sched!Without, Sched!Restrict
<1>5. Waiting'
  BY <1>1, <1>2, WaitingKept DEF DInv
<1>6. ASSUME NEW k \in Node, k # n, Once(k) PROVE Once(k)'
  <2>1. ~Announces(1, k)
    BY <1>1, <1>2 DEF Announces, m
  <2> QED
    BY <1>1, <1>2, <1>4, <1>6, <2>1, OnceKept
<1>7. ASSUME Once(n) PROVE Once(n)'
  <2>1. \A i \in DOMAIN conn_box : Deletes(i, n) => i = 1
    BY <1>2, <1>3, <1>7 DEF Once, DeletedOnce
  <2>2. \A i \in DOMAIN conn_box' : /\ i \in Nat \ {0} /\ i + 1 \in DOMAIN conn_box
                                    /\ Deletes(i, n)' <=> Deletes(i + 1, n)
    <3>1. \A i \in DOMAIN conn_box' : /\ i \in Nat \ {0} /\ i + 1 \in DOMAIN conn_box
                                      /\ conn_box'[i] = conn_box[i + 1]
      BY <1>1, <1>2, PositionsTaken
    <3> QED
      BY <3>1 DEF Deletes
  <2>3. \A i \in DOMAIN conn_box' : ~Deletes(i, n)'
    <3> SUFFICES ASSUME NEW i \in DOMAIN conn_box', Deletes(i, n)' PROVE FALSE
      OBVIOUS
    <3>1. i + 1 = 1
      BY <2>1, <2>2
    <3> QED
      BY <2>2, <3>1
  <2>4. DownNode(n) \notin Content(handler_box')
    BY <1>1, <1>2, <1>3, <1>7 DEF Once, Undeleted
  <2>5. DownOnce(n)'
    BY <1>1, <1>7 DEF Once, DownOnce
  <2> QED
    BY <2>3, <2>4, <2>5 DEF Once, DeletedOnce, DeletesLater
<1> QED
  BY <1>1, <1>5, <1>6, <1>7, AliveDInv

(* It panics on a message about a node it has no stream of: the node was   *)
(* taken down, and another handshake of it has been answered.              *)
LEMMA ConnectionPanicsDInv ==
  ASSUME NInv, DInv, [Next]_vars, OnThread(ConnectionPanics)
  PROVE  DInv'
<1> DEFINE m == Head(conn_box)
<1>1. /\ ~blocked /\ conn_up /\ conn_box # <<>> /\ m.op \in {"Send", "DeleteStream"}
      /\ m.node \notin DOMAIN connections
      /\ conn_up' = FALSE /\ conn_box' = <<>>
      /\ task' = [t \in Task |-> Answered(t)]
  BY DEF OnThread, ConnectionPanics
<1>2. /\ m \in ConnectionMessage /\ m = conn_box[1] /\ 1 \in DOMAIN conn_box
      /\ \A i \in DOMAIN conn_box : i \in Nat \ {0}
  BY <1>1, BoxTaken DEF NInv, Typed
<1>3. PICK n \in Node : n = m.node /\ (Sends(1, n) \/ Deletes(1, n))
  BY <1>1, <1>2 DEF ConnectionMessage, Sends, Deletes
<1>4. ~Reachable(n, 1)
  BY <1>1, <1>2, <1>3 DEF Reachable
<1>5. PICK t \in Task : t[1] = n /\ task[t] = "down"
  BY <1>2, <1>3, <1>4 DEF NInv, Untouched, Stays, Down
<1>6. Crossed(n)'
  <2>1. CASE Sends(1, n)
    <3>1. m.op = "Send"
      BY <1>2, <2>1 DEF Sends
    <3>2. PICK u \in Task : u = m.task /\ u[1] = n /\ Waits(u)
      <4>1. m.task \in Task /\ Waits(m.task)
        BY <1>2, <3>1 DEF ConnectionMessage, DInv, Waiting
      <4>2. m \in Content(conn_box)
        BY <1>2 DEF Content
      <4> QED
        BY <1>3, <3>1, <4>1, <4>2 DEF NInv, Addressed
    <3>3. u # t /\ Answered(u) \in Spoken
      BY <1>5, <3>2 DEF Waits, Unanswered, Answered, Spoken
    <3>4. task'[u] \in Spoken /\ task'[t] = "down"
      BY <1>1, <1>5, <3>2, <3>3, StaySpoken
    <3> QED
      BY <1>5, <3>2, <3>3, <3>4, Zenon DEF Crossed
  <2>2. CASE Deletes(1, n)
    <3>1. ~Once(n)
      BY <1>2, <1>4, <2>2 DEF Once, DeletesLater
    <3>2. Crossed(n)
      BY <1>1, <1>3, <3>1 DEF DInv, CrossedOrOnce
    <3> QED
      BY <1>3, <3>2, StayCrossed
  <2> QED
    BY <1>3, <2>1, <2>2
<1>7. Waiting' /\ CrossedOrOnce'
  BY <1>1 DEF Waiting, CrossedOrOnce
<1> QED
  BY <1>3, <1>6, <1>7 DEF DInv, DiesOfCrossed

LEMMA StepDInv ==
  ASSUME NInv, DInv, [Next]_vars
  PROVE  DInv'
<1>0. task \in [Task -> Stages]
  BY DEF NInv, Typed, Stages
<1>1. CASE UNCHANGED vars \/ \E n \in Node : Lose(n)
  BY <1>1, QuietDInv DEF vars, Lose
<1>2. CASE \E n \in Node : OnThread(AcceptBidirectional(n) \/ AcceptReceive(n) \/ AcceptStep(n))
  <2>1. PICK n \in Node :
          \/ OnThread(StartStream(n))
          \/ UNCHANGED <<connVars, task, handler_box, blocked>>
    BY <1>2
    DEF OnThread, AcceptBidirectional, AcceptReceive, AcceptStep, StartReceive,
        RefuseReceive, AcceptEnds
  <2> QED
    BY <2>1, StartStreamDInv, QuietDInv
<1>3. CASE \E s \in Stream : OnThread(StreamStep(s)) \/ (~blocked /\ Ping(s))
  <2>1. PICK s \in Stream : \/ ~blocked /\ Ping(s)
                            \/ UNCHANGED <<connVars, task, handler_box, blocked>>
    BY <1>3 DEF OnThread, StreamStep, StreamSend, StreamDelete, StreamTakes
  <2> QED
    BY <2>1, PingDInv, QuietDInv
<1>4. CASE \E t \in Task : OnThread(ForwardHandshake(t) \/ TaskStep(t))
  <2>1. PICK t \in Task :
          \/ OnThread(ForwardHandshake(t)) \/ OnThread(AskPromotion(t))
          \/ OnThread(Greet(t) \/ Refuse(t)) \/ OnThread(TakeDown(t))
    BY <1>4 DEF TaskStep, OnThread
  <2>2. CASE OnThread(ForwardHandshake(t)) \/ OnThread(AskPromotion(t))
    <3>1. /\ UNCHANGED <<connVars, blocked>>
          /\ \/ handler_box' = handler_box
             \/ \E right \in BOOLEAN : handler_box' = Append(handler_box, ReceivePacket(t, right))
      BY <2>2 DEF OnThread, ForwardHandshake, AskPromotion, ToHandler
    <3>2. \A u \in Task : Waits(u) => task'[u] = task[u]
      BY <1>0, <2>2 DEF OnThread, ForwardHandshake, AskPromotion, Goes, Waits, Unanswered
    <3> QED
      BY <3>1, <3>2, QuietDInv
  <2> QED
    BY <2>1, <2>2, AnswerDInv, TakeDownDInv
<1>5. CASE OnThread(HandlerStep)
  <2>1. CASE OnThread(HandleHandshake)
    <3>1. /\ handler_box # <<>> /\ handler_box' = Tail(handler_box)
          /\ UNCHANGED <<connVars, blocked>>
      BY <2>1 DEF OnThread, HandleHandshake, HandlerTakes, connVars
    <3>2. \A u \in Task : Waits(u) => task'[u] = task[u]
      <4>1. PICK to : Goes(Head(handler_box).task, "sent", to)
        BY <2>1 DEF OnThread, HandleHandshake
      <4> QED
        BY <1>0, <4>1 DEF Goes, Waits, Unanswered
    <3> QED
      BY <3>1, <3>2, QuietDInv
  <2> QED
    BY <1>5, <2>1, HandleDownDInv DEF HandlerStep, OnThread
<1>6. CASE OnThread(SchedulerStep)
  <2>1. UNCHANGED <<connVars, handler_box, blocked>>
    BY <1>6
    DEF OnThread, SchedulerStep, TakeNewNode, TakeRemoveNode, TakeHandshake, TakeExists,
        SchedulerTakes
  <2>2. \A u \in Task : Waits(u) => task'[u] = task[u]
    <3>1. CASE TakeHandshake
      <4>1. Goes(Head(sched_box).task, "promoting", "promoted")
        BY <3>1 DEF TakeHandshake
      <4> QED
        BY <1>0, <4>1 DEF Goes, Waits, Unanswered
    <3> QED
      BY <1>6, <3>1 DEF OnThread, SchedulerStep, TakeNewNode, TakeRemoveNode, TakeExists
  <2> QED
    BY <2>1, <2>2, QuietDInv
<1>7. CASE OnThread(ConnectionStep)
  <2>1. \/ OnThread(HandleNewStream) \/ OnThread(HandleSend)
        \/ OnThread(HandleDelete) \/ OnThread(ConnectionPanics)
    BY <1>7 DEF ConnectionStep, OnThread
  <2> QED
    BY <2>1, HandleNewStreamDInv, HandleSendDInv, HandleDeleteDInv, ConnectionPanicsDInv
<1> QED
  BY <1>1, <1>2, <1>3, <1>4, <1>5, <1>6, <1>7 DEF Next

LEMMA InitDInv == Init => DInv
<1> SUFFICES ASSUME Init PROVE DInv
  OBVIOUS
<1>1. conn_box = <<>> /\ handler_box = <<>> /\ conn_up
  BY DEF Init
<1>2. \A n \in Node : Once(n)
  BY <1>1 DEF Once, DeletedOnce, DeletesLater, DownOnce, Content
<1> QED
  BY <1>1, <1>2 DEF DInv, Waiting, CrossedOrOnce, DiesOfCrossed

(* ConnectionService dies only of a node that two handshakes are about,    *)
(* one with a wrong password that had it taken down, one that has had its  *)
(* answer: it survives nodes with the right password, and the first packet *)
(* to a node never comes before its stream.                                *)
THEOREM DeathOfTakenDown == Spec => []DiesOfTakenDown
<1>1. DInv => DiesOfTakenDown
  BY DEF DInv, DiesOfCrossed, Crossed, Spoken, DiesOfTakenDown
<1>2. NInv /\ DInv /\ [Next]_vars => DInv'
  BY StepDInv
<1> QED
  BY <1>1, <1>2, InitDInv, SessionInductive, PTL DEF Spec

-----------------------------------------------------------------------------
(* The action property.                                                    *)

(* A handshake is promoted by nothing but the answer of the scheduler.     *)
LEMMA OnlyScheduler ==
  ASSUME NInv, [Next]_vars, ~OnThread(TakeHandshake), NEW t \in Task,
         task[t] = "promoting"
  PROVE  task'[t] = "promoting"
<1>1. task \in [Task -> Stages]
  BY DEF NInv, Typed, Stages
<1>2. ASSUME NEW u, NEW from, NEW to, Goes(u, from, to), from # "promoting"
      PROVE  task'[t] = "promoting"
  BY <1>1, <1>2 DEF Goes
<1>3. task' = task => task'[t] = "promoting"
  OBVIOUS
<1>4. Answered(t) = "promoting"
  BY DEF Answered
<1>5. CASE UNCHANGED vars \/ \E n \in Node : Lose(n)
  BY <1>3, <1>5 DEF vars, Lose
<1>6. CASE \E n \in Node : OnThread(AcceptBidirectional(n) \/ AcceptReceive(n) \/ AcceptStep(n))
  BY <1>3, <1>6
  DEF OnThread, AcceptBidirectional, AcceptReceive, AcceptStep, StartStream, StartReceive,
      RefuseReceive, AcceptEnds
<1>7. CASE \E s \in Stream : OnThread(StreamStep(s)) \/ (~blocked /\ Ping(s))
  BY <1>3, <1>7 DEF OnThread, StreamStep, StreamSend, StreamDelete, StreamTakes, Ping
<1>8. CASE \E u \in Task : OnThread(ForwardHandshake(u) \/ TaskStep(u))
  BY <1>2, <1>8
  DEF OnThread, ForwardHandshake, TaskStep, AskPromotion, Greet, Refuse, Answer, TakeDown
<1>9. CASE OnThread(HandlerStep)
  BY <1>2, <1>3, <1>9 DEF OnThread, HandlerStep, HandleHandshake, HandleDown
<1>10. CASE OnThread(SchedulerStep)
  BY <1>3, <1>10
  DEF OnThread, SchedulerStep, TakeNewNode, TakeRemoveNode, TakeExists
<1>11. CASE OnThread(ConnectionStep)
  <2>1. CASE OnThread(HandleSend)
    <3>1. PICK u : task' = [task EXCEPT ![u] = Answered(u)]
      BY <2>1 DEF OnThread, HandleSend
    <3> QED
      BY <1>1, <1>4, <3>1
  <2>2. CASE OnThread(ConnectionPanics)
    BY <1>4, <2>2 DEF OnThread, ConnectionPanics
  <2> QED
    BY <1>3, <1>11, <2>1, <2>2 DEF OnThread, ConnectionStep, HandleNewStream, HandleDelete
<1> QED
  BY <1>5, <1>6, <1>7, <1>8, <1>9, <1>10, <1>11 DEF Next

(* A node is told of a success the scheduler has heard of, unless another  *)
(* handshake has had it taken down.                                        *)
THEOREM SuccessOrTakenDown == Spec => SuccessUnlessTakenDown
<1>1. ASSUME NInv, [Next]_vars, NEW t \in Task, task[t] = "promoting",
             task'[t] = "promoted"
      PROVE  \/ t[1] \in shared_key'
             \/ \E u \in Task : u[1] = t[1] /\ task[u] = "down"
  <2>1. OnThread(TakeHandshake)
    BY <1>1, OnlyScheduler
  <2>2. PICK u \in Task : /\ task[u] = "promoting" /\ task'[u] = "promoted"
                          /\ \A r \in Task : r # u => task'[r] = task[r]
                          /\ u[1] \in shared_key' \/ Down(u[1])
    BY <1>1, <2>1, TakeHandshakeNInv
  <2>3. u = t
    BY <1>1, <2>2
  <2> QED
    BY <2>2, <2>3 DEF Down
<1>2. NInv /\ [Next]_vars =>
        [\A t \in Task : task[t] = "promoting" /\ task'[t] = "promoted" =>
           \/ t[1] \in shared_key'
           \/ \E u \in Task : u[1] = t[1] /\ task[u] = "down"]_vars
  BY <1>1
<1> QED
  BY <1>2, SessionInductive, PTL DEF Spec, SuccessUnlessTakenDown

-----------------------------------------------------------------------------
(* The messages of a kind, in their order.                                 *)

\* The numbers of I up to i.
Upto(I, i) == {m \in I : m <= i}

(* A number is found by how many come before it.                           *)
LEMMA RankIsOwn ==
  ASSUME NEW n \in Nat, NEW I, I \subseteq 1 .. n, NEW i \in I, NEW k \in I,
         Cardinality(Upto(I, i)) = Cardinality(Upto(I, k))
  PROVE  i = k
<1>1. \A a, b \in I : a <= b => Upto(I, a) \in SUBSET Upto(I, b)
  <2> SUFFICES ASSUME NEW a \in I, NEW b \in I, a <= b, NEW m \in I, m <= a
               PROVE  m <= b
    BY DEF Upto
  <2>1. a \in Int /\ b \in Int /\ m \in Int
    OBVIOUS
  <2> QED
    BY <2>1
<1>2. \A a \in I : IsFiniteSet(Upto(I, a))
  <2>1. \A a \in I : Upto(I, a) \subseteq 1 .. n
    BY DEF Upto
  <2> QED
    BY <2>1, Positions
<1>3. \A a, b \in I : a <= b /\ Cardinality(Upto(I, a)) = Cardinality(Upto(I, b)) => a = b
  <2> SUFFICES ASSUME NEW a \in I, NEW b \in I, a <= b,
                      Cardinality(Upto(I, a)) = Cardinality(Upto(I, b))
               PROVE  a = b
    OBVIOUS
  <2>1. Upto(I, a) = Upto(I, b)
    BY <1>1, <1>2, FS_Subset
  <2>2. b \in Upto(I, b)
    BY DEF Upto
  <2> QED
    BY <2>1, <2>2 DEF Upto
<1>4. i <= k \/ k <= i
  OBVIOUS
<1> QED
  BY <1>3, <1>4

LEMMA NthIs ==
  ASSUME NEW n \in Nat, NEW I, I \subseteq 1 .. n, NEW i \in I
  PROVE  Nth(I, Cardinality(Upto(I, i))) = i
<1>1. \A k \in I : Cardinality(Upto(I, k)) = Cardinality(Upto(I, i)) => k = i
  BY RankIsOwn
<1> QED
  BY <1>1 DEF Nth, Upto

(* A greater number comes after all others.                                *)
LEMMA UptoMore ==
  ASSUME NEW n \in Nat, NEW I, I \subseteq 1 .. n
  PROVE  /\ \A i \in I : Upto(I \cup {n + 1}, i) = Upto(I, i)
         /\ Upto(I \cup {n + 1}, n + 1) = I \cup {n + 1}
<1>1. \A i \in I : i \in Int /\ i <= n /\ ~(n + 1 <= i)
  OBVIOUS
<1>2. \A i \in I : i <= n + 1
  BY <1>1
<1>3. n + 1 <= n + 1
  OBVIOUS
<1> QED
  BY <1>1, <1>2, <1>3, Zenon DEF Upto

(* Every rank is taken.                                                    *)
LEMMA NthExists ==
  ASSUME NEW n \in Nat, NEW I, I \subseteq 1 .. n, NEW k \in 1 .. Cardinality(I)
  PROVE  Nth(I, k) \in I /\ Cardinality(Upto(I, Nth(I, k))) = k
<1> DEFINE f == [i \in I |-> Cardinality(Upto(I, i))]
           R == 1 .. Cardinality(I)
<1>1. IsFiniteSet(I) /\ Cardinality(I) \in Nat
  BY Positions
<1>2. ASSUME NEW i \in I PROVE f[i] \in R
  <2>1. Upto(I, i) \in SUBSET I /\ Upto(I, i) # {}
    BY DEF Upto
  <2>2. /\ IsFiniteSet(Upto(I, i)) /\ Cardinality(Upto(I, i)) <= Cardinality(I)
        /\ Cardinality(Upto(I, i)) \in Nat
    BY <1>1, <2>1, FS_Subset, FS_CardinalityType
  <2>3. Cardinality(Upto(I, i)) # 0
    BY <2>1, <2>2, FS_EmptySet
  <2> QED
    BY <1>1, <2>2, <2>3
<1>3. f \in Injection(I, R)
  <2>1. \A i, j \in I : f[i] = f[j] => i = j
    BY RankIsOwn
  <2>2. f \in [I -> R]
    BY <1>2
  <2> HIDE DEF f, R
  <2> QED
    BY <2>1, <2>2 DEF Injection, IsInjective
<1>4. IsFiniteSet(R) /\ Cardinality(R) = Cardinality(I)
  BY <1>1, FS_Interval
<1>5. f \in Surjection(I, R)
  <2> HIDE DEF f, R
  <2> QED
    BY <1>3, <1>4, FS_Injection
<1>6. PICK i \in I : f[i] = k
  BY <1>5 DEF Surjection
<1> QED
  BY <1>6 DEF Nth, Upto

(* What is kept of a mailbox.                                              *)
LEMMA KeptIs ==
  ASSUME NEW S, NEW b \in Seq(S), NEW M
  PROVE  /\ At(b, M) \subseteq 1 .. Len(b) /\ Len(b) \in Nat
         /\ Cardinality(At(b, M)) \in Nat
         /\ Kept(b, M) = [k \in 1 .. Cardinality(At(b, M)) |-> b[Nth(At(b, M), k)]]
         /\ Kept(b, M) \in Seq(S \cap M) /\ Len(Kept(b, M)) = Cardinality(At(b, M))
<1>1. At(b, M) \subseteq 1 .. Len(b) /\ Len(b) \in Nat
  BY DEF At
<1>2. Cardinality(At(b, M)) \in Nat
  BY <1>1, Positions
<1>3. Kept(b, M) = [k \in 1 .. Cardinality(At(b, M)) |-> b[Nth(At(b, M), k)]]
  BY DEF Kept, At
<1>4. \A k \in 1 .. Cardinality(At(b, M)) : b[Nth(At(b, M), k)] \in S \cap M
  <2>1. \A k \in 1 .. Cardinality(At(b, M)) : Nth(At(b, M), k) \in At(b, M)
    BY <1>1, NthExists
  <2> QED
    BY <2>1 DEF At
<1> HIDE DEF At
<1>5. Kept(b, M) \in [1 .. Cardinality(At(b, M)) -> S \cap M]
  BY <1>3, <1>4
<1> QED
  BY <1>1, <1>2, <1>3, <1>5

(* A message of the kind that is appended is kept, and no other.           *)
LEMMA KeptAppended ==
  ASSUME NEW S, NEW b \in Seq(S), NEW m \in S, NEW M
  PROVE  Kept(Append(b, m), M) = IF m \in M THEN Append(Kept(b, M), m) ELSE Kept(b, M)
<1> DEFINE c == Append(b, m)
           I == At(b, M)
           K == At(c, M)
<1>1. /\ Len(b) \in Nat /\ Len(c) = Len(b) + 1 /\ c \in Seq(S)
      /\ \A i \in 1 .. Len(b) : c[i] = b[i]
      /\ c[Len(b) + 1] = m
  OBVIOUS
<1>2. /\ I \subseteq 1 .. Len(b) /\ K = I \cup (IF m \in M THEN {Len(b) + 1} ELSE {})
      /\ Cardinality(I) \in Nat
      /\ Cardinality(K) = Cardinality(I) + (IF m \in M THEN 1 ELSE 0)
  BY AtAppended
<1>3. /\ Kept(b, M) = [k \in 1 .. Cardinality(I) |-> b[Nth(I, k)]]
      /\ Kept(b, M) \in Seq(S \cap M) /\ Len(Kept(b, M)) = Cardinality(I)
  BY KeptIs
<1>4. /\ Kept(c, M) = [k \in 1 .. Cardinality(K) |-> c[Nth(K, k)]]
      /\ Kept(c, M) \in Seq(S \cap M) /\ Len(Kept(c, M)) = Cardinality(K)
      /\ K \subseteq 1 .. Len(b) + 1
  <2>1. c \in Seq(S) /\ K \subseteq 1 .. Len(c)
    BY <1>1, KeptIs
  <2> HIDE DEF c
  <2> QED
    BY <1>1, <2>1, KeptIs
<1> HIDE DEF c, I, K
<1>5. ASSUME NEW k \in 1 .. Cardinality(I) PROVE Nth(K, k) = Nth(I, k) /\ c[Nth(K, k)] = b[Nth(I, k)]
  <2>1. Nth(I, k) \in I /\ Cardinality(Upto(I, Nth(I, k))) = k
    BY <1>1, <1>2, NthExists
  <2>2. Upto(K, Nth(I, k)) = Upto(I, Nth(I, k))
    <3>1. K = I \/ K = I \cup {Len(b) + 1}
      BY <1>2
    <3> QED
      BY <1>1, <1>2, <2>1, <3>1, UptoMore
  <2>3. Nth(K, k) = Nth(I, k)
    BY <1>1, <1>2, <1>4, <2>1, <2>2, NthIs
  <2>4. Nth(I, k) \in 1 .. Len(b)
    BY <1>2, <2>1
  <2> QED
    BY <1>1, <2>3, <2>4
<1>6. CASE m \in M
  <2>1. Cardinality(K) = Cardinality(I) + 1 /\ Len(b) + 1 \in K
    BY <1>2, <1>6
  <2>2. Upto(K, Len(b) + 1) = K
    BY <1>1, <1>2, <1>6, UptoMore
  <2>3. Nth(K, Cardinality(I) + 1) = Len(b) + 1
    <3>1. Len(b) + 1 \in Nat
      BY <1>1
    <3> DEFINE e == Len(b) + 1
    <3> HIDE DEF e
    <3>2. Nth(K, Cardinality(Upto(K, e))) = e
      BY <1>4, <2>1, <3>1, NthIs DEF e
    <3> QED
      BY <2>1, <2>2, <3>2 DEF e
  <2>4. /\ Append(Kept(b, M), m) \in Seq(S \cap M)
        /\ Len(Append(Kept(b, M), m)) = Cardinality(K)
        /\ \A k \in 1 .. Cardinality(I) : Append(Kept(b, M), m)[k] = b[Nth(I, k)]
        /\ Append(Kept(b, M), m)[Cardinality(I) + 1] = m
    <3> DEFINE kb == Kept(b, M)
    <3>1. /\ kb \in Seq(S \cap M) /\ Len(kb) = Cardinality(I) /\ m \in S \cap M
          /\ \A k \in 1 .. Cardinality(I) : kb[k] = b[Nth(I, k)]
      BY <1>3, <1>6
    <3> HIDE DEF kb
    <3>2. /\ Append(kb, m) \in Seq(S \cap M) /\ Len(Append(kb, m)) = Len(kb) + 1
          /\ \A k \in 1 .. Len(kb) : Append(kb, m)[k] = kb[k]
          /\ Append(kb, m)[Len(kb) + 1] = m
      BY <3>1
    <3>3. /\ Append(kb, m) \in Seq(S \cap M) /\ Len(Append(kb, m)) = Cardinality(K)
          /\ \A k \in 1 .. Cardinality(I) : Append(kb, m)[k] = b[Nth(I, k)]
          /\ Append(kb, m)[Cardinality(I) + 1] = m
      BY <2>1, <3>1, <3>2
    <3> QED
      BY <3>3 DEF kb
  <2>5. \A k \in 1 .. Cardinality(K) : Kept(c, M)[k] = Append(Kept(b, M), m)[k]
    <3> SUFFICES ASSUME NEW k \in 1 .. Cardinality(K)
                 PROVE  Kept(c, M)[k] = Append(Kept(b, M), m)[k]
      OBVIOUS
    <3>1. k \in 1 .. Cardinality(I) \/ k = Cardinality(I) + 1
      BY <1>2, <2>1
    <3>2. Kept(c, M)[k] = c[Nth(K, k)]
      BY <1>4
    <3> QED
      BY <1>1, <1>5, <2>3, <2>4, <3>1, <3>2
  <2>6. Kept(c, M) = Append(Kept(b, M), m)
    BY <1>4, <2>4, <2>5, SameSeq
  <2> QED
    BY <1>6, <2>6 DEF c
<1>7. CASE m \notin M
  <2>1. Cardinality(K) = Cardinality(I)
    BY <1>2, <1>7
  <2>2. Kept(c, M) = Kept(b, M)
    BY <1>3, <1>4, <1>5, <2>1
  <2> QED
    BY <1>7, <2>2 DEF c
<1> QED
  BY <1>6, <1>7

(* Numbers that move up by one are as many.                                *)
LEMMA MovedUp ==
  ASSUME NEW n \in Nat, NEW I, I \subseteq 1 .. n
  PROVE  /\ IsFiniteSet({m + 1 : m \in I}) /\ 1 \notin {m + 1 : m \in I}
         /\ Cardinality({m + 1 : m \in I}) = Cardinality(I)
<1> DEFINE J == {m + 1 : m \in I}
           f == [m \in I |-> m + 1]
<1>1. \A m \in I : m \in Int /\ m > 0
  OBVIOUS
<1>2. f \in Bijection(I, J)
  <2>1. f \in [I -> J] /\ \A m \in I : f[m] = m + 1
    OBVIOUS
  <2>2. \A m, k \in I : f[m] = f[k] => m = k
    BY <1>1, <2>1
  <2>3. \A j \in J : \E m \in I : f[m] = j
    OBVIOUS
  <2> HIDE DEF f, J
  <2> QED
    BY <2>1, <2>2, <2>3 DEF Bijection, Injection, IsInjective, Surjection
<1>3. IsFiniteSet(I)
  BY Positions
<1>4. ExistsBijection(I, J)
  BY <1>2, Zenon DEF ExistsBijection
<1>5. IsFiniteSet(J) /\ Cardinality(J) = Cardinality(I)
  <2> HIDE DEF f, J
  <2> QED
    BY <1>3, <1>4, FS_Bijection
<1>6. 1 \notin J
  BY <1>1
<1> QED
  BY <1>5, <1>6

(* The head that is taken is the head of what is kept, if it is.           *)
LEMMA KeptTaken ==
  ASSUME NEW S, NEW b \in Seq(S), b # <<>>, NEW M
  PROVE  IF Head(b) \in M
         THEN /\ Kept(b, M) # <<>> /\ Head(Kept(b, M)) = Head(b)
              /\ Tail(Kept(b, M)) = Kept(Tail(b), M)
         ELSE Kept(b, M) = Kept(Tail(b), M)
<1> DEFINE c == Tail(b)
           I == At(b, M)
           K == At(c, M)
           more == IF Head(b) \in M THEN 1 ELSE 0
<1>1. /\ Len(b) \in Nat \ {0} /\ Len(c) = Len(b) - 1 /\ c \in Seq(S) /\ Head(b) = b[1]
      /\ DOMAIN b = 1 .. Len(b) /\ DOMAIN c = 1 .. Len(c)
      /\ Len(c) \in Nat /\ \A i \in 1 .. Len(c) : c[i] = b[i + 1]
  OBVIOUS
<1>2. /\ I \subseteq 1 .. Len(b) /\ Cardinality(I) \in Nat
      /\ Kept(b, M) = [k \in 1 .. Cardinality(I) |-> b[Nth(I, k)]]
      /\ Kept(b, M) \in Seq(S \cap M) /\ Len(Kept(b, M)) = Cardinality(I)
  <2>1. I \subseteq 1 .. Len(b) /\ Cardinality(I) \in Nat
    BY KeptIs
  <2>2. Kept(b, M) = [k \in 1 .. Cardinality(I) |-> b[Nth(I, k)]]
    BY DEF Kept, At
  <2>3. Kept(b, M) \in Seq(S \cap M) /\ Len(Kept(b, M)) = Cardinality(I)
    BY KeptIs
  <2> QED
    BY <2>1, <2>2, <2>3
<1>3. /\ K \subseteq 1 .. Len(c) /\ Cardinality(K) \in Nat
      /\ Kept(c, M) = [k \in 1 .. Cardinality(K) |-> c[Nth(K, k)]]
      /\ Kept(c, M) \in Seq(S \cap M) /\ Len(Kept(c, M)) = Cardinality(K)
  <2>1. c \in Seq(S)
    BY <1>1
  <2> HIDE DEF c
  <2>2. K \subseteq 1 .. Len(c) /\ Cardinality(K) \in Nat
    BY <2>1, KeptIs
  <2>3. Kept(c, M) = [k \in 1 .. Cardinality(K) |-> c[Nth(K, k)]]
    BY DEF Kept, At
  <2>4. Kept(c, M) \in Seq(S \cap M) /\ Len(Kept(c, M)) = Cardinality(K)
    BY <2>1, KeptIs
  <2> QED
    BY <2>2, <2>3, <2>4
<1>4. Cardinality(I) = Cardinality(K) + more
  BY AtTaken
<1>5. I = {m + 1 : m \in K} \cup (IF Head(b) \in M THEN {1} ELSE {})
  <2>1. \A i \in K : i + 1 \in I
    BY <1>1 DEF At
  <2>2. \A i \in I \ {1} : i - 1 \in K /\ (i - 1) + 1 = i
    BY <1>1 DEF At
  <2>3. 1 \in I <=> Head(b) \in M
    BY <1>1 DEF At
  <2> HIDE DEF I, K
  <2> QED
    BY <2>1, <2>2, <2>3
<1> HIDE DEF c, I, K
<1>6. ASSUME NEW i \in K
      PROVE  Cardinality(Upto(I, i + 1)) = Cardinality(Upto(K, i)) + more /\ i + 1 \in I
  <2> DEFINE U == Upto(K, i)
             V == {m + 1 : m \in U}
  <2>1. U \subseteq 1 .. Len(c) /\ Len(c) \in Nat
    <3>1. U \subseteq K
      BY DEF Upto
    <3> QED
      BY <1>1, <1>3, <3>1
  <2>2. Upto(I, i + 1) = V \cup (IF Head(b) \in M THEN {1} ELSE {})
    <3>1. \A m \in K : m + 1 <= i + 1 <=> m <= i
      BY <1>3
    <3>2. 1 <= i + 1
      BY <1>3
    <3>3. \A x : x \in Upto(I, i + 1) <=> x \in V \cup (IF Head(b) \in M THEN {1} ELSE {})
      BY <1>5, <3>1, <3>2 DEF Upto
    <3> QED
      BY <3>3, Zenon
  <2> HIDE DEF U
  <2>3. IsFiniteSet(V) /\ 1 \notin V /\ Cardinality(V) = Cardinality(U)
    BY <2>1, MovedUp
  <2>4. Cardinality(U) \in Nat
    BY <2>1, Positions
  <2> HIDE DEF V
  <2>5. Cardinality(V \cup {1}) = Cardinality(U) + 1
    BY <2>3, <2>4, FS_AddElement
  <2>6. CASE Head(b) \in M
    BY <2>2, <2>5, <2>6, <1>5 DEF U
  <2>7. CASE Head(b) \notin M
    <3>1. Upto(I, i + 1) = V
      BY <2>2, <2>7
    <3> QED
      BY <2>3, <2>4, <2>7, <3>1, <1>5 DEF U
  <2> QED
    BY <2>6, <2>7
<1>7. ASSUME NEW k \in 1 .. Cardinality(K)
      PROVE  /\ Nth(I, k + more) = Nth(K, k) + 1 /\ b[Nth(K, k) + 1] = c[Nth(K, k)]
             /\ k + more \in 1 .. Cardinality(I)
  <2>1. Nth(K, k) \in K /\ Cardinality(Upto(K, Nth(K, k))) = k
    BY <1>1, <1>3, NthExists
  <2>2. Nth(K, k) + 1 \in I /\ Cardinality(Upto(I, Nth(K, k) + 1)) = k + more
    BY <1>6, <2>1
  <2>3. Nth(I, k + more) = Nth(K, k) + 1
    BY <1>1, <1>2, <2>2, NthIs
  <2>4. Nth(K, k) \in 1 .. Len(c)
    BY <1>3, <2>1
  <2>5. k + more \in 1 .. Cardinality(I)
    BY <1>2, <1>3, <1>4
  <2> QED
    BY <1>1, <2>3, <2>4, <2>5
<1>8. CASE Head(b) \in M
  <2>1. 1 \in I /\ Cardinality(I) = Cardinality(K) + 1
    BY <1>4, <1>5, <1>8
  <2>2. Upto(I, 1) = {1}
    <3>1. \A i \in I : i <= 1 <=> i = 1
      BY <1>2
    <3> QED
      BY <2>1, <3>1 DEF Upto
  <2>3. Nth(I, 1) = 1
    <3>1. Cardinality(Upto(I, 1)) = 1
      BY <2>2, FS_Singleton
    <3> QED
      BY <1>1, <1>2, <2>1, <3>1, NthIs
  <2> DEFINE kb == Kept(b, M)
  <2>4. /\ kb \in Seq(S \cap M) /\ Len(kb) = Cardinality(K) + 1 /\ kb[1] = Head(b)
        /\ \A k \in 1 .. Cardinality(K) : kb[k + 1] = c[Nth(K, k)]
    BY <1>1, <1>2, <1>3, <1>7, <1>8, <2>1, <2>3
  <2> HIDE DEF kb
  <2>5. /\ kb # <<>> /\ Head(kb) = Head(b) /\ Tail(kb) \in Seq(S \cap M)
        /\ Len(Tail(kb)) = Cardinality(K)
        /\ \A k \in 1 .. Cardinality(K) : Tail(kb)[k] = kb[k + 1]
    BY <1>3, <2>4
  <2>6. \A k \in 1 .. Cardinality(K) : Tail(kb)[k] = Kept(c, M)[k]
    BY <1>3, <2>4, <2>5
  <2>7. Tail(kb) = Kept(c, M)
    BY <1>3, <2>5, <2>6, SameSeq
  <2> QED
    BY <1>8, <2>5, <2>7 DEF kb, c
<1>9. CASE Head(b) \notin M
  <2>1. Cardinality(I) = Cardinality(K)
    BY <1>2, <1>3, <1>4, <1>9
  <2>2. \A k \in 1 .. Cardinality(K) : Nth(I, k) = Nth(K, k) + 1 /\ b[Nth(I, k)] = c[Nth(K, k)]
    <3> SUFFICES ASSUME NEW k \in 1 .. Cardinality(K)
                 PROVE  Nth(I, k) = Nth(K, k) + 1 /\ b[Nth(I, k)] = c[Nth(K, k)]
      OBVIOUS
    <3>1. k + more = k
      BY <1>9
    <3> QED
      BY <1>7, <3>1
  <2>3. Kept(b, M) = Kept(c, M)
    BY <1>2, <1>3, <2>1, <2>2
  <2> QED
    BY <1>9, <2>3 DEF c
<1> QED
  BY <1>8, <1>9

-----------------------------------------------------------------------------
(* What the refinement needs besides.                                      *)

\* The master has taken a stream of the node.
Opening(n) ==
  \/ n \in DOMAIN nodes \/ recvs[n] > 0 \/ accept[n] = "found"
  \/ \E k \in 1 .. MaxStream : stream[<<n, k>>] # "none"

Opened == \A n \in Node : Opening(n) => streams[n] > 0

\* A handshake is about its node.
Tagged == \A m \in Content(handler_box) : m.msg = "ReceivePacket" => m.node = m.task[1]

(* A step keeps the first when it opens no node without a stream,          *)
LEMMA StaysOpened ==
  ASSUME Opened,
         \A n \in Node : streams[n] > 0 => streams'[n] > 0,
         \A n \in Node : n \in DOMAIN nodes' => n \in DOMAIN nodes \/ streams[n] > 0,
         \A n \in Node : recvs'[n] > 0 => recvs[n] > 0 \/ streams[n] > 0,
         \A n \in Node : accept'[n] = "found" => accept[n] = "found" \/ streams[n] > 0,
         \A n \in Node, k \in 1 .. MaxStream :
           stream'[<<n, k>>] # "none" => stream[<<n, k>>] # "none" \/ streams[n] > 0
  PROVE  Opened'
BY Zenon DEF Opened, Opening

(* and the second when it sends no other message than these.               *)
LEMMA StaysTagged ==
  ASSUME NInv, Tagged,
         \/ handler_box' = handler_box
         \/ handler_box # <<>> /\ handler_box' = Tail(handler_box)
         \/ \E n \in Node : handler_box' = Append(handler_box, DownNode(n))
         \/ \E t \in Task, right \in BOOLEAN :
              handler_box' = Append(handler_box, ReceivePacket(t, right))
  PROVE  Tagged'
<1>1. handler_box \in Seq(HandlerMessage)
  BY DEF NInv, Typed
<1>2. CASE handler_box' = handler_box
  BY <1>2 DEF Tagged
<1>3. CASE handler_box # <<>> /\ handler_box' = Tail(handler_box)
  BY <1>1, <1>3, ContentTaken DEF Tagged
<1>4. ASSUME NEW n \in Node, handler_box' = Append(handler_box, DownNode(n))
      PROVE  Tagged'
  <2>1. Content(handler_box') = Content(handler_box) \cup {DownNode(n)}
    BY <1>1, <1>4, Messages, ContentAppended
  <2> QED
    BY <2>1, Tags DEF Tagged
<1>5. ASSUME NEW t \in Task, NEW right \in BOOLEAN,
             handler_box' = Append(handler_box, ReceivePacket(t, right))
      PROVE  Tagged'
  <2>1. Content(handler_box') = Content(handler_box) \cup {ReceivePacket(t, right)}
    BY <1>1, <1>5, Messages, ContentAppended
  <2>2. ReceivePacket(t, right).node = ReceivePacket(t, right).task[1]
    BY DEF ReceivePacket
  <2> QED
    BY <2>1, <2>2 DEF Tagged
<1> QED
  BY <1>2, <1>3, <1>4, <1>5

LEMMA InitSeen == Init => Opened /\ Tagged
<1> SUFFICES ASSUME Init PROVE Opened /\ Tagged
  OBVIOUS
<1>1. \A n \in Node, k \in 1 .. MaxStream : stream[<<n, k>>] = "none"
  BY DEF Init, Stream
<1>2. DOMAIN nodes = {0}
  BY DEF Init, Sched!Init
<1>3. \A n \in Node : ~Opening(n)
  <2>1. \A n \in Node : n \notin DOMAIN nodes
    BY <1>2, NodeAssumption
  <2>2. \A n \in Node : ~(recvs[n] > 0) /\ accept[n] # "found"
    BY DEF Init
  <2> QED
    BY <1>1, <2>1, <2>2, Zenon DEF Opening
<1> QED
  BY <1>3 DEF Init, Opened, Tagged, Content

LEMMA StepSeen ==
  ASSUME NInv, Opened, Tagged, [Next]_vars
  PROVE  Opened' /\ Tagged'
<1>1. /\ accept \in [Node -> Places] /\ streams \in [Node -> 0 .. MaxStream]
      /\ recvs \in [Node -> 0 .. MaxRecv]
      /\ stream \in [Stream -> {"none", "running", "stopped", "panicked"}]
      /\ handler_box \in Seq(HandlerMessage) /\ sched_box \in Seq(SchedulerIssue)
      /\ MaxStream \in Nat /\ MaxRecv \in Nat
  BY BoundAssumption DEF NInv, Typed, Places
<1>2. ASSUME UNCHANGED <<streams, recvs, accept, nodes>>,
             \A n \in Node, k \in 1 .. MaxStream :
               stream'[<<n, k>>] # "none" => stream[<<n, k>>] # "none"
      PROVE  Opened'
  BY <1>2, StaysOpened
<1>3. CASE UNCHANGED vars \/ \E n \in Node : Lose(n)
  BY <1>2, <1>3, StaysTagged DEF vars, Lose, schedVars, nodeVars, streamVars
<1>4. ASSUME NEW n \in Node, OnThread(AcceptBidirectional(n))
      PROVE  Opened' /\ Tagged'
  <2>1. /\ Loops(n, "idle", "registering") /\ streams' = [streams EXCEPT ![n] = @ + 1]
        /\ UNCHANGED <<nodes, recvs, stream, handler_box>>
    BY <1>4 DEF OnThread, AcceptBidirectional, schedVars, streamVars
  <2>2. /\ \A m \in Node : streams[m] > 0 => streams'[m] > 0
        /\ \A m \in Node : accept'[m] = "found" => accept[m] = "found"
    BY <1>1, <2>1 DEF Loops
  <2> QED
    BY <2>1, <2>2, StaysOpened, StaysTagged
<1>5. ASSUME NEW n \in Node, OnThread(AcceptReceive(n) \/ RefuseReceive(n) \/ AcceptEnds(n))
      PROVE  Opened' /\ Tagged'
  <2>1. /\ \E to \in {"asking", "idle", "ended"} : accept' = [accept EXCEPT ![n] = to]
        /\ UNCHANGED <<nodes, streams, recvs, stream, handler_box>>
    BY <1>5
    DEF OnThread, AcceptReceive, RefuseReceive, AcceptEnds, Loops, schedVars, streamVars
  <2>2. \A m \in Node : accept'[m] = "found" => accept[m] = "found"
    BY <1>1, <2>1
  <2> QED
    BY <2>1, <2>2, StaysOpened, StaysTagged
<1>6. ASSUME NEW n \in Node, OnThread(StartStream(n))
      PROVE  Opened' /\ Tagged'
  <2>1. /\ accept[n] = "registered"
        /\ \E to \in {"announcing", "idle"} : accept' = [accept EXCEPT ![n] = to]
        /\ stream' = [stream EXCEPT ![<<n, streams[n]>>] = "running"]
        /\ UNCHANGED <<nodes, streams, recvs, handler_box>>
    BY <1>6 DEF OnThread, StartStream, Loops, schedVars
  <2>2. streams[n] > 0
    BY <2>1 DEF NInv, Announcements
  <2>3. \A m \in Node : accept'[m] = "found" => accept[m] = "found"
    BY <1>1, <2>1
  <2>4. \A m \in Node, k \in 1 .. MaxStream :
          stream'[<<m, k>>] # "none" => stream[<<m, k>>] # "none" \/ streams[m] > 0
    BY <1>1, <2>1, <2>2 DEF Stream
  <2> QED
    BY <2>1, <2>3, <2>4, StaysOpened, StaysTagged
<1>7. ASSUME NEW n \in Node, OnThread(StartReceive(n))
      PROVE  Opened' /\ Tagged'
  <2>1. /\ accept[n] = "found" /\ accept' = [accept EXCEPT ![n] = "idle"]
        /\ recvs' = [recvs EXCEPT ![n] = @ + 1]
        /\ UNCHANGED <<nodes, streams, stream, handler_box>>
    BY <1>7 DEF OnThread, StartReceive, Loops, schedVars, streamVars
  <2>2. streams[n] > 0
    BY <2>1 DEF Opened, Opening
  <2>3. /\ \A m \in Node : recvs'[m] > 0 => recvs[m] > 0 \/ streams[m] > 0
        /\ \A m \in Node : accept'[m] = "found" => accept[m] = "found"
    BY <1>1, <2>1, <2>2
  <2> QED
    BY <2>1, <2>3, StaysOpened, StaysTagged
<1>8. ASSUME NEW s \in Stream, OnThread(StreamStep(s)) \/ (~blocked /\ Ping(s))
      PROVE  Opened' /\ Tagged'
  <2>1. /\ \/ stream' = stream
           \/ /\ stream[s] = "running"
              /\ \E end \in {"stopped", "panicked"} : stream' = [stream EXCEPT ![s] = end]
        /\ \/ handler_box' = handler_box
           \/ handler_box' = Append(handler_box, DownNode(s[1]))
        /\ UNCHANGED <<nodes, streams, recvs, accept>>
    BY <1>8
    DEF OnThread, StreamStep, StreamSend, StreamDelete, StreamTakes, Ping, ToHandler,
        schedVars, nodeVars, streamVars
  <2>2. \A r \in Stream : stream'[r] # "none" => stream[r] # "none"
    BY <1>1, <2>1
  <2>3. s[1] \in Node
    BY DEF Stream
  <2> QED
    BY <1>2, <2>1, <2>2, <2>3, StaysTagged DEF Stream
<1>9. ASSUME NEW t \in Task, OnThread(ForwardHandshake(t) \/ TaskStep(t))
      PROVE  Opened' /\ Tagged'
  <2>1. /\ \/ handler_box' = handler_box
           \/ handler_box' = Append(handler_box, DownNode(t[1]))
           \/ \E right \in BOOLEAN : handler_box' = Append(handler_box, ReceivePacket(t, right))
        /\ UNCHANGED <<nodes, streams, recvs, accept, stream>>
    BY <1>9
    DEF OnThread, ForwardHandshake, TaskStep, AskPromotion, Greet, Refuse, Answer, TakeDown,
        ToHandler, schedVars, nodeVars, streamVars
  <2>2. t[1] \in Node
    BY DEF Task
  <2> QED
    BY <1>2, <2>1, <2>2, StaysTagged
<1>10. CASE OnThread(HandlerStep)
  <2>1. /\ handler_box # <<>> /\ handler_box' = Tail(handler_box)
        /\ UNCHANGED <<nodes, streams, recvs, accept, stream>>
    BY <1>10
    DEF OnThread, HandlerStep, HandleHandshake, HandleDown, HandlerTakes, schedVars,
        nodeVars, streamVars
  <2> QED
    BY <1>2, <2>1, StaysTagged
<1>11. CASE OnThread(SchedulerStep)
  <2> DEFINE n == Head(sched_box).of
  <2>1. UNCHANGED <<streams, recvs, stream, handler_box>> /\ sched_box # <<>>
    BY <1>11
    DEF OnThread, SchedulerStep, TakeNewNode, TakeRemoveNode, TakeHandshake, TakeExists,
        SchedulerTakes, streamVars
  <2>2. n \in Node
    BY <1>1, <2>1, PositionsTaken DEF SchedulerIssue
  <2>3. CASE TakeNewNode
    <3>1. accept[n] = "registering" /\ accept' = [accept EXCEPT ![n] = "registered"]
      BY <2>3 DEF TakeNewNode, Loops
    <3>2. streams[n] > 0
      BY <2>2, <3>1 DEF NInv, Announcements
    <3>3. DOMAIN nodes' \subseteq DOMAIN nodes \cup {n}
      BY <2>2, <2>3, Registers DEF TakeNewNode, schedVars, NInv
    <3>4. \A m \in Node : accept'[m] = "found" => accept[m] = "found"
      BY <1>1, <3>1
    <3> QED
      BY <2>1, <3>2, <3>3, <3>4, StaysOpened, StaysTagged
  <2>4. CASE TakeRemoveNode
    <3>1. DOMAIN nodes' \subseteq DOMAIN nodes /\ accept' = accept
      BY <2>2, <2>4, Unregisters DEF TakeRemoveNode, schedVars, NInv
    <3> QED
      BY <2>1, <3>1, StaysOpened, StaysTagged
  <2>5. CASE TakeHandshake
    <3>1. DOMAIN nodes' \subseteq DOMAIN nodes /\ accept' = accept
      BY <2>2, <2>5, Promotes DEF TakeHandshake, schedVars, NInv
    <3> QED
      BY <2>1, <3>1, StaysOpened, StaysTagged
  <2>6. CASE TakeExists
    <3>1. /\ accept' = [accept EXCEPT ![n] = IF n \in DOMAIN nodes THEN "found" ELSE "refused"]
          /\ nodes' = nodes
      BY <2>6 DEF TakeExists, Loops, schedVars
    <3>2. n \in DOMAIN nodes => streams[n] > 0
      BY <2>2 DEF Opened, Opening
    <3>3. \A m \in Node : accept'[m] = "found" => accept[m] = "found" \/ streams[m] > 0
      BY <1>1, <3>1, <3>2
    <3> QED
      BY <2>1, <3>1, <3>3, StaysOpened, StaysTagged
  <2> QED
    BY <1>11, <2>3, <2>4, <2>5, <2>6 DEF OnThread, SchedulerStep
<1>12. CASE OnThread(ConnectionStep)
  <2>1. UNCHANGED <<nodes, streams, recvs, stream, handler_box>>
    BY <1>12
    DEF OnThread, ConnectionStep, HandleNewStream, HandleSend, HandleDelete,
        ConnectionPanics, ConnectionTakes, schedVars, streamVars
  <2>2. \A m \in Node : accept'[m] = "found" => accept[m] = "found"
    BY <1>1, <1>12
    DEF OnThread, ConnectionStep, HandleNewStream, HandleSend, HandleDelete,
        ConnectionPanics, Loops
  <2> QED
    BY <2>1, <2>2, StaysOpened, StaysTagged
<1> QED
  BY <1>3, <1>4, <1>5, <1>6, <1>7, <1>8, <1>9, <1>10, <1>11, <1>12
  DEF Next, AcceptStep, OnThread

-----------------------------------------------------------------------------
(* The refinement mapping, step by step: the mailboxes.                    *)

(* This is how Master gets to see the messages of HandlerService           *)
LEMMA PacketsSeen ==
  ASSUME NEW S, NEW b \in Seq(S)
  PROVE  /\ \A m \in S : Packets(Append(b, m)) = Append(Packets(b), Packet(m))
         /\ b # <<>> => /\ Packets(b) # <<>> /\ Head(Packets(b)) = Packet(Head(b))
                        /\ Tail(Packets(b)) = Packets(Tail(b))
<1> DEFINE T == {Packet(m) : m \in S}
           g == [m \in S |-> Packet(m)]
<1>1. g \in [S -> T] /\ \A m \in S : g[m] = Packet(m)
  OBVIOUS
<1>2. \A c \in Seq(S) : Packets(c) = Mapped(g, c)
  <2> SUFFICES ASSUME NEW c \in Seq(S) PROVE Packets(c) = Mapped(g, c)
    OBVIOUS
  <2>1. \A i \in DOMAIN c : c[i] \in S
    OBVIOUS
  <2> HIDE DEF g
  <2> QED
    BY <1>1, <2>1 DEF Packets, Mapped
<1> HIDE DEF g, T
<1>3. ASSUME NEW m \in S PROVE Packets(Append(b, m)) = Append(Packets(b), Packet(m))
  <2>1. Append(b, m) \in Seq(S)
    OBVIOUS
  <2>2. Packets(Append(b, m)) = Mapped(g, Append(b, m)) /\ Packets(b) = Mapped(g, b)
    BY <1>2, <2>1
  <2>3. Mapped(g, Append(b, m)) = Append(Mapped(g, b), g[m])
    BY <1>1, Zenon, MappedAppended
  <2>4. g[m] = Packet(m)
    BY <1>1
  <2> QED
    BY <2>2, <2>3, <2>4
<1>4. ASSUME b # <<>>
      PROVE  /\ Packets(b) # <<>> /\ Head(Packets(b)) = Packet(Head(b))
             /\ Tail(Packets(b)) = Packets(Tail(b))
  <2>1. Tail(b) \in Seq(S) /\ Head(b) \in S
    BY <1>4
  <2>2. Packets(b) = Mapped(g, b) /\ Packets(Tail(b)) = Mapped(g, Tail(b))
    BY <1>2, <2>1
  <2>3. /\ Mapped(g, b) # <<>> /\ Head(Mapped(g, b)) = g[Head(b)]
        /\ Tail(Mapped(g, b)) = Mapped(g, Tail(b))
    BY <1>1, <1>4, Zenon, MappedTaken
  <2>4. g[Head(b)] = Packet(Head(b))
    BY <1>1, <2>1
  <2> QED
    BY <2>2, <2>3, <2>4
<1> QED
  BY <1>3, <1>4

(* and those of the scheduler.                                             *)
LEMMA IssuesSeen ==
  ASSUME NEW S, NEW b \in Seq(S)
  PROVE  /\ \A m \in S : Issues(Append(b, m)) = Append(Issues(b), Issue(m))
         /\ b # <<>> => /\ Issues(b) # <<>> /\ Head(Issues(b)) = Issue(Head(b))
                        /\ Tail(Issues(b)) = Issues(Tail(b))
<1> DEFINE T == {Issue(m) : m \in S}
           g == [m \in S |-> Issue(m)]
<1>1. g \in [S -> T] /\ \A m \in S : g[m] = Issue(m)
  OBVIOUS
<1>2. \A c \in Seq(S) : Issues(c) = Mapped(g, c)
  <2> SUFFICES ASSUME NEW c \in Seq(S) PROVE Issues(c) = Mapped(g, c)
    OBVIOUS
  <2>1. \A i \in DOMAIN c : c[i] \in S
    OBVIOUS
  <2> HIDE DEF g
  <2> QED
    BY <1>1, <2>1 DEF Issues, Mapped
<1> HIDE DEF g, T
<1>3. ASSUME NEW m \in S PROVE Issues(Append(b, m)) = Append(Issues(b), Issue(m))
  <2>1. Append(b, m) \in Seq(S)
    OBVIOUS
  <2>2. Issues(Append(b, m)) = Mapped(g, Append(b, m)) /\ Issues(b) = Mapped(g, b)
    BY <1>2, <2>1
  <2>3. Mapped(g, Append(b, m)) = Append(Mapped(g, b), g[m])
    BY <1>1, Zenon, MappedAppended
  <2>4. g[m] = Issue(m)
    BY <1>1
  <2> QED
    BY <2>2, <2>3, <2>4
<1>4. ASSUME b # <<>>
      PROVE  /\ Issues(b) # <<>> /\ Head(Issues(b)) = Issue(Head(b))
             /\ Tail(Issues(b)) = Issues(Tail(b))
  <2>1. Tail(b) \in Seq(S) /\ Head(b) \in S
    BY <1>4
  <2>2. Issues(b) = Mapped(g, b) /\ Issues(Tail(b)) = Mapped(g, Tail(b))
    BY <1>2, <2>1
  <2>3. /\ Mapped(g, b) # <<>> /\ Head(Mapped(g, b)) = g[Head(b)]
        /\ Tail(Mapped(g, b)) = Mapped(g, Tail(b))
    BY <1>1, <1>4, Zenon, MappedTaken
  <2>4. g[Head(b)] = Issue(Head(b))
    BY <1>1, <2>1
  <2> QED
    BY <2>2, <2>3, <2>4
<1> QED
  BY <1>3, <1>4

-----------------------------------------------------------------------------
(* What Master sees of the mailboxes of a session.                         *)

(* A message that changes the scheduler is sent, or a question is;         *)
LEMMA SchedBoxSent ==
  ASSUME Typed, NEW m \in SchedulerIssue, sched_box' = Append(sched_box, m)
  PROVE  SchedBox' = IF m.issue = "Exists" THEN SchedBox ELSE Append(SchedBox, Issue(m))
<1>1. sched_box \in Seq(SchedulerIssue)
  BY DEF Typed
<1>2. m \in Changes <=> m.issue # "Exists"
  BY DEF Changes
<1>3. Kept(sched_box', Changes) = IF m \in Changes THEN Append(Kept(sched_box, Changes), m)
                                                   ELSE Kept(sched_box, Changes)
  BY <1>1, KeptAppended
<1>4. Kept(sched_box, Changes) \in Seq(SchedulerIssue \cap Changes)
  BY <1>1, KeptIs
<1>5. m \in Changes =>
        Issues(Append(Kept(sched_box, Changes), m)) = Append(SchedBox, Issue(m))
  BY <1>4, IssuesSeen DEF SchedBox
<1>6. SchedBox' = Issues(Kept(sched_box', Changes))
  BY DEF SchedBox, Changes
<1> QED
  BY <1>2, <1>3, <1>5, <1>6 DEF SchedBox

(* it is taken, or the question is.                                        *)
LEMMA SchedBoxTaken ==
  ASSUME Typed, sched_box # <<>>, sched_box' = Tail(sched_box)
  PROVE  IF Head(sched_box).issue = "Exists" THEN SchedBox' = SchedBox
         ELSE /\ SchedBox # <<>> /\ SchedBox' = Tail(SchedBox)
              /\ Head(SchedBox) = Issue(Head(sched_box))
<1>1. sched_box \in Seq(SchedulerIssue) /\ Head(sched_box) \in SchedulerIssue
  <2>1. sched_box \in Seq(SchedulerIssue)
    BY DEF Typed
  <2> QED
    BY <2>1
<1>2. Head(sched_box) \in Changes <=> Head(sched_box).issue # "Exists"
  BY <1>1 DEF Changes
<1> DEFINE c == Kept(sched_box, Changes)
<1>3. IF Head(sched_box) \in Changes
      THEN c # <<>> /\ Head(c) = Head(sched_box) /\ Tail(c) = Kept(sched_box', Changes)
      ELSE c = Kept(sched_box', Changes)
  BY <1>1, KeptTaken
<1>4. c \in Seq(SchedulerIssue \cap Changes)
  BY <1>1, KeptIs
<1>5. SchedBox' = Issues(Kept(sched_box', Changes)) /\ SchedBox = Issues(c)
  BY DEF SchedBox, Changes
<1> HIDE DEF c
<1>6. c # <<>> => /\ Issues(c) # <<>> /\ Head(Issues(c)) = Issue(Head(c))
                  /\ Tail(Issues(c)) = Issues(Tail(c))
  BY <1>4, IssuesSeen
<1> QED
  BY <1>2, <1>3, <1>5, <1>6

(* HandlerService is sent a message,                                       *)
LEMMA HandlerBoxSent ==
  ASSUME Typed, ~blocked, ~blocked', NEW m \in HandlerMessage,
         handler_box' = Append(handler_box, m)
  PROVE  HandlerBox' = Append(HandlerBox, Packet(m))
BY PacketsSeen DEF Typed, HandlerBox, Handled

(* takes one,                                                              *)
LEMMA HandlerBoxTaken ==
  ASSUME Typed, ~blocked, ~blocked', handler_box # <<>>, handler_box' = Tail(handler_box)
  PROVE  /\ HandlerBox # <<>> /\ HandlerBox' = Tail(HandlerBox)
         /\ Head(HandlerBox) = Packet(Head(handler_box))
BY PacketsSeen DEF Typed, HandlerBox, Handled

(* or is asked by a thread that waits for the answer for good.             *)
LEMMA HandlerBoxBlocked ==
  ASSUME Typed, ~blocked, blocked', NEW m \in HandlerMessage,
         handler_box' = Append(handler_box, m)
  PROVE  HandlerBox' = HandlerBox
<1>1. handler_box \in Seq(HandlerMessage)
  BY DEF Typed
<1>2. SubSeq(Append(handler_box, m), 1, Len(Append(handler_box, m)) - 1) = handler_box
  <2> DEFINE b == handler_box
             c == SubSeq(Append(b, m), 1, Len(Append(b, m)) - 1)
  <2> HIDE DEF b
  <2>1. b \in Seq(HandlerMessage)
    BY <1>1 DEF b
  <2>2. /\ Len(Append(b, m)) - 1 = Len(b) /\ Append(b, m) \in Seq(HandlerMessage)
        /\ \A i \in 1 .. Len(b) : Append(b, m)[i] = b[i]
    BY <2>1
  <2>3. c \in Seq(HandlerMessage) /\ Len(c) = Len(b) /\ \A i \in 1 .. Len(b) : c[i] = b[i]
    BY <2>1, <2>2
  <2> HIDE DEF c
  <2>4. c = b
    BY <2>1, <2>3, SameSeq
  <2> QED
    BY <2>4 DEF b, c
<1>3. Handled' = handler_box /\ Handled = handler_box
  BY <1>2 DEF Handled
<1> QED
  BY <1>3 DEF HandlerBox

-----------------------------------------------------------------------------
(* How many handshakes of a node are where.                                *)
Group(n, S) == {t \in Task : t[1] = n /\ task[t] \in S}

LEMMA TasksOfNode ==
  ASSUME NEW n \in Node
  PROVE  /\ IsFiniteSet({t \in Task : t[1] = n})
         /\ Cardinality({t \in Task : t[1] = n}) = MaxHandshake
<1>1. MaxHandshake \in Nat
  BY BoundAssumption
<1>2. {t \in Task : t[1] = n} = {n} \X (1 .. MaxHandshake)
  BY DEF Task
<1>3. IsFiniteSet(1 .. MaxHandshake) /\ Cardinality(1 .. MaxHandshake) = MaxHandshake
  BY <1>1, FS_Interval
<1>4. IsFiniteSet({n}) /\ Cardinality({n}) = 1
  BY FS_Singleton
<1>5. /\ IsFiniteSet({n} \X (1 .. MaxHandshake))
      /\ Cardinality({n} \X (1 .. MaxHandshake)) = 1 * MaxHandshake
  <2>1. /\ IsFiniteSet({n} \X (1 .. MaxHandshake))
        /\ Cardinality({n} \X (1 .. MaxHandshake)) =
             Cardinality({n}) * Cardinality(1 .. MaxHandshake)
    BY <1>3, <1>4, FS_Product
  <2> QED
    BY <1>3, <1>4, <2>1
<1> DEFINE A == {t \in Task : t[1] = n}
<1>6. A = {n} \X (1 .. MaxHandshake)
  BY <1>2
<1> HIDE DEF A
<1>7. IsFiniteSet(A) /\ Cardinality(A) = 1 * MaxHandshake
  BY <1>5, <1>6
<1>8. IsFiniteSet(A) /\ Cardinality(A) = MaxHandshake
  BY <1>1, <1>7
<1> QED
  BY <1>8 DEF A

LEMMA GroupCounts ==
  ASSUME NEW n \in Node, NEW S
  PROVE  /\ IsFiniteSet(Group(n, S)) /\ Tasks(n, S) = Cardinality(Group(n, S))
         /\ Tasks(n, S) \in Nat /\ Tasks(n, S) <= MaxHandshake
<1> DEFINE A == {t \in Task : t[1] = n}
<1>1. Group(n, S) \in SUBSET A /\ IsFiniteSet(A) /\ Cardinality(A) = MaxHandshake
  BY TasksOfNode DEF Group
<1> HIDE DEF A
<1>2. /\ IsFiniteSet(Group(n, S)) /\ Cardinality(Group(n, S)) \in Nat
      /\ Cardinality(Group(n, S)) <= MaxHandshake
  BY <1>1, FS_Subset, FS_CardinalityType
<1> QED
  BY <1>2 DEF Group, Tasks

(* When no handshake enters or leaves, their number stays.                 *)
LEMMA TasksAlike ==
  ASSUME NEW n, NEW S, \A t \in Task : t[1] = n => (task'[t] \in S <=> task[t] \in S)
  PROVE  Tasks(n, S)' = Tasks(n, S)
<1>1. {t \in Task : t[1] = n /\ task'[t] \in S} = {t \in Task : t[1] = n /\ task[t] \in S}
  OBVIOUS
<1> QED
  BY <1>1 DEF Tasks

(* One that has not been in a group and is adds one to it,                 *)
LEMMA TasksEnter ==
  ASSUME NEW t \in Task, NEW S, task[t] \notin S, task'[t] \in S,
         \A u \in Task : u # t => (task'[u] \in S <=> task[u] \in S)
  PROVE  /\ Tasks(t[1], S) \in Nat
         /\ Tasks(t[1], S)' = Tasks(t[1], S) + 1
         /\ \A n \in Node : n # t[1] => Tasks(n, S)' = Tasks(n, S)
<1>1. t[1] \in Node
  BY DEF Task
<1>2. Group(t[1], S)' = Group(t[1], S) \cup {t} /\ t \notin Group(t[1], S)
  BY DEF Group
<1>3. IsFiniteSet(Group(t[1], S)) /\ Tasks(t[1], S) = Cardinality(Group(t[1], S))
      /\ Tasks(t[1], S) \in Nat
  BY <1>1, GroupCounts
<1>4. Tasks(t[1], S)' = Cardinality(Group(t[1], S)')
  BY DEF Tasks, Group
<1>5. Cardinality(Group(t[1], S) \cup {t}) = Cardinality(Group(t[1], S)) + 1
  BY <1>2, <1>3, FS_AddElement
<1>6. ASSUME NEW n \in Node, n # t[1]
      PROVE  Tasks(n, S)' = Tasks(n, S)
  <2>1. \A u \in Task : u[1] = n => (task'[u] \in S <=> task[u] \in S)
    BY <1>6
  <2> QED
    BY <2>1, TasksAlike
<1> QED
  BY <1>2, <1>3, <1>4, <1>5, <1>6

(* and one that has been in it and is not takes one from it.               *)
LEMMA TasksLeave ==
  ASSUME NEW t \in Task, NEW S, task[t] \in S, task'[t] \notin S,
         \A u \in Task : u # t => (task'[u] \in S <=> task[u] \in S)
  PROVE  /\ Tasks(t[1], S) \in Nat /\ Tasks(t[1], S)' \in Nat
         /\ Tasks(t[1], S) = Tasks(t[1], S)' + 1
         /\ \A n \in Node : n # t[1] => Tasks(n, S)' = Tasks(n, S)
<1>1. t[1] \in Node
  BY DEF Task
<1>2. Group(t[1], S)' = Group(t[1], S) \ {t} /\ t \in Group(t[1], S)
  BY DEF Group
<1>3. IsFiniteSet(Group(t[1], S)) /\ Tasks(t[1], S) = Cardinality(Group(t[1], S))
      /\ Tasks(t[1], S) \in Nat
  BY <1>1, GroupCounts
<1>4. Tasks(t[1], S)' = Cardinality(Group(t[1], S)')
  BY DEF Tasks, Group
<1>5. /\ Cardinality(Group(t[1], S) \ {t}) = Cardinality(Group(t[1], S)) - 1
      /\ Cardinality(Group(t[1], S) \ {t}) \in Nat
  BY <1>2, <1>3, FS_RemoveElement, FS_CardinalityType
<1>6. ASSUME NEW n \in Node, n # t[1]
      PROVE  Tasks(n, S)' = Tasks(n, S)
  <2>1. \A u \in Task : u[1] = n => (task'[u] \in S <=> task[u] \in S)
    BY <1>6
  <2> QED
    BY <2>1, TasksAlike
<1>7. Tasks(t[1], S)' = Cardinality(Group(t[1], S) \ {t})
  BY <1>2, <1>4
<1> QED
  <2> DEFINE c == Cardinality(Group(t[1], S))
  <2>1. /\ Tasks(t[1], S) = c /\ c \in Nat /\ Tasks(t[1], S)' = c - 1 /\ c - 1 \in Nat
    BY <1>3, <1>5, <1>7
  <2> HIDE DEF c
  <2> QED
    BY <1>6, <2>1

-----------------------------------------------------------------------------
(* What Master sees of the handshakes.                                     *)
Acting == {"right", "wrong", "refusing", "refused"}

\* No handshake is sent, and none starts or is done.
Quiet == \A t \in Task : /\ task'[t] = "none" <=> task[t] = "none"
                         /\ task'[t] \in Acting <=> task[t] \in Acting

LEMMA TasksUnseen == Quiet => Handshakes' = Handshakes /\ Unfinished' = Unfinished
<1> SUFFICES ASSUME Quiet PROVE Handshakes' = Handshakes /\ Unfinished' = Unfinished
  OBVIOUS
<1>1. \A n \in Node : Tasks(n, {"none"})' = Tasks(n, {"none"})
  <2>1. \A t \in Task : task'[t] \in {"none"} <=> task[t] \in {"none"}
    BY DEF Quiet
  <2> QED
    BY <2>1, TasksAlike
<1>2. \A n \in Node : Tasks(n, Acting)' = Tasks(n, Acting)
  <2>1. \A t \in Task : task'[t] \in Acting <=> task[t] \in Acting
    BY DEF Quiet
  <2> QED
    BY <2>1, TasksAlike
<1> QED
  BY <1>1, <1>2 DEF Handshakes, Unfinished, Acting

LEMMA TasksSeen ==
  /\ Handshakes \in [Node -> Int] /\ Unfinished \in [Node -> Nat]
  /\ \A n \in Node : /\ Handshakes[n] = MaxHandshake - Tasks(n, {"none"})
                     /\ Unfinished[n] = Tasks(n, Acting)
<1>1. MaxHandshake \in Nat
  BY BoundAssumption
<1>2. \A n \in Node : Tasks(n, {"none"}) \in Nat /\ Tasks(n, Acting) \in Nat
  BY GroupCounts
<1> QED
  BY <1>1, <1>2 DEF Handshakes, Unfinished, Acting

(* A handshake is sent: one more than before.                              *)
LEMMA TaskSent ==
  ASSUME Typed, NEW t \in Task, Goes(t, "none", "sent")
  PROVE  /\ Handshakes[t[1]] < MaxHandshake
         /\ Handshakes' = [Handshakes EXCEPT ![t[1]] = @ + 1]
         /\ Unfinished' = Unfinished
<1>1. /\ task[t] = "none" /\ task'[t] = "sent"
      /\ \A u \in Task : u # t => task'[u] = task[u]
  BY DEF Typed, Goes
<1>2. MaxHandshake \in Nat /\ t[1] \in Node
  BY BoundAssumption DEF Task
<1>3. PICK k \in Nat :
        /\ Tasks(t[1], {"none"}) = k + 1 /\ Tasks(t[1], {"none"})' = k
        /\ \A n \in Node : n # t[1] => Tasks(n, {"none"})' = Tasks(n, {"none"})
  <2>1. task[t] \in {"none"} /\ task'[t] \notin {"none"}
    BY <1>1
  <2>2. \A u \in Task : u # t => (task'[u] \in {"none"} <=> task[u] \in {"none"})
    BY <1>1
  <2>3. /\ Tasks(t[1], {"none"}) \in Nat /\ Tasks(t[1], {"none"})' \in Nat
        /\ Tasks(t[1], {"none"}) = Tasks(t[1], {"none"})' + 1
        /\ \A n \in Node : n # t[1] => Tasks(n, {"none"})' = Tasks(n, {"none"})
    BY <2>1, <2>2, TasksLeave
  <2> QED
    BY <2>3
<1>4. Handshakes' = [n \in Node |-> MaxHandshake - Tasks(n, {"none"})']
  BY DEF Handshakes
<1>5. \A n \in Node : Tasks(n, {"none"}) \in Nat
  BY GroupCounts
<1>6. Handshakes' = [Handshakes EXCEPT ![t[1]] = @ + 1]
  <2>1. MaxHandshake - k = (MaxHandshake - (k + 1)) + 1
    BY <1>2
  <2> QED
    BY <1>2, <1>3, <1>4, <2>1 DEF Handshakes
<1>7. Handshakes[t[1]] < MaxHandshake
  <2>1. Handshakes[t[1]] = MaxHandshake - (k + 1)
    BY <1>2, <1>3 DEF Handshakes
  <2> QED
    BY <1>2, <2>1
<1>8. \A n \in Node : Tasks(n, Acting)' = Tasks(n, Acting)
  <2>1. \A u \in Task : task'[u] \in Acting <=> task[u] \in Acting
    BY <1>1 DEF Acting
  <2> QED
    BY <2>1, TasksAlike
<1> QED
  BY <1>6, <1>7, <1>8 DEF Unfinished, Acting

(* Its task starts,                                                        *)
LEMMA TaskStarts ==
  ASSUME Typed, NEW t \in Task,
         Goes(t, "sent", "right") \/ Goes(t, "sent", "wrong")
  PROVE  /\ Handshakes' = Handshakes
         /\ Unfinished' = [Unfinished EXCEPT ![t[1]] = @ + 1]
<1>1. /\ task[t] = "sent" /\ task'[t] \in {"right", "wrong"}
      /\ \A u \in Task : u # t => task'[u] = task[u]
  BY DEF Typed, Goes
<1>2. t[1] \in Node
  BY DEF Task
<1>3. /\ Tasks(t[1], Acting)' = Tasks(t[1], Acting) + 1
      /\ \A n \in Node : n # t[1] => Tasks(n, Acting)' = Tasks(n, Acting)
  <2>1. task[t] \notin Acting /\ task'[t] \in Acting
    BY <1>1 DEF Acting
  <2>2. \A u \in Task : u # t => (task'[u] \in Acting <=> task[u] \in Acting)
    BY <1>1
  <2> QED
    BY <2>1, <2>2, TasksEnter
<1>4. Unfinished' = [n \in Node |-> Tasks(n, Acting)']
  BY DEF Unfinished, Acting
<1>5. Unfinished' = [Unfinished EXCEPT ![t[1]] = @ + 1]
  BY <1>2, <1>3, <1>4 DEF Unfinished, Acting
<1>6. \A n \in Node : Tasks(n, {"none"})' = Tasks(n, {"none"})
  <2>1. \A u \in Task : task'[u] \in {"none"} <=> task[u] \in {"none"}
    BY <1>1
  <2> QED
    BY <2>1, TasksAlike
<1> QED
  BY <1>5, <1>6 DEF Handshakes

(* or is done.                                                             *)
LEMMA TaskDone ==
  ASSUME Typed, NEW t \in Task,
         Goes(t, "right", "promoting") \/ Goes(t, "refused", "down")
  PROVE  /\ Handshakes' = Handshakes
         /\ Unfinished[t[1]] > 0
         /\ Unfinished' = [Unfinished EXCEPT ![t[1]] = @ - 1]
<1>1. /\ task[t] \in {"right", "refused"} /\ task'[t] \in {"promoting", "down"}
      /\ \A u \in Task : u # t => task'[u] = task[u]
  BY DEF Typed, Goes
<1>2. t[1] \in Node
  BY DEF Task
<1>3. PICK k \in Nat :
        /\ Tasks(t[1], Acting) = k + 1 /\ Tasks(t[1], Acting)' = k
        /\ \A n \in Node : n # t[1] => Tasks(n, Acting)' = Tasks(n, Acting)
  <2>1. task[t] \in Acting /\ task'[t] \notin Acting
    BY <1>1 DEF Acting
  <2>2. \A u \in Task : u # t => (task'[u] \in Acting <=> task[u] \in Acting)
    BY <1>1
  <2>3. /\ Tasks(t[1], Acting) \in Nat /\ Tasks(t[1], Acting)' \in Nat
        /\ Tasks(t[1], Acting) = Tasks(t[1], Acting)' + 1
        /\ \A n \in Node : n # t[1] => Tasks(n, Acting)' = Tasks(n, Acting)
    BY <2>1, <2>2, TasksLeave
  <2> QED
    BY <2>3
<1>4. Unfinished' = [n \in Node |-> Tasks(n, Acting)']
  BY DEF Unfinished, Acting
<1>5. Unfinished[t[1]] = k + 1
  BY <1>2, <1>3 DEF Unfinished, Acting
<1>6. Unfinished' = [Unfinished EXCEPT ![t[1]] = @ - 1]
  <2>1. k = (k + 1) - 1
    OBVIOUS
  <2> QED
    BY <1>2, <1>3, <1>4, <2>1 DEF Unfinished, Acting
<1>7. \A n \in Node : Tasks(n, {"none"})' = Tasks(n, {"none"})
  <2>1. \A u \in Task : task'[u] \in {"none"} <=> task[u] \in {"none"}
    BY <1>1
  <2> QED
    BY <2>1, TasksAlike
<1> QED
  BY <1>5, <1>6, <1>7 DEF Handshakes

(* At first none was sent.                                                 *)
LEMMA TasksInit ==
  ASSUME task = [t \in Task |-> "none"]
  PROVE  /\ Handshakes = [n \in Node |-> 0] /\ Unfinished = [n \in Node |-> 0]
<1>1. \A n \in Node : Tasks(n, {"none"}) = MaxHandshake
  <2> SUFFICES ASSUME NEW n \in Node PROVE Tasks(n, {"none"}) = MaxHandshake
    OBVIOUS
  <2>1. {t \in Task : t[1] = n /\ task[t] \in {"none"}} = {t \in Task : t[1] = n}
    OBVIOUS
  <2> QED
    BY <2>1, TasksOfNode DEF Tasks
<1>2. \A n \in Node : Tasks(n, Acting) = 0
  <2> SUFFICES ASSUME NEW n \in Node PROVE Tasks(n, Acting) = 0
    OBVIOUS
  <2>1. {t \in Task : t[1] = n /\ task[t] \in Acting} = {}
    BY DEF Acting
  <2> QED
    BY <2>1, FS_EmptySet DEF Tasks
<1>3. MaxHandshake - MaxHandshake = 0
  BY BoundAssumption
<1> QED
  BY <1>1, <1>2, <1>3 DEF Handshakes, Unfinished, Acting

-----------------------------------------------------------------------------
(* Master and NodeSession have the same scheduler.                         *)
LEMMA RegisterSeen ==
  ASSUME NEW n, Sched!Register(n)
  PROVE  Abstract!Sched!Register(n)
BY DEF Sched!Register, Abstract!Sched!Register, Sched!Rebalance, Abstract!Sched!Rebalance,
       Sched!Serve, Abstract!Sched!Serve, Sched!Cardinality, Abstract!Sched!Cardinality,
       Sched!Insert, Abstract!Sched!Insert, Sched!Entry, Abstract!Sched!Entry,
       Sched!Before, Abstract!Sched!Before, Sched!IsTop, Abstract!Sched!IsTop,
       Sched!TimeOf, Abstract!Sched!TimeOf, Sched!Ready, Abstract!Sched!Ready,
       Sched!SizeOf, Abstract!Sched!SizeOf, Sched!IsPlacement, Abstract!Sched!IsPlacement,
       Abstract!Sched!NODE_ZERO, Abstract!Sched!None, Abstract!Sched!Weight

LEMMA PromoteSeen ==
  ASSUME NEW n, Sched!Promote(n)
  PROVE  Abstract!Sched!Promote(n)
BY DEF Sched!Promote, Abstract!Sched!Promote

LEMMA UnregisterSeen ==
  ASSUME NEW n, Sched!Unregister(n)
  PROVE  Abstract!Sched!Unregister(n)
BY DEF Sched!Unregister, Abstract!Sched!Unregister, Sched!Rebalance, Abstract!Sched!Rebalance,
       Sched!Serve, Abstract!Sched!Serve, Sched!Cardinality, Abstract!Sched!Cardinality,
       Sched!Without, Abstract!Sched!Without, Sched!Restrict, Abstract!Sched!Restrict,
       Sched!Entry, Abstract!Sched!Entry, Sched!Before, Abstract!Sched!Before,
       Sched!IsTop, Abstract!Sched!IsTop, Sched!TimeOf, Abstract!Sched!TimeOf,
       Sched!Ready, Abstract!Sched!Ready, Sched!SizeOf, Abstract!Sched!SizeOf,
       Sched!IsPlacement, Abstract!Sched!IsPlacement,
       Abstract!Sched!NODE_ZERO, Abstract!Sched!None, Abstract!Sched!Weight

(* At first the scheduler and the mailboxes are those of Master.           *)
LEMMA InitImplements == Init => Abstract!Init
<1> SUFFICES ASSUME Init PROVE Abstract!Init
  OBVIOUS
<1>1. Abstract!Sched!Init
  BY DEF Init, Sched!Init, Abstract!Sched!Init, Abstract!Sched!None, Abstract!Sched!NODE_ZERO
<1>2. HandlerBox = <<>>
  BY DEF Init, HandlerBox, Handled, Packets
<1>3. SchedBox = <<>>
  <2>1. Kept(<<>>, Changes) = <<>>
    <3>1. <<>> \in Seq({}) /\ Len(<<>>) = 0
      OBVIOUS
    <3>2. At(<<>>, Changes) = {}
      BY DEF At
    <3>3. Cardinality(At(<<>>, Changes)) = 0
      BY <3>2, FS_EmptySet
    <3>4. Kept(<<>>, Changes) \in Seq({} \cap Changes) /\ Len(Kept(<<>>, Changes)) = 0
      BY <3>1, <3>3, KeptIs
    <3> QED
      BY <3>4
  <2>2. sched_box = <<>>
    BY DEF Init
  <2> QED
    BY <2>1, <2>2 DEF SchedBox, Issues
<1>4. Handshakes = [n \in Node |-> 0] /\ Unfinished = [n \in Node |-> 0]
  BY TasksInit DEF Init
<1> QED
  BY <1>1, <1>2, <1>3, <1>4 DEF Init, Abstract!Init

(* No judgement is dispatched, so the scheduler sends no DispatchJudge.    *)
LEMMA NothingSent ==
  ASSUME SchedInv, SchedInv', HandlerBox' = HandlerBox, NEW M, HandlerBox \in Seq(M)
  PROVE  Abstract!Announce
<1>1. dispatched = {} /\ dispatched' = {}
  BY DEF SchedInv, P!IInv, P!Histories
<1>2. Abstract!Cardinality({}) = 0
  BY FS_EmptySet DEF Abstract!Cardinality, Cardinality
<1>3. <<>> \in [1 .. 0 -> {}] /\ DOMAIN <<>> = {}
  OBVIOUS
<1>4. HandlerBox' = HandlerBox \o [i \in DOMAIN <<>> |-> Abstract!DispatchJudge(<<>>[i][1], <<>>[i][2])]
  <2>1. [i \in DOMAIN <<>> |-> Abstract!DispatchJudge(<<>>[i][1], <<>>[i][2])] = <<>>
    BY <1>3
  <2>2. HandlerBox \o <<>> = HandlerBox
    OBVIOUS
  <2> QED
    BY <2>1, <2>2
<1> QED
  BY <1>1, <1>2, <1>3, <1>4 DEF Abstract!Announce

-----------------------------------------------------------------------------
(* The steps Master does not see.                                          *)

(* An answer, or the error in its place, neither starts a task nor ends it. *)
LEMMA AnsweredUnseen ==
  ASSUME NEW t, task[t] \in Stages
  PROVE  /\ Answered(t) = "none" <=> task[t] = "none"
         /\ Answered(t) \in Acting <=> task[t] \in Acting
<1>1. task[t] = "greeting" => Answered(t) = "greeted"
  BY Zenon DEF Answered
<1>2. task[t] = "refusing" => Answered(t) = "refused"
  BY DEF Answered
<1>3. task[t] # "greeting" /\ task[t] # "refusing" => Answered(t) = task[t]
  BY DEF Answered
<1> QED
  BY <1>1, <1>2, <1>3 DEF Acting

(* Nor does a handshake that moves between two such stages.                *)
LEMMA MoveUnseen ==
  ASSUME Typed, NEW t \in Task, NEW from, NEW to, Goes(t, from, to),
         from # "none", to # "none", from \in Acting <=> to \in Acting
  PROVE  Quiet
BY DEF Typed, Goes, Quiet

(* Nothing Master sees changes when mailboxes, streams and tasks stay.     *)
LEMMA Unseen ==
  ASSUME UNCHANGED <<schedVars, streams>>, Quiet, HandlerBox' = HandlerBox, SchedBox' = SchedBox
  PROVE  UNCHANGED Abstract!vars
<1>1. Handshakes' = Handshakes /\ Unfinished' = Unfinished
  BY TasksUnseen
<1> QED
  BY <1>1 DEF Abstract!vars, Abstract!schedVars, schedVars

LEMMA BoxesUnseen ==
  /\ handler_box' = handler_box /\ blocked' = blocked => HandlerBox' = HandlerBox
  /\ sched_box' = sched_box => SchedBox' = SchedBox
BY DEF HandlerBox, Handled, SchedBox, Changes

LEMMA TasksRest == task' = task => Quiet
BY DEF Quiet

(* A connection breaks, a loop goes on, or a StreamActor ends.             *)
LEMMA AsideUnseen ==
  ASSUME \/ \E n \in Node : Lose(n) \/ OnThread(AcceptStep(n))
         \/ \E s \in Stream : OnThread(StreamStep(s))
  PROVE  UNCHANGED Abstract!vars
<1>1. /\ UNCHANGED <<schedVars, streams>> /\ task' = task
      /\ handler_box' = handler_box /\ blocked' = blocked /\ sched_box' = sched_box
  BY DEF Lose, OnThread, AcceptStep, StartStream, StartReceive, RefuseReceive, AcceptEnds,
         StreamStep, StreamSend, StreamDelete, StreamTakes, schedVars, nodeVars
<1> QED
  BY <1>1, TasksRest, BoxesUnseen, Unseen

(* The scheduler is asked whether it has a node,                           *)
LEMMA AcceptReceiveUnseen ==
  ASSUME NInv, NEW n \in Node, OnThread(AcceptReceive(n))
  PROVE  UNCHANGED Abstract!vars
<1>1. /\ UNCHANGED <<schedVars, streams>> /\ task' = task
      /\ handler_box' = handler_box /\ blocked' = blocked
      /\ sched_box' = Append(sched_box, Exists(n))
  BY DEF OnThread, AcceptReceive, ToScheduler
<1>2. SchedBox' = SchedBox
  BY <1>1, Messages, Tags, SchedBoxSent DEF NInv
<1> QED
  BY <1>1, <1>2, TasksRest, BoxesUnseen, Unseen

(* and takes the question.                                                 *)
LEMMA TakeExistsUnseen ==
  ASSUME NInv, OnThread(TakeExists)
  PROVE  UNCHANGED Abstract!vars
<1>1. /\ UNCHANGED <<schedVars, streams>> /\ task' = task
      /\ handler_box' = handler_box /\ blocked' = blocked
      /\ sched_box # <<>> /\ sched_box' = Tail(sched_box) /\ Head(sched_box).issue = "Exists"
  BY DEF OnThread, TakeExists, SchedulerTakes
<1>2. SchedBox' = SchedBox
  BY <1>1, SchedBoxTaken DEF NInv
<1> QED
  BY <1>1, <1>2, TasksRest, BoxesUnseen, Unseen

(* A ping fails: nothing takes its DownNode.                               *)
LEMMA PingUnseen ==
  ASSUME NInv, NEW s \in Stream, ~blocked, Ping(s)
  PROVE  UNCHANGED Abstract!vars
<1>1. /\ UNCHANGED <<schedVars, streams>> /\ task' = task /\ sched_box' = sched_box
      /\ handler_box' = Append(handler_box, DownNode(s[1])) /\ blocked'
  BY DEF Ping, ToHandler, nodeVars
<1>2. DownNode(s[1]) \in HandlerMessage
  BY Messages DEF Stream
<1>3. HandlerBox' = HandlerBox
  BY <1>1, <1>2, HandlerBoxBlocked DEF NInv
<1> QED
  BY <1>1, <1>3, TasksRest, BoxesUnseen, Unseen

(* An answer is sent through ConnectionService,                            *)
LEMMA AnswerUnseen ==
  ASSUME NInv, NEW t \in Task, OnThread(Greet(t)) \/ OnThread(Refuse(t))
  PROVE  UNCHANGED Abstract!vars
<1>1. /\ UNCHANGED <<schedVars, streams>> /\ sched_box' = sched_box
      /\ handler_box' = handler_box /\ blocked' = blocked
  BY DEF OnThread, Greet, Refuse, Answer, nodeVars
<1>2. \/ Goes(t, "promoted", "greeting") \/ Goes(t, "promoted", "greeted")
      \/ Goes(t, "wrong", "refusing") \/ Goes(t, "wrong", "refused")
  BY DEF OnThread, Greet, Refuse, Answer
<1>3. Quiet
  BY <1>2, MoveUnseen DEF NInv, Acting
<1> QED
  BY <1>1, <1>3, BoxesUnseen, Unseen

(* which goes through its mailbox, or dies.                                *)
LEMMA ConnectionUnseen ==
  ASSUME NInv, OnThread(ConnectionStep)
  PROVE  UNCHANGED Abstract!vars
<1>1. /\ UNCHANGED <<schedVars, streams>> /\ sched_box' = sched_box
      /\ handler_box' = handler_box /\ blocked' = blocked
  BY DEF OnThread, ConnectionStep, HandleNewStream, HandleSend, HandleDelete,
         ConnectionPanics, ConnectionTakes
<1>2. task \in [Task -> Stages]
  BY DEF NInv, Typed, Stages
<1>3. CASE task' = task
  BY <1>1, <1>3, TasksRest, BoxesUnseen, Unseen
<1>4. CASE OnThread(HandleSend)
  <2>1. PICK u : task' = [task EXCEPT ![u] = Answered(u)]
    BY <1>4 DEF OnThread, HandleSend
  <2>2. \A t \in Task : task'[t] = task[t] \/ task'[t] = Answered(t)
    BY <1>2, <2>1
  <2>3. Quiet
    BY <1>2, <2>2, AnsweredUnseen DEF Quiet
  <2> QED
    BY <1>1, <2>3, BoxesUnseen, Unseen
<1>5. CASE OnThread(ConnectionPanics)
  <2>1. \A t \in Task : task'[t] = Answered(t)
    BY <1>5 DEF OnThread, ConnectionPanics
  <2>2. Quiet
    BY <1>2, <2>1, AnsweredUnseen DEF Quiet
  <2> QED
    BY <1>1, <2>2, BoxesUnseen, Unseen
<1> QED
  BY <1>3, <1>4, <1>5
  DEF OnThread, ConnectionStep, HandleNewStream, HandleDelete

-----------------------------------------------------------------------------
(* The steps of Master.                                                    *)

(* The messages as Master has them.                                        *)
LEMMA SameMessages ==
  /\ \A t, right : Packet(ReceivePacket(t, right)) = Abstract!ReceiveHandshake(t[1])
  /\ \A n : /\ Packet(DownNode(n)) = Abstract!DownNode(n)
            /\ Issue(NewNode(n)) = Abstract!NewNode(n)
            /\ Issue(RemoveNode(n)) = Abstract!RemoveNode(n)
  /\ \A t : Issue(HandshakeEstablished(t)) = Abstract!HandshakeEstablished(t[1])
BY DEF Packet, Issue, ReceivePacket, DownNode, NewNode, RemoveNode, HandshakeEstablished,
       Abstract!ReceiveHandshake, Abstract!DownNode, Abstract!NewNode, Abstract!RemoveNode,
       Abstract!HandshakeEstablished

(* A bidirectional stream is taken.                                        *)
LEMMA OpensStream ==
  ASSUME NInv, NEW n \in Node, OnThread(AcceptBidirectional(n))
  PROVE  Abstract!OpenStream(n)
<1>1. /\ streams[n] < MaxStream /\ streams' = [streams EXCEPT ![n] = @ + 1]
      /\ UNCHANGED schedVars /\ task' = task
      /\ handler_box' = handler_box /\ blocked' = blocked
      /\ sched_box' = Append(sched_box, NewNode(n))
  BY DEF OnThread, AcceptBidirectional, ToScheduler
<1>2. SchedBox' = Append(SchedBox, Abstract!NewNode(n))
  <2>1. NewNode(n) \in SchedulerIssue /\ NewNode(n).issue # "Exists"
    BY Messages, Tags
  <2>2. SchedBox' = Append(SchedBox, Issue(NewNode(n)))
    BY <1>1, <2>1, SchedBoxSent DEF NInv
  <2> QED
    BY <2>2, SameMessages
<1>3. Handshakes' = Handshakes /\ Unfinished' = Unfinished /\ HandlerBox' = HandlerBox
  BY <1>1, TasksRest, TasksUnseen, BoxesUnseen
<1> QED
  BY <1>1, <1>2, <1>3
  DEF Abstract!OpenStream, Abstract!ToScheduler, Abstract!schedVars, schedVars

(* A handshake is passed on.                                               *)
LEMMA SendsHandshake ==
  ASSUME NInv, Opened, NEW t \in Task, OnThread(ForwardHandshake(t))
  PROVE  Abstract!SendHandshake(t[1])
<1>1. /\ UNCHANGED <<schedVars, streams>> /\ sched_box' = sched_box
      /\ ~blocked /\ ~blocked' /\ Goes(t, "none", "sent")
      /\ recvs[t[1]] > 0 \/ \E k \in 1 .. MaxStream : stream[<<t[1], k>>] = "running"
  BY DEF OnThread, ForwardHandshake, nodeVars
<1>2. PICK right \in BOOLEAN : handler_box' = Append(handler_box, ReceivePacket(t, right))
  BY DEF OnThread, ForwardHandshake, ToHandler
<1>3. t[1] \in Node
  BY DEF Task
<1>4. streams[t[1]] > 0
  BY <1>1, <1>3 DEF Opened, Opening
<1>5. HandlerBox' = Append(HandlerBox, Abstract!ReceiveHandshake(t[1]))
  BY <1>1, <1>2, Messages, SameMessages, HandlerBoxSent DEF NInv
<1>6. /\ Handshakes[t[1]] < MaxHandshake
      /\ Handshakes' = [Handshakes EXCEPT ![t[1]] = @ + 1] /\ Unfinished' = Unfinished
  BY <1>1, TaskSent DEF NInv
<1>7. SchedBox' = SchedBox
  BY <1>1, BoxesUnseen
<1> QED
  BY <1>1, <1>3, <1>4, <1>5, <1>6, <1>7
  DEF Abstract!SendHandshake, Abstract!ToHandler, Abstract!schedVars, schedVars

(* HandlerService takes one,                                               *)
LEMMA HandlesHandshake ==
  ASSUME NInv, Tagged, OnThread(HandleHandshake)
  PROVE  Abstract!HandleHandshake
<1> DEFINE m == Head(handler_box)
           t == m.task
<1>1. /\ UNCHANGED <<schedVars, streams>> /\ sched_box' = sched_box
      /\ ~blocked /\ ~blocked' /\ handler_box # <<>> /\ handler_box' = Tail(handler_box)
      /\ m.msg = "ReceivePacket"
      /\ Goes(t, "sent", "right") \/ Goes(t, "sent", "wrong")
  BY DEF OnThread, HandleHandshake, HandlerTakes, nodeVars
<1>2. handler_box \in Seq(HandlerMessage)
  BY DEF NInv, Typed
<1>3. m \in Content(handler_box) /\ m \in HandlerMessage
  BY <1>1, <1>2, ContentTaken
<1>4. t \in Task /\ m.node = t[1]
  BY <1>1, <1>3 DEF Tagged, HandlerMessage
<1>5. /\ HandlerBox # <<>> /\ HandlerBox' = Tail(HandlerBox)
      /\ Head(HandlerBox) = Packet(m)
  BY <1>1, HandlerBoxTaken DEF NInv
<1>6. Packet(m).msg = "ReceivePacket" /\ Packet(m).node = t[1]
  BY <1>1, <1>4 DEF Packet
<1> HIDE DEF m, t
<1>7. Handshakes' = Handshakes /\ Unfinished' = [Unfinished EXCEPT ![t[1]] = @ + 1]
  BY <1>1, <1>4, TaskStarts DEF NInv
<1>8. SchedBox' = SchedBox
  BY <1>1, BoxesUnseen
<1> QED
  BY <1>1, <1>5, <1>6, <1>7, <1>8
  DEF Abstract!HandleHandshake, Abstract!HandlerTakes, Abstract!schedVars, schedVars

(* or takes a node down.                                                   *)
LEMMA HandlesDown ==
  ASSUME NInv, OnThread(HandleDown)
  PROVE  Abstract!HandleDown
<1> DEFINE m == Head(handler_box)
<1>1. /\ UNCHANGED <<schedVars, streams>> /\ task' = task
      /\ ~blocked /\ ~blocked' /\ handler_box # <<>> /\ handler_box' = Tail(handler_box)
      /\ m.msg = "DownNode" /\ sched_box' = Append(sched_box, RemoveNode(m.node))
  BY DEF OnThread, HandleDown, HandlerTakes, ToScheduler, nodeVars
<1>2. handler_box \in Seq(HandlerMessage)
  BY DEF NInv, Typed
<1>3. m \in HandlerMessage
  BY <1>1, <1>2, ContentTaken, ContentOfSeq
<1>4. m.node \in Node
  BY <1>3 DEF HandlerMessage
<1>5. /\ HandlerBox # <<>> /\ HandlerBox' = Tail(HandlerBox)
      /\ Head(HandlerBox) = Packet(m)
  BY <1>1, HandlerBoxTaken DEF NInv
<1>6. Packet(m).msg = "DownNode" /\ Packet(m).node = m.node
  BY <1>1 DEF Packet
<1> HIDE DEF m
<1>7. Handshakes' = Handshakes /\ Unfinished' = Unfinished
  BY <1>1, TasksRest, TasksUnseen
<1>8. SchedBox' = Append(SchedBox, Abstract!RemoveNode(m.node))
  <2> DEFINE n == m.node
  <2>1. RemoveNode(n) \in SchedulerIssue /\ RemoveNode(n).issue # "Exists"
    BY <1>4, Messages, Tags
  <2>2. SchedBox' = Append(SchedBox, Issue(RemoveNode(n)))
    BY <1>1, <2>1, SchedBoxSent DEF NInv
  <2> QED
    BY <2>2, SameMessages
<1> QED
  BY <1>1, <1>5, <1>6, <1>7, <1>8
  DEF Abstract!HandleDown, Abstract!HandlerTakes, Abstract!ToScheduler, Abstract!schedVars,
      schedVars

(* A handshake task has asked for what it wants, at once or after an answer. *)
LEMMA RunsTask ==
  ASSUME NInv, NEW t \in Task, OnThread(AskPromotion(t)) \/ OnThread(TakeDown(t))
  PROVE  Abstract!RunTask(t[1])
<1>1. /\ UNCHANGED <<schedVars, streams>> /\ ~blocked /\ ~blocked' /\ blocked' = blocked
      /\ \/ /\ Goes(t, "right", "promoting") /\ handler_box' = handler_box
            /\ sched_box' = Append(sched_box, HandshakeEstablished(t))
         \/ /\ Goes(t, "refused", "down") /\ sched_box' = sched_box
            /\ handler_box' = Append(handler_box, DownNode(t[1]))
  BY DEF OnThread, AskPromotion, TakeDown, ToScheduler, ToHandler, nodeVars
<1>2. /\ Handshakes' = Handshakes /\ Unfinished[t[1]] > 0
      /\ Unfinished' = [Unfinished EXCEPT ![t[1]] = @ - 1]
  BY <1>1, TaskDone DEF NInv
<1>3. t[1] \in Node
  BY DEF Task
<1>4. \/ /\ SchedBox' = Append(SchedBox, Abstract!HandshakeEstablished(t[1]))
         /\ HandlerBox' = HandlerBox
      \/ /\ HandlerBox' = Append(HandlerBox, Abstract!DownNode(t[1]))
         /\ SchedBox' = SchedBox
  <2>1. CASE sched_box' = sched_box /\ handler_box' = Append(handler_box, DownNode(t[1]))
    BY <1>1, <1>3, <2>1, Messages, SameMessages, HandlerBoxSent, BoxesUnseen DEF NInv
  <2>2. CASE /\ handler_box' = handler_box
             /\ sched_box' = Append(sched_box, HandshakeEstablished(t))
    <3>1. /\ HandshakeEstablished(t) \in SchedulerIssue
          /\ HandshakeEstablished(t).issue # "Exists"
      BY Messages, Tags
    <3>2. SchedBox' = Append(SchedBox, Issue(HandshakeEstablished(t)))
      BY <2>2, <3>1, SchedBoxSent DEF NInv
    <3>3. HandlerBox' = HandlerBox
      BY <1>1, <2>2, BoxesUnseen
    <3> QED
      BY <3>2, <3>3, SameMessages
  <2> QED
    BY <1>1, <2>1, <2>2
<1> QED
  BY <1>1, <1>2, <1>4
  DEF Abstract!RunTask, Abstract!ToHandler, Abstract!ToScheduler, Abstract!schedVars, schedVars

(* The scheduler takes what changes it.                                    *)
LEMMA SchedulerSeen ==
  ASSUME NInv, NInv', OnThread(TakeNewNode \/ TakeRemoveNode \/ TakeHandshake)
  PROVE  Abstract!TakeNewNode \/ Abstract!TakeRemoveNode \/ Abstract!TakeHandshake
<1> DEFINE m == Head(sched_box)
           n == m.of
           A == Head(SchedBox)
<1>1. /\ UNCHANGED streams /\ handler_box' = handler_box /\ ~blocked /\ blocked' = blocked
      /\ sched_box # <<>> /\ sched_box' = Tail(sched_box) /\ m.issue # "Exists"
  BY DEF OnThread, TakeNewNode, TakeRemoveNode, TakeHandshake, SchedulerTakes
<1>2. SchedBox # <<>> /\ SchedBox' = Tail(SchedBox) /\ A = Issue(m)
  BY <1>1, SchedBoxTaken DEF NInv
<1>3. A.issue = m.issue /\ A.of = n
  BY <1>2 DEF Issue
<1>4. HandlerBox' = HandlerBox /\ HandlerBox \in Seq({Packet(p) : p \in HandlerMessage})
  <2>1. HandlerBox = Packets(handler_box)
    BY <1>1 DEF HandlerBox, Handled
  <2>2. handler_box \in Seq(HandlerMessage)
    BY DEF NInv, Typed
  <2> QED
    BY <1>1, <2>1, <2>2, BoxesUnseen DEF Packets
<1>5. Abstract!Announce
  BY <1>4, NothingSent DEF NInv
<1>6. running
  BY DEF NInv, SchedInv
<1>7. Quiet
  <2>1. task' = task \/ \E t : Goes(t, "promoting", "promoted")
    BY DEF OnThread, TakeNewNode, TakeRemoveNode, TakeHandshake
  <2> QED
    BY <2>1, TasksRest DEF NInv, Typed, Goes, Quiet, Acting
<1>8. Handshakes' = Handshakes /\ Unfinished' = Unfinished
  BY <1>7, TasksUnseen
<1> HIDE DEF A
<1>9. Abstract!SchedulerTakes(m.issue)
  BY <1>1, <1>2, <1>3, <1>6, <1>8 DEF Abstract!SchedulerTakes, A
<1>10. CASE TakeNewNode
  <2>1. m.issue = "NewNode" /\ (Sched!Register(n) \/ (n \in DOMAIN nodes /\ UNCHANGED schedVars))
    BY <1>10 DEF TakeNewNode, SchedulerTakes
  <2>2. Abstract!Sched!Register(n) \/ (n \in DOMAIN nodes /\ UNCHANGED Abstract!schedVars)
    BY <2>1, RegisterSeen DEF Abstract!schedVars, schedVars
  <2> QED
    BY <1>3, <1>5, <1>9, <2>1, <2>2 DEF Abstract!TakeNewNode, A
<1>11. CASE TakeRemoveNode
  <2>1. /\ m.issue = "RemoveNode"
        /\ Sched!Unregister(n) \/ (n \notin DOMAIN nodes /\ UNCHANGED schedVars)
    BY <1>11 DEF TakeRemoveNode, SchedulerTakes
  <2>2. Abstract!Sched!Unregister(n) \/ (n \notin DOMAIN nodes /\ UNCHANGED Abstract!schedVars)
    BY <2>1, UnregisterSeen DEF Abstract!schedVars, schedVars
  <2> QED
    BY <1>3, <1>5, <1>9, <2>1, <2>2 DEF Abstract!TakeRemoveNode, A
<1>12. CASE TakeHandshake
  <2>1. /\ m.issue = "HandshakeEstablished"
        /\ Sched!Promote(n) \/ (n \notin DOMAIN nodes /\ UNCHANGED schedVars)
    BY <1>12 DEF TakeHandshake, SchedulerTakes
  <2>2. Abstract!Sched!Promote(n) \/ (n \notin DOMAIN nodes /\ UNCHANGED Abstract!schedVars)
    BY <2>1, PromoteSeen DEF Abstract!schedVars, schedVars
  <2> QED
    BY <1>3, <1>5, <1>9, <2>1, <2>2 DEF Abstract!TakeHandshake, A
<1> QED
  BY <1>10, <1>11, <1>12 DEF OnThread

-----------------------------------------------------------------------------
(* Every step of a session is one of Master, or Master does not see it.    *)
LEMMA StepImplements ==
  ASSUME NInv, NInv', Opened, Tagged, [Next]_vars
  PROVE  [Abstract!Next]_Abstract!vars
<1>1. CASE UNCHANGED vars
  <2>1. /\ UNCHANGED <<schedVars, streams>> /\ task' = task
        /\ handler_box' = handler_box /\ blocked' = blocked /\ sched_box' = sched_box
    BY <1>1 DEF vars, nodeVars
  <2> QED
    BY <2>1, TasksRest, BoxesUnseen, Unseen
<1>2. ASSUME NEW n \in Node, Lose(n) \/ OnThread(AcceptBidirectional(n) \/ AcceptReceive(n) \/ AcceptStep(n))
      PROVE  Abstract!OpenStream(n) \/ UNCHANGED Abstract!vars
  BY <1>2, AsideUnseen, AcceptReceiveUnseen, OpensStream DEF OnThread
<1>3. ASSUME NEW s \in Stream, OnThread(StreamStep(s)) \/ (~blocked /\ Ping(s))
      PROVE  UNCHANGED Abstract!vars
  BY <1>3, AsideUnseen, PingUnseen
<1>4. ASSUME NEW t \in Task, OnThread(ForwardHandshake(t) \/ TaskStep(t))
      PROVE  \/ \E n \in Node : Abstract!SendHandshake(n) \/ Abstract!RunTask(n)
             \/ UNCHANGED Abstract!vars
  <2>1. t[1] \in Node
    BY DEF Task
  <2> QED
    BY <1>4, <2>1, SendsHandshake, RunsTask, AnswerUnseen DEF OnThread, TaskStep
<1>5. CASE OnThread(HandlerStep)
  BY <1>5, HandlesHandshake, HandlesDown DEF OnThread, HandlerStep, Abstract!Next, Abstract!HandlerStep
<1>6. CASE OnThread(SchedulerStep)
  BY <1>6, SchedulerSeen, TakeExistsUnseen
  DEF OnThread, SchedulerStep, Abstract!Next, Abstract!SchedulerStep
<1>7. CASE OnThread(ConnectionStep)
  BY <1>7, ConnectionUnseen
<1> QED
  BY <1>1, <1>2, <1>3, <1>4, <1>5, <1>6, <1>7 DEF Next, Abstract!Next

(* NodeSession implements Master.                                          *)
THEOREM SessionImplements == Spec => ImplementsMaster
<1>1. Init => Opened /\ Tagged
  BY InitSeen
<1>2. NInv /\ Opened /\ Tagged /\ [Next]_vars => Opened' /\ Tagged'
  BY StepSeen
<1>3. NInv /\ NInv' /\ Opened /\ Tagged /\ [Next]_vars => [Abstract!Next]_Abstract!vars
  BY StepImplements
<1> QED
  BY <1>1, <1>2, <1>3, InitImplements, SessionInductive, PTL
  DEF Spec, ImplementsMaster, Abstract!Spec
=============================================================================
