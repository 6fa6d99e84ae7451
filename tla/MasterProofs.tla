----------------------------- MODULE MasterProofs -----------------------------
(***************************************************************************)
(* Theorems about Master, for every set of nodes and judgements, every     *)
(* bound and every order of messages.  The scheduler in Master keeps to    *)
(* the specification of Scheduler, so what is proved of Scheduler holds of *)
(* it; what the mailboxes hold follows from that.                          *)
(***************************************************************************)
EXTENDS Master, Mailboxes

\* The scheduler with what is proved of it.
P == INSTANCE SchedulerSteps

-----------------------------------------------------------------------------
(* The handlers of the scheduler in Master are those of Scheduler.         *)

USE DEF Sched!NODE_ZERO, P!NODE_ZERO, Sched!None, P!None, Sched!Weight, P!Weight

(* register adds the same queue.                                           *)
LEMMA SameRegister ==
  ASSUME NEW n, Sched!Register(n)
  PROVE  P!Register(n)
BY DEF Sched!Register, P!Register, Sched!Rebalance, P!Rebalance, Sched!Serve, P!Serve,
       Sched!Cardinality, P!Cardinality, Sched!Insert, P!Insert, Sched!Entry, P!Entry,
       Sched!Before, P!Before, Sched!IsTop, P!IsTop, Sched!TimeOf, P!TimeOf,
       Sched!Ready, P!Ready, Sched!SizeOf, P!SizeOf, Sched!IsPlacement, P!IsPlacement

(* promote is written alike in both.                                       *)
LEMMA SamePromote ==
  ASSUME NEW n, Sched!Promote(n)
  PROVE  P!Promote(n)
BY DEF Sched!Promote, P!Promote

(* unregister puts the same queue back.                                    *)
LEMMA SameUnregister ==
  ASSUME NEW n, Sched!Unregister(n)
  PROVE  P!Unregister(n)
BY DEF Sched!Unregister, P!Unregister, Sched!Rebalance, P!Rebalance, Sched!Serve,
       P!Serve, Sched!Cardinality, P!Cardinality, Sched!Without, P!Without,
       Sched!Restrict, P!Restrict, Sched!Entry, P!Entry, Sched!Before, P!Before,
       Sched!IsTop, P!IsTop, Sched!TimeOf, P!TimeOf, Sched!Ready, P!Ready,
       Sched!SizeOf, P!SizeOf, Sched!IsPlacement, P!IsPlacement

(* push serves the same node.                                              *)
LEMMA SamePush ==
  ASSUME NEW j, NEW t, NEW w, Sched!Push(j, t, w)
  PROVE  P!Push(j, t, w)
BY DEF Sched!Push, P!Push, Sched!Serve, P!Serve, Sched!Entry, P!Entry, Sched!Before,
       P!Before, Sched!IsTop, P!IsTop, Sched!IsLeast, P!IsLeast

(* Both mean the same by a finite set,                                     *)
LEMMA SameFinite == \A S : P!IsFiniteSet(S) <=> IsFiniteSet(S)
BY DEF IsFiniteSet, P!IsFiniteSet

(* by an initial state                                                     *)
LEMMA SameInit == Sched!Init => P!Init
BY DEF Sched!Init, P!Init

(* and by the types of the state.                                          *)
LEMMA SameTypes == P!TypeOK => Sched!TypeOK
BY DEF Sched!TypeOK, P!TypeOK, Sched!EntrySet, P!EntrySet

-----------------------------------------------------------------------------
(* The inductive invariant.                                                *)

Boxed ==
  /\ requested \subseteq Judge /\ judge_addrs \subseteq Judge
  /\ starting \subseteq judge_addrs
  /\ streams \in [Node -> Nat] /\ handshakes \in [Node -> Nat]
  /\ \A n \in Node : streams[n] <= MaxStream[n] /\ handshakes[n] <= MaxHandshake[n]
  /\ handler_box \in Seq(HandlerMessage) /\ handler_up \in BOOLEAN
  /\ sched_box \in Seq(SchedulerIssue)
  /\ tasks \in [Node -> Nat]
  /\ reached \subseteq Judge \X Node

\* HandlerService knows what the scheduler has been or will be told of.
Known ==
  /\ submitted \subseteq judge_addrs
  /\ \A m \in Content(sched_box) : m.issue = "NewTask" => m.of \in judge_addrs

\* What HandlerService is told to dispatch was dispatched.
Announced ==
  \A m \in Content(handler_box) :
    m.msg = "DispatchJudge" => <<m.first, m.second>> \in dispatched

MInv ==
  P!IInv /\ IsFiniteSet(submitted) /\ Boxed /\ Known /\ Announced /\ SchedulerSurvives

(* The mailboxes are empty at first.                                       *)
LEMMA InitMInv == Init => MInv
<1> SUFFICES ASSUME Init PROVE MInv
  OBVIOUS
<1>1. P!IInv
  BY P!InitIInv, SameInit, NodeAssumption, JudgeAssumption, TimeAssumption DEF Init
<1>2. Content(<<>>) = {} /\ IsFiniteSet({})
  BY FS_EmptySet DEF Content
<1>3. Boxed
  BY BoundAssumption DEF Init, Boxed
<1>4. submitted = {} /\ running = TRUE
  BY DEF Init, Sched!Init
<1>5. Known /\ Announced /\ SchedulerSurvives
  BY <1>2, <1>4 DEF Init, Known, Announced, SchedulerSurvives
<1> QED
  BY <1>1, <1>2, <1>3, <1>4, <1>5 DEF MInv

-----------------------------------------------------------------------------
(* The steps of the scheduler.                                             *)

\* What the scheduler has handled, of a message m of its mailbox.
Acts(m) ==
  \/ UNCHANGED schedVars
  \/ \E n \in Node : m = NewNode(n) /\ P!Register(n)
  \/ \E n \in Node : m = RemoveNode(n) /\ P!Unregister(n)
  \/ \E n \in Node : m = HandshakeEstablished(n) /\ P!Promote(n)
  \/ \E j \in Judge, t \in TotalTime, w \in P!Weight : m = NewTask(j) /\ P!Push(j, t, w)

(* Each message makes the scheduler act as Scheduler says.                 *)
LEMMA SchedulerActs ==
  ASSUME sched_box \in Seq(SchedulerIssue), SchedulerStep
  PROVE  /\ sched_box # <<>> /\ sched_box' = Tail(sched_box) /\ Announce
         /\ Acts(Head(sched_box))
         /\ UNCHANGED <<requested, streams, handshakes, handler_up, judge_addrs,
                        starting, tasks, reached>>
<1>1. sched_box # <<>> /\ sched_box' = Tail(sched_box)
      /\ UNCHANGED <<requested, streams, handshakes, handler_up, judge_addrs,
                     starting, tasks, reached>>
  BY DEF SchedulerStep, TakeNewNode, TakeRemoveNode, TakeHandshake, TakeTask, SchedulerTakes
<1>2. Head(sched_box) \in SchedulerIssue
  BY <1>1
<1>3. CASE TakeNewNode
  <2>1. PICK n \in Node : n = Head(sched_box).of /\ Head(sched_box) = NewNode(n)
    BY <1>2, <1>3 DEF SchedulerIssue, NewNode, TakeNewNode, SchedulerTakes
  <2>2. (Sched!Register(n) \/ UNCHANGED schedVars) /\ Announce
    BY <1>3, <2>1 DEF TakeNewNode
  <2> QED
    BY <1>1, <2>1, <2>2, SameRegister DEF Acts
<1>4. CASE TakeRemoveNode
  <2>1. PICK n \in Node : n = Head(sched_box).of /\ Head(sched_box) = RemoveNode(n)
    BY <1>2, <1>4 DEF SchedulerIssue, RemoveNode, TakeRemoveNode, SchedulerTakes
  <2>2. (Sched!Unregister(n) \/ UNCHANGED schedVars) /\ Announce
    BY <1>4, <2>1 DEF TakeRemoveNode
  <2> QED
    BY <1>1, <2>1, <2>2, SameUnregister DEF Acts
<1>5. CASE TakeHandshake
  <2>1. PICK n \in Node : n = Head(sched_box).of /\ Head(sched_box) = HandshakeEstablished(n)
    BY <1>2, <1>5 DEF SchedulerIssue, HandshakeEstablished, TakeHandshake, SchedulerTakes
  <2>2. (Sched!Promote(n) \/ UNCHANGED schedVars) /\ Announce
    BY <1>5, <2>1 DEF TakeHandshake
  <2> QED
    BY <1>1, <2>1, <2>2, SamePromote DEF Acts
<1>6. CASE TakeTask
  <2>1. PICK j \in Judge : j = Head(sched_box).of /\ Head(sched_box) = NewTask(j)
    BY <1>2, <1>6 DEF SchedulerIssue, NewTask, TakeTask, SchedulerTakes
  <2>2. Announce /\ \E t \in TotalTime, w \in P!Weight : Sched!Push(j, t, w)
    BY <1>6, <2>1 DEF TakeTask
  <2> QED
    BY <1>1, <2>1, <2>2, SamePush DEF Acts
<1> QED
  BY <1>3, <1>4, <1>5, <1>6 DEF SchedulerStep

(* It keeps its invariant, runs on, dispatches what was submitted, and     *)
(* takes nothing back.                                                     *)
LEMMA SchedulerKeeps ==
  ASSUME P!IInv, IsFiniteSet(submitted), running, NEW m, Acts(m)
  PROVE  /\ P!IInv' /\ running'
         /\ [P!Next]_(P!vars)
         /\ dispatched \subseteq dispatched'
         /\ dispatched' \subseteq submitted' \X Node /\ submitted' \subseteq Judge
         /\ \A j \in submitted' \ submitted : m = NewTask(j)
         /\ IsFiniteSet(submitted') /\ IsFiniteSet(dispatched')
<1>1. [P!Next]_(P!vars)
  BY DEF Acts, P!Next, P!vars, schedVars
<1>2. P!IInv' /\ running'
  <2>1. CASE UNCHANGED schedVars
    BY <1>1, <2>1, P!StepIInv, NodeAssumption, JudgeAssumption, TimeAssumption
    DEF schedVars
  <2> QED
    BY <2>1, P!RegisterIInv, P!UnregisterIInv, P!PromoteIInv, P!PushIInv,
       NodeAssumption, JudgeAssumption, TimeAssumption DEF Acts
<1>3. dispatched \subseteq dispatched'
  <2>1. CASE P!Quiet
    BY <2>1 DEF P!Quiet
  <2>2. CASE \E h, o, free : P!Transfers(h, o, free)
    BY <2>2 DEF P!Transfers, P!Handover, P!Hands, P!Drops
  <2> QED
    BY <1>1, <2>1, <2>2, P!StepTransfers, NodeAssumption, JudgeAssumption, TimeAssumption
<1>4. dispatched' \subseteq submitted' \X Node /\ submitted' \subseteq Judge
  BY <1>2 DEF P!IInv, P!Histories
<1>5. \A j \in submitted' \ submitted : m = NewTask(j)
  BY DEF Acts, schedVars, P!Register, P!Unregister, P!Promote, P!Push
<1>6. IsFiniteSet(submitted')
  BY <1>1, SameFinite, P!StepTransfers, NodeAssumption, JudgeAssumption, TimeAssumption
<1>7. IsFiniteSet(dispatched')
  <2> DEFINE f == [d \in dispatched' |-> d[1]]
  <2>1. \A c, d \in dispatched' : c[1] = d[1] => c[2] = d[2]
    BY <1>2 DEF P!IInv, P!Placed
  <2>2. \A d \in dispatched' : d = <<d[1], d[2]>> /\ d[1] \in submitted'
    BY <1>4
  <2>3. \A c, d \in dispatched' : c[1] = d[1] => c = d
    BY <2>1, <2>2
  <2>4. f \in Injection(dispatched', submitted')
    BY <2>2, <2>3 DEF Injection, IsInjective
  <2> QED
    BY <1>6, <2>4, FS_Injection
<1> QED
  BY <1>1, <1>2, <1>3, <1>4, <1>5, <1>6, <1>7

(* HandlerService is sent what has been dispatched.                        *)
LEMMA AnnounceSends ==
  ASSUME handler_box \in Seq(HandlerMessage), Announce,
         dispatched' \subseteq Judge \X Node, IsFiniteSet(dispatched')
  PROVE  /\ handler_box' \in Seq(HandlerMessage)
         /\ \A m \in Content(handler_box') \ Content(handler_box) :
              \E d \in dispatched' : m = DispatchJudge(d[1], d[2])
<1> DEFINE new == dispatched' \ dispatched
<1>1. PICK sent \in [1 .. Cardinality(new) -> new] :
        handler_box' = IF handler_up
                       THEN handler_box \o
                              [i \in DOMAIN sent |-> DispatchJudge(sent[i][1], sent[i][2])]
                       ELSE handler_box
  BY DEF Announce
<1> DEFINE c == [i \in DOMAIN sent |-> DispatchJudge(sent[i][1], sent[i][2])]
<1>2. DOMAIN sent = 1 .. Cardinality(new) /\ \A i \in DOMAIN sent : sent[i] \in new
  OBVIOUS
<1>3. /\ Content(c) \subseteq {DispatchJudge(d[1], d[2]) : d \in dispatched'}
      /\ \A i \in DOMAIN sent : c[i] \in HandlerMessage
  <2>1. \A d \in dispatched' : DispatchJudge(d[1], d[2]) \in HandlerMessage
    BY DEF DispatchJudge, HandlerMessage
  <2> QED
    BY <1>2, <2>1 DEF Content
<1>4. c \in Seq(HandlerMessage)
  <2>1. Cardinality(new) \in Nat
    BY FS_Subset, FS_CardinalityType
  <2> HIDE DEF new
  <2> QED
    BY <1>2, <1>3, <2>1
<1>5. handler_box' = IF handler_up THEN handler_box \o c ELSE handler_box
  BY <1>1
<1> HIDE DEF c
<1> QED
  BY <1>3, <1>4, <1>5, ContentJoined

-----------------------------------------------------------------------------
(* The steps of the others.                                                *)

(* What does not concern the scheduler leaves its invariant as it is.      *)
LEMMA OthersKeep ==
  ASSUME MInv, UNCHANGED schedVars
  PROVE  P!IInv' /\ IsFiniteSet(submitted')
<1>1. UNCHANGED P!vars
  BY DEF schedVars, P!vars
<1>2. P!IInv'
  BY <1>1, P!StepIInv, NodeAssumption, JudgeAssumption, TimeAssumption DEF MInv
<1> QED
  BY <1>2 DEF MInv, schedVars

(* Sending to HandlerService, whether it lives or not.                     *)
LEMMA Sends ==
  ASSUME handler_box \in Seq(HandlerMessage), handler_up \in BOOLEAN,
         NEW m \in HandlerMessage, ToHandler(m)
  PROVE  /\ handler_box' \in Seq(HandlerMessage)
         /\ Content(handler_box') \subseteq Content(handler_box) \cup {m}
BY ContentAppended DEF ToHandler

(* Asking the scheduler.                                                   *)
LEMMA Asks ==
  ASSUME sched_box \in Seq(SchedulerIssue), NEW m \in SchedulerIssue, ToScheduler(m)
  PROVE  /\ sched_box' \in Seq(SchedulerIssue)
         /\ Content(sched_box') = Content(sched_box) \cup {m}
BY ContentAppended DEF ToScheduler

(* The messages and issues are of their types.                             *)
LEMMA Typed ==
  /\ \A j \in Judge : NewTask(j) \in SchedulerIssue /\ Request(j) \in HandlerMessage
  /\ \A n \in Node : /\ NewNode(n) \in SchedulerIssue /\ RemoveNode(n) \in SchedulerIssue
                     /\ HandshakeEstablished(n) \in SchedulerIssue
                     /\ ReceiveHandshake(n) \in HandlerMessage
                     /\ DownNode(n) \in HandlerMessage
BY DEF SchedulerIssue, HandlerMessage, NewTask, Request, NewNode, RemoveNode,
       HandshakeEstablished, ReceiveHandshake, DownNode

(* Clients and nodes send what is no dispatch, and no announcement.        *)
LEMMA EnvironmentMInv ==
  ASSUME MInv,
         \/ \E j \in Judge : Submit(j)
         \/ \E n \in Node : OpenStream(n) \/ SendHandshake(n) \/ RunTask(n)
  PROVE  MInv'
<1>1. CASE \E j \in Judge : Submit(j)
  <2>1. PICK j \in Judge : Submit(j)
    BY <1>1
  <2>2. P!IInv' /\ IsFiniteSet(submitted')
    BY <2>1, OthersKeep DEF Submit
  <2>3. Boxed' /\ Announced'
    BY <2>1, Sends, Typed DEF MInv, Boxed, Announced, Submit, Request, schedVars
  <2>4. Known' /\ SchedulerSurvives'
    BY <2>1 DEF MInv, Known, SchedulerSurvives, Submit, schedVars
  <2> QED
    BY <2>2, <2>3, <2>4 DEF MInv
<1>2. CASE \E n \in Node : OpenStream(n)
  <2>1. PICK n \in Node : OpenStream(n)
    BY <1>2
  <2>2. P!IInv' /\ IsFiniteSet(submitted')
    BY <2>1, OthersKeep DEF OpenStream
  <2>3. /\ streams' \in [Node -> Nat]
        /\ \A k \in Node : streams'[k] <= MaxStream[k]
    <3>1. /\ streams \in [Node -> Nat] /\ \A k \in Node : streams[k] <= MaxStream[k]
          /\ streams[n] < MaxStream[n] /\ streams' = [streams EXCEPT ![n] = @ + 1]
      BY <2>1 DEF MInv, Boxed, OpenStream
    <3>2. \A k \in Node : streams[k] \in Nat /\ MaxStream[k] \in Nat
      BY <3>1, BoundAssumption
    <3>3. \A k \in Node : streams'[k] = IF k = n THEN streams[k] + 1 ELSE streams[k]
      BY <3>1
    <3> QED
      BY <3>1, <3>2, <3>3
  <2>5. Boxed' /\ Known'
    BY <2>1, <2>3, Asks, Typed DEF MInv, Boxed, Known, OpenStream, NewNode, schedVars
  <2>4. Announced' /\ SchedulerSurvives'
    BY <2>1 DEF MInv, Announced, SchedulerSurvives, OpenStream, schedVars
  <2> QED
    BY <2>2, <2>4, <2>5 DEF MInv
<1>3. CASE \E n \in Node : SendHandshake(n)
  <2>1. PICK n \in Node : SendHandshake(n)
    BY <1>3
  <2>2. P!IInv' /\ IsFiniteSet(submitted')
    BY <2>1, OthersKeep DEF SendHandshake
  <2>3. /\ handshakes' \in [Node -> Nat]
        /\ \A k \in Node : handshakes'[k] <= MaxHandshake[k]
    <3>1. /\ handshakes \in [Node -> Nat]
          /\ \A k \in Node : handshakes[k] <= MaxHandshake[k]
          /\ handshakes[n] < MaxHandshake[n]
          /\ handshakes' = [handshakes EXCEPT ![n] = @ + 1]
      BY <2>1 DEF MInv, Boxed, SendHandshake
    <3>2. \A k \in Node : handshakes[k] \in Nat /\ MaxHandshake[k] \in Nat
      BY <3>1, BoundAssumption
    <3>3. \A k \in Node : handshakes'[k] = IF k = n THEN handshakes[k] + 1
                                                   ELSE handshakes[k]
      BY <3>1
    <3> QED
      BY <3>1, <3>2, <3>3
  <2>5. Boxed' /\ Announced'
    BY <2>1, <2>3, Sends, Typed
    DEF MInv, Boxed, Announced, SendHandshake, ReceiveHandshake, schedVars
  <2>4. Known' /\ SchedulerSurvives'
    BY <2>1 DEF MInv, Known, SchedulerSurvives, SendHandshake, schedVars
  <2> QED
    BY <2>2, <2>4, <2>5 DEF MInv
<1>4. CASE \E n \in Node : RunTask(n)
  <2>1. PICK n \in Node : RunTask(n)
    BY <1>4
  <2>2. P!IInv' /\ IsFiniteSet(submitted')
    BY <2>1, OthersKeep DEF RunTask
  <2>3. /\ handler_box' \in Seq(HandlerMessage)
        /\ Content(handler_box') \subseteq Content(handler_box) \cup {DownNode(n)}
        /\ sched_box' \in Seq(SchedulerIssue)
        /\ Content(sched_box') \subseteq Content(sched_box) \cup {HandshakeEstablished(n)}
    BY <2>1, Sends, Asks, Typed DEF MInv, Boxed, RunTask
  <2>4. Boxed' /\ Known'
    BY <2>1, <2>3 DEF MInv, Boxed, Known, RunTask, HandshakeEstablished, schedVars
  <2>5. Announced' /\ SchedulerSurvives'
    BY <2>1, <2>3 DEF MInv, Announced, SchedulerSurvives, RunTask, DownNode, schedVars
  <2> QED
    BY <2>2, <2>4, <2>5 DEF MInv
<1> QED
  BY <1>1, <1>2, <1>3, <1>4

(* A JudgeService announces a judgement HandlerService knows.              *)
LEMMA StartedMInv ==
  ASSUME MInv, NEW j \in Judge, JudgeStarted(j)
  PROVE  MInv'
<1>1. P!IInv' /\ IsFiniteSet(submitted')
  BY OthersKeep DEF JudgeStarted
<1>2. Boxed' /\ Known'
  BY Asks, Typed DEF MInv, Boxed, Known, JudgeStarted, NewTask, schedVars
<1>3. Announced' /\ SchedulerSurvives'
  BY DEF MInv, Announced, SchedulerSurvives, JudgeStarted, schedVars
<1> QED
  BY <1>1, <1>2, <1>3 DEF MInv

(* HandlerService dies only of a dispatch.                                 *)
LEMMA HandlerMInv ==
  ASSUME MInv, HandlerStep
  PROVE  MInv'
<1> DEFINE m == Head(handler_box)
<1>1. handler_box # <<>> /\ UNCHANGED schedVars
  BY DEF HandlerStep, HandleHandshake, HandleJudge, HandleDispatch, HandleDown, HandlerTakes
<1>2. /\ m \in Content(handler_box) /\ m \in HandlerMessage
      /\ Tail(handler_box) \in Seq(HandlerMessage)
      /\ Content(Tail(handler_box)) \subseteq Content(handler_box)
  BY <1>1, ContentTaken, ContentOfSeq DEF MInv, Boxed
<1>3. <<>> \in Seq(HandlerMessage) /\ Content(<<>>) = {}
  BY DEF Content
<1>4. P!IInv' /\ IsFiniteSet(submitted')
  BY <1>1, OthersKeep
<1>5. CASE HandleHandshake
  <2>1. m.node \in Node
    BY <1>2, <1>5 DEF HandleHandshake, HandlerTakes, HandlerMessage
  <2>2. Boxed' /\ Known'
    BY <1>1, <1>2, <1>5, <2>1
    DEF HandleHandshake, HandlerTakes, MInv, Boxed, Known, schedVars
  <2>3. Announced' /\ SchedulerSurvives'
    BY <1>1, <1>2, <1>5
    DEF HandleHandshake, HandlerTakes, MInv, Announced, SchedulerSurvives, schedVars
  <2> QED
    BY <1>4, <2>2, <2>3 DEF MInv
<1>6. CASE HandleJudge
  <2>1. m.judge \in Judge
    BY <1>2, <1>6 DEF HandleJudge, HandlerTakes, HandlerMessage
  <2>2. Boxed' /\ Known'
    BY <1>1, <1>2, <1>6, <2>1
    DEF HandleJudge, HandlerTakes, MInv, Boxed, Known, schedVars
  <2>3. Announced' /\ SchedulerSurvives'
    BY <1>1, <1>2, <1>6
    DEF HandleJudge, HandlerTakes, MInv, Announced, SchedulerSurvives, schedVars
  <2> QED
    BY <1>4, <2>2, <2>3 DEF MInv
<1>7. CASE HandleDispatch
  <2>1. /\ m.msg = "DispatchJudge" /\ <<m.first, m.second>> \in dispatched
        /\ m.second \in Node
    BY <1>2, <1>7 DEF HandleDispatch, MInv, Announced, HandlerMessage
  <2>2. m.second \notin judge_addrs
    BY <2>1, UuidAssumption DEF MInv, Boxed
  <2>3. /\ handler_up' = FALSE /\ handler_box' = <<>>
        /\ UNCHANGED <<reached, requested, streams, handshakes, sched_box, judge_addrs,
                       starting, tasks>>
    BY <1>7, <2>2 DEF HandleDispatch
  <2>4. Boxed' /\ Known'
    BY <1>1, <1>3, <2>3 DEF MInv, Boxed, Known, schedVars
  <2>5. Announced' /\ SchedulerSurvives'
    BY <1>1, <1>3, <2>1, <2>3 DEF MInv, Announced, SchedulerSurvives, schedVars
  <2> QED
    BY <1>4, <2>4, <2>5 DEF MInv
<1>8. CASE HandleDown
  <2>1. m.node \in Node
    BY <1>2, <1>8 DEF HandleDown, HandlerTakes, HandlerMessage
  <2>2. /\ sched_box' \in Seq(SchedulerIssue)
        /\ Content(sched_box') = Content(sched_box) \cup {RemoveNode(m.node)}
    BY <1>8, <2>1, Asks, Typed DEF HandleDown, MInv, Boxed
  <2>3. Boxed' /\ Known'
    BY <1>1, <1>2, <1>8, <2>2
    DEF HandleDown, HandlerTakes, MInv, Boxed, Known, RemoveNode, schedVars
  <2>4. Announced' /\ SchedulerSurvives'
    BY <1>1, <1>2, <1>8
    DEF HandleDown, HandlerTakes, MInv, Announced, SchedulerSurvives, schedVars
  <2> QED
    BY <1>4, <2>3, <2>4 DEF MInv
<1> QED
  BY <1>5, <1>6, <1>7, <1>8 DEF HandlerStep

(* What the scheduler dispatches was announced, so HandlerService knows it. *)
LEMMA SchedulerMInv ==
  ASSUME MInv, SchedulerStep
  PROVE  MInv'
<1> DEFINE m == Head(sched_box)
<1>1. /\ sched_box # <<>> /\ sched_box' = Tail(sched_box) /\ Announce /\ Acts(m)
      /\ UNCHANGED <<requested, streams, handshakes, handler_up, judge_addrs,
                     starting, tasks, reached>>
  BY SchedulerActs DEF MInv, Boxed
<1>2. /\ m \in Content(sched_box) /\ sched_box' \in Seq(SchedulerIssue)
      /\ Content(sched_box') \subseteq Content(sched_box)
  BY <1>1, ContentTaken DEF MInv, Boxed
<1>3. /\ P!IInv' /\ running' /\ dispatched \subseteq dispatched'
      /\ dispatched' \subseteq submitted' \X Node /\ submitted' \subseteq Judge
      /\ \A j \in submitted' \ submitted : m = NewTask(j)
      /\ IsFiniteSet(submitted') /\ IsFiniteSet(dispatched')
  BY <1>1, SchedulerKeeps DEF MInv, SchedulerSurvives
<1>4. /\ handler_box' \in Seq(HandlerMessage)
      /\ \A x \in Content(handler_box') \ Content(handler_box) :
           \E d \in dispatched' : x = DispatchJudge(d[1], d[2])
  BY <1>1, <1>3, AnnounceSends DEF MInv, Boxed
<1>5. Boxed'
  BY <1>1, <1>2, <1>4 DEF MInv, Boxed
<1>6. Known'
  <2>1. \A j \in submitted' \ submitted : j \in judge_addrs
    BY <1>2, <1>3 DEF MInv, Known, NewTask
  <2> QED
    BY <1>1, <1>2, <2>1 DEF MInv, Known
<1>7. Announced'
  <2>1. \A d \in dispatched' : d = <<d[1], d[2]>>
    BY <1>3
  <2> QED
    BY <1>3, <1>4, <2>1 DEF MInv, Announced, DispatchJudge
<1>8. SchedulerSurvives'
  BY <1>1, <1>3 DEF MInv, SchedulerSurvives
<1> QED
  BY <1>3, <1>5, <1>6, <1>7, <1>8 DEF MInv

(* Every step keeps the invariant.                                         *)
LEMMA StepMInv ==
  ASSUME MInv, [Next]_vars
  PROVE  MInv'
<1>1. CASE UNCHANGED vars
  <2>1. P!IInv' /\ IsFiniteSet(submitted')
    BY <1>1, OthersKeep DEF vars
  <2> QED
    BY <1>1, <2>1 DEF vars, schedVars, MInv, Boxed, Known, Announced, SchedulerSurvives
<1> QED
  BY <1>1, EnvironmentMInv, StartedMInv, HandlerMInv, SchedulerMInv DEF Next

-----------------------------------------------------------------------------
(* The theorems.                                                           *)

(* The invariant holds in every reachable state.                           *)
THEOREM MasterInductive == Spec => []MInv
<1>1. MInv /\ [Next]_vars => MInv'
  BY StepMInv
<1> QED
  BY InitMInv, <1>1, PTL DEF Spec

(* The scheduler in Master keeps to the specification of Scheduler, so all *)
(* that is proved of the latter holds of it.                               *)
THEOREM SchedulerWithin == Spec => P!Spec
<1>1. Init => P!Init
  BY SameInit DEF Init
<1>2. MInv /\ [Next]_vars => [P!Next]_(P!vars)
  <2> SUFFICES ASSUME MInv, [Next]_vars PROVE [P!Next]_(P!vars)
    OBVIOUS
  <2>1. CASE UNCHANGED schedVars
    BY <2>1 DEF schedVars, P!vars
  <2>2. CASE SchedulerStep
    <3>1. Acts(Head(sched_box))
      BY <2>2, SchedulerActs DEF MInv, Boxed
    <3> QED
      BY <3>1, SchedulerKeeps DEF MInv, SchedulerSurvives
  <2> QED
    BY <2>1, <2>2
    DEF Next, vars, Submit, JudgeStarted, OpenStream, SendHandshake, RunTask,
        HandlerStep, HandleHandshake, HandleJudge, HandleDispatch, HandleDown,
        HandlerTakes
<1> QED
  BY <1>1, <1>2, MasterInductive, PTL DEF Spec, P!Spec

(* Every message arrives where its kind is handled, with the ids its       *)
(* handler takes out of it.                                                *)
THEOREM MasterTypeCorrect == Spec => []TypeOK
<1>1. MInv => TypeOK
  <2> SUFFICES ASSUME MInv PROVE TypeOK
    OBVIOUS
  <2>1. Sched!TypeOK
    BY SameTypes, P!IInvTypes, NodeAssumption, JudgeAssumption, TimeAssumption DEF MInv
  <2> QED
    BY <2>1 DEF MInv, Boxed, TypeOK
<1> QED
  BY <1>1, MasterInductive, PTL

(* No order of messages makes the scheduler panic.                         *)
THEOREM NobodyPanics == Spec => []SchedulerSurvives
<1>1. MInv => SchedulerSurvives
  BY DEF MInv
<1> QED
  BY <1>1, MasterInductive, PTL

(* HandlerService has the address of each judgement the scheduler may name. *)
THEOREM EveryAddressIsKnown == Spec => []AddressKnown
<1>1. MInv => AddressKnown
  <2> SUFFICES ASSUME MInv PROVE AddressKnown
    OBVIOUS
  <2>1. \A d \in dispatched : d[1] \in judge_addrs
    BY DEF MInv, Known, P!IInv, P!Histories
  <2>2. \A i \in DOMAIN sched_box :
          sched_box[i].issue = "NewTask" => sched_box[i].of \in judge_addrs
    BY DEF MInv, Known, Content
  <2>3. \A i \in DOMAIN handler_box :
          handler_box[i].msg = "DispatchJudge" => handler_box[i].first \in judge_addrs
    <3> SUFFICES ASSUME NEW i \in DOMAIN handler_box, handler_box[i].msg = "DispatchJudge"
                 PROVE  handler_box[i].first \in judge_addrs
      OBVIOUS
    <3>1. <<handler_box[i].first, handler_box[i].second>> \in dispatched
      BY DEF MInv, Announced, Content
    <3> QED
      BY <2>1, <3>1
  <2> QED
    BY <2>2, <2>3 DEF MInv, Known, AddressKnown
<1> QED
  BY <1>1, MasterInductive, PTL

-----------------------------------------------------------------------------
(* One judgement per stream.  A node is handed a judgement only while it   *)
(* has none, and it gets rid of one only by being registered anew, for     *)
(* which it opens a stream.                                                *)

\* 1 if node n is there and has nothing outstanding.
Idle(heaps, outstanding, n) ==
  IF n \in DOMAIN heaps /\ outstanding[n] = P!None THEN 1 ELSE 0

Granted(n) == {d \in dispatched : d[2] = n}

\* A judgement that node n has been handed, a registration that is on its
\* way and the node's being idle each stand for a stream it has opened.
Spare ==
  \A n \in Node :
    Cardinality(Granted(n)) + Count(sched_box, NewNode(n)) + Idle(nodes, pending, n)
      <= streams[n]

GInv == IsFiniteSet(dispatched) /\ Spare

(* A node is idle if it is there and what it is busy with is nothing.      *)
LEMMA IdleNodes ==
  ASSUME NEW h, NEW o, P!Typed(h, o), NEW n \in Node
  PROVE  Idle(h, o, n) = IF n \in P!Real(h) /\ P!Busy(o)[n] = 0 THEN 1 ELSE 0
<1>1. /\ n # P!NODE_ZERO /\ DOMAIN o = DOMAIN h
      /\ n \in DOMAIN h => o[n] \in (Judge \X Nat) \cup {P!None}
  BY NodeAssumption DEF P!Typed
<1>2. n \in DOMAIN h => (o[n] = P!None <=> o[n][1] = 0)
  BY <1>1, JudgeAssumption
<1> QED
  BY <1>1, <1>2 DEF Idle, P!Real, P!Busy

(* The second half of a handler hands a node at most one judgement, and    *)
(* only one that is idle, which it is no more then.                        *)
LEMMA HandsToIdle ==
  ASSUME NEW h, NEW o, NEW free, P!Prepared(h, o), P!Transfers(h, o, free),
         NEW n \in Node, IsFiniteSet(dispatched)
  PROVE  Cardinality(Granted(n))' + Idle(nodes, pending, n)'
           <= Cardinality(Granted(n)) + Idle(h, o, n)
<1>1. n # P!NODE_ZERO
  BY NodeAssumption
<1>2. IsFiniteSet(Granted(n)) /\ Cardinality(Granted(n)) \in Nat
  BY FS_Subset, FS_CardinalityType DEF Granted
<1>3. DOMAIN o = DOMAIN h
  BY DEF P!Prepared, P!Typed
<1>4. CASE P!Drops(h, o)
  <2>1. DOMAIN nodes' = DOMAIN h /\ pending' = o /\ dispatched' = dispatched
    BY <1>4 DEF P!Drops
  <2> QED
    BY <1>2, <2>1 DEF Idle, Granted
<1>5. CASE P!Handover(h, o, free)
  <2>1. PICK f, served, top : P!Moved(h, f) /\ P!Hands(f, o, served, top)
    BY <1>5 DEF P!Handover
  <2>2. /\ DOMAIN f = DOMAIN h /\ DOMAIN nodes' = DOMAIN h /\ served \subseteq DOMAIN h
        /\ dispatched' = dispatched \cup {<<top[k].judge, k>> : k \in served}
    BY <2>1 DEF P!Moved, P!Hands, P!Real
  <2>3. CASE n \in served
    <3>1. o[n] = P!None /\ pending'[n] = <<top[n].judge, top[n].time>> /\ top[n] \in f[n]
      BY <2>1, <2>3 DEF P!Hands, P!IsTop
    <3>2. top[n].judge \in Judge
      <4>1. top[n] \in h[n] \/ \E a \in h[P!NODE_ZERO] : a.judge = top[n].judge
        BY <2>1, <2>2, <2>3, <3>1 DEF P!Moved
      <4>2. P!NODE_ZERO \in DOMAIN h /\ \A k \in DOMAIN h : \A e \in h[k] : e.judge \in Judge
        BY DEF P!Prepared, P!Typed, P!EntrySet
      <4> QED
        BY <2>2, <2>3, <4>1, <4>2
    <3>3. pending'[n] # P!None
      BY <3>1, <3>2, JudgeAssumption
    <3>4. Idle(nodes, pending, n)' = 0 /\ Idle(h, o, n) = 1
      BY <2>2, <2>3, <3>1, <3>3 DEF Idle
    <3>5. Granted(n)' = Granted(n) \cup {<<top[n].judge, n>>}
      BY <2>2, <2>3 DEF Granted
    <3>6. Cardinality(Granted(n)') <= Cardinality(Granted(n)) + 1
      <4> DEFINE d == <<top[n].judge, n>>
      <4>1. Cardinality(Granted(n) \cup {d}) <= Cardinality(Granted(n)) + 1
        <5> HIDE DEF d
        <5>1. Cardinality(Granted(n) \cup {d})
                = IF d \in Granted(n) THEN Cardinality(Granted(n))
                                      ELSE Cardinality(Granted(n)) + 1
          BY <1>2, FS_AddElement
        <5> QED
          BY <1>2, <5>1
      <4> QED
        BY <3>5, <4>1
    <3>7. Cardinality(Granted(n)') \in Nat
      BY <1>2, <3>5, FS_AddElement, FS_CardinalityType
    <3> QED
      BY <1>2, <3>4, <3>6, <3>7
  <2>4. CASE n \notin served
    <3>1. n \in DOMAIN h => pending'[n] = o[n]
      BY <2>1, <2>2, <2>4 DEF P!Hands
    <3>2. Idle(nodes, pending, n)' = Idle(h, o, n)
      BY <2>2, <3>1 DEF Idle
    <3>3. Granted(n)' = Granted(n)
      BY <2>2, <2>4 DEF Granted
    <3> QED
      BY <1>2, <3>2, <3>3 DEF Idle
  <2> QED
    BY <2>3, <2>4
<1> QED
  BY <1>4, <1>5 DEF P!Transfers

(* What the scheduler does makes a node idle only by registering it.       *)
LEMMA SchedulerHands ==
  ASSUME P!IInv, IsFiniteSet(submitted), running, IsFiniteSet(dispatched),
         NEW m, Acts(m), NEW n \in Node
  PROVE  Cardinality(Granted(n))' + Idle(nodes, pending, n)'
           <= Cardinality(Granted(n)) + Idle(nodes, pending, n)
                + (IF m = NewNode(n) THEN 1 ELSE 0)
<1> DEFINE new == IF m = NewNode(n) THEN 1 ELSE 0
<1>1. IsFiniteSet(Granted(n)) /\ Cardinality(Granted(n)) \in Nat
  BY FS_Subset, FS_CardinalityType DEF Granted
<1>2. P!Typed(nodes, pending)
  BY P!StateBefore, NodeAssumption, JudgeAssumption, TimeAssumption
<1>3. Idle(nodes, pending, n) = IF n \in P!Real(nodes) /\ P!Busy(pending)[n] = 0
                                THEN 1 ELSE 0
  BY <1>2, IdleNodes
<1>4. ASSUME NEW h, NEW o, P!Prepared(h, o),
             P!Transfers(h, o, P!Real(h)),
             Idle(h, o, n) <= Idle(nodes, pending, n) + new
      PROVE  Cardinality(Granted(n))' + Idle(nodes, pending, n)'
               <= Cardinality(Granted(n)) + Idle(nodes, pending, n) + new
  <2>1. Cardinality(Granted(n))' + Idle(nodes, pending, n)'
          <= Cardinality(Granted(n)) + Idle(h, o, n)
    BY <1>4, HandsToIdle
  <2>2. Granted(n)' = {d \in dispatched' : d[2] = n}
    BY DEF Granted
  <2>3. Cardinality(Granted(n))' \in Nat
    <3>1. IsFiniteSet(dispatched')
      BY SchedulerKeeps
    <3> QED
      BY <2>2, <3>1, FS_Subset, FS_CardinalityType
  <2> QED
    BY <1>1, <1>4, <2>1, <2>3 DEF Idle
<1>5. CASE UNCHANGED schedVars \/ \E k \in Node : P!Promote(k)
  <2>1. nodes' = nodes /\ pending' = pending /\ dispatched' = dispatched
    BY <1>5 DEF schedVars, P!Promote
  <2> QED
    BY <1>1, <2>1 DEF Granted, Idle
<1>6. CASE \E k \in Node : m = NewNode(k) /\ P!Register(k)
  <2>1. PICK k \in Node : m = NewNode(k) /\ P!Register(k)
    BY <1>6
  <2>2. PICK h, o : /\ P!Prepared(h, o) /\ P!Transfers(h, o, P!Real(h))
                    /\ P!Real(h) = P!Real(nodes) \cup {k}
                    /\ P!Busy(o) = P!Busy(pending)
    BY <2>1, P!RegisterSteps, NodeAssumption, JudgeAssumption, TimeAssumption
  <2>3. n = k <=> m = NewNode(n)
    BY <2>1 DEF NewNode
  <2>4. Idle(h, o, n) = IF n \in P!Real(h) /\ P!Busy(o)[n] = 0 THEN 1 ELSE 0
    BY <2>2, IdleNodes DEF P!Prepared
  <2>5. Idle(h, o, n) <= Idle(nodes, pending, n) + new
    BY <1>3, <2>2, <2>3, <2>4
  <2> QED
    BY <1>4, <2>2, <2>5
<1>7. CASE \E k \in Node : m = RemoveNode(k) /\ P!Unregister(k)
  <2>1. PICK k \in Node : P!Unregister(k)
    BY <1>7
  <2>2. PICK h, o : /\ P!Prepared(h, o) /\ P!Transfers(h, o, P!Real(h))
                    /\ P!Real(h) = P!Real(nodes) \ {k}
                    /\ P!Busy(o) = [P!Busy(pending) EXCEPT ![k] = 0]
    BY <2>1, P!UnregisterSteps, NodeAssumption, JudgeAssumption, TimeAssumption
  <2>3. n # k => P!Busy(o)[n] = P!Busy(pending)[n]
    BY <2>2 DEF P!Busy
  <2>4. Idle(h, o, n) = IF n \in P!Real(h) /\ P!Busy(o)[n] = 0 THEN 1 ELSE 0
    BY <2>2, IdleNodes DEF P!Prepared
  <2>5. Idle(h, o, n) <= Idle(nodes, pending, n) + new
    BY <1>3, <2>2, <2>3, <2>4
  <2> QED
    BY <1>4, <2>2, <2>5
<1>8. CASE \E j \in Judge, t \in TotalTime, w \in P!Weight : P!Push(j, t, w)
  <2>1. PICK h : /\ P!Prepared(h, pending) /\ P!Handover(h, pending, P!Real(h))
                 /\ P!Real(h) = P!Real(nodes)
    BY <1>8, P!PushSteps, NodeAssumption, JudgeAssumption, TimeAssumption
  <2>2. Idle(h, pending, n) = IF n \in P!Real(h) /\ P!Busy(pending)[n] = 0 THEN 1 ELSE 0
    BY <2>1, IdleNodes DEF P!Prepared
  <2>3. Idle(h, pending, n) <= Idle(nodes, pending, n) + new
    BY <1>3, <2>1, <2>2
  <2> QED
    BY <1>4, <2>1, <2>3 DEF P!Transfers
<1> QED
  BY <1>5, <1>6, <1>7, <1>8 DEF Acts

(* Nobody but the accept loop announces a node.                            *)
LEMMA OthersGInv ==
  ASSUME MInv, GInv, UNCHANGED <<schedVars, streams>>,
         \/ UNCHANGED sched_box
         \/ \E x \in SchedulerIssue : x.issue # "NewNode" /\ ToScheduler(x)
  PROVE  GInv'
<1>1. IsFiniteSet(dispatched')
  BY DEF GInv, schedVars
<1>2. ASSUME NEW n \in Node
      PROVE  /\ Granted(n)' = Granted(n) /\ Idle(nodes, pending, n)' = Idle(nodes, pending, n)
             /\ Count(sched_box, NewNode(n))' = Count(sched_box, NewNode(n))
  <2>1. Granted(n)' = Granted(n) /\ Idle(nodes, pending, n)' = Idle(nodes, pending, n)
    BY DEF Granted, Idle, schedVars
  <2>2. CASE UNCHANGED sched_box
    BY <2>1, <2>2 DEF Count, At
  <2>3. CASE \E x \in SchedulerIssue : x.issue # "NewNode" /\ ToScheduler(x)
    <3>1. PICK x \in SchedulerIssue : x.issue # "NewNode" /\ ToScheduler(x)
      BY <2>3
    <3>2. x # NewNode(n)
      BY <3>1 DEF NewNode
    <3>3. Count(sched_box', NewNode(n)) = Count(sched_box, NewNode(n)) + 0
          /\ Count(sched_box, NewNode(n)) \in Nat
      BY <3>1, <3>2, CountAppended DEF ToScheduler, MInv, Boxed
    <3> QED
      BY <2>1, <3>3 DEF Count, At, NewNode
  <2> QED
    BY <2>2, <2>3
<1> QED
  BY <1>1, <1>2 DEF GInv, Spare

(* The steps of everybody but the scheduler.                               *)
LEMMA QuietGInv ==
  ASSUME MInv, GInv,
         \/ \E j \in Judge : Submit(j) \/ JudgeStarted(j)
         \/ \E n \in Node : OpenStream(n) \/ SendHandshake(n) \/ RunTask(n)
         \/ HandlerStep
  PROVE  GInv'
<1>1. CASE \E n \in Node : OpenStream(n)
  <2>1. PICK n \in Node : OpenStream(n)
    BY <1>1
  <2>2. /\ UNCHANGED schedVars /\ sched_box' = Append(sched_box, NewNode(n))
        /\ streams' = [streams EXCEPT ![n] = @ + 1] /\ streams \in [Node -> Nat]
        /\ sched_box \in Seq(SchedulerIssue) /\ NewNode(n) \in SchedulerIssue
    BY <2>1, Typed DEF OpenStream, ToScheduler, MInv, Boxed
  <2>3. ASSUME NEW k \in Node
        PROVE  Cardinality(Granted(k))' + Count(sched_box, NewNode(k))'
                 + Idle(nodes, pending, k)' <= streams'[k]
    <3>1. /\ Granted(k)' = Granted(k)
          /\ Idle(nodes, pending, k)' = Idle(nodes, pending, k)
          /\ Count(sched_box, NewNode(k))' = Count(sched_box', NewNode(k))
      BY <2>2 DEF Granted, Idle, schedVars, Count, At, NewNode
    <3>2. /\ Count(sched_box, NewNode(k)) \in Nat
          /\ Count(sched_box', NewNode(k))
               = Count(sched_box, NewNode(k)) + (IF NewNode(n) = NewNode(k) THEN 1 ELSE 0)
      BY <2>2, CountAppended
    <3>3. NewNode(n) = NewNode(k) <=> n = k
      BY DEF NewNode
    <3>4. streams'[k] = streams[k] + (IF n = k THEN 1 ELSE 0) /\ streams[k] \in Nat
      BY <2>2
    <3>5. /\ Cardinality(Granted(k)) \in Nat /\ Idle(nodes, pending, k) \in Nat
          /\ Cardinality(Granted(k)) + Count(sched_box, NewNode(k))
               + Idle(nodes, pending, k) <= streams[k]
      <4>1. IsFiniteSet(Granted(k))
        BY FS_Subset DEF Granted, GInv
      <4> QED
        BY <4>1, FS_CardinalityType DEF GInv, Spare, Idle
    <3> QED
      BY <3>1, <3>2, <3>3, <3>4, <3>5
  <2>4. IsFiniteSet(dispatched')
    BY <2>2 DEF GInv, schedVars
  <2> QED
    BY <2>3, <2>4 DEF GInv, Spare
<1>2. CASE \E j \in Judge : JudgeStarted(j)
  <2>1. PICK j \in Judge : JudgeStarted(j)
    BY <1>2
  <2>2. NewTask(j) \in SchedulerIssue /\ NewTask(j).issue # "NewNode"
    BY Typed DEF NewTask
  <2> QED
    BY <2>1, <2>2, OthersGInv DEF JudgeStarted
<1>3. CASE \E n \in Node : RunTask(n)
  <2>1. PICK n \in Node : RunTask(n)
    BY <1>3
  <2>2. /\ HandshakeEstablished(n) \in SchedulerIssue
        /\ HandshakeEstablished(n).issue # "NewNode"
    BY Typed DEF HandshakeEstablished
  <2> QED
    BY <2>1, <2>2, OthersGInv DEF RunTask
<1>4. CASE HandleDown
  <2> DEFINE n == Head(handler_box).node
  <2>1. handler_box # <<>> /\ Head(handler_box).msg = "DownNode"
    BY <1>4 DEF HandleDown, HandlerTakes
  <2>2. n \in Node
    <3>1. Head(handler_box) \in HandlerMessage
      BY <2>1, ContentTaken, ContentOfSeq DEF MInv, Boxed
    <3> QED
      BY <2>1, <3>1 DEF HandlerMessage
  <2>3. RemoveNode(n) \in SchedulerIssue /\ RemoveNode(n).issue # "NewNode"
    BY <2>2, Typed DEF RemoveNode
  <2> QED
    BY <1>4, <2>3, OthersGInv DEF HandleDown, HandlerTakes
<1>5. CASE \/ \E j \in Judge : Submit(j)
           \/ \E n \in Node : SendHandshake(n)
           \/ HandleHandshake \/ HandleJudge \/ HandleDispatch
  <2>1. UNCHANGED <<schedVars, streams, sched_box>>
    BY <1>5 DEF Submit, SendHandshake, HandleHandshake, HandleJudge, HandleDispatch,
                HandlerTakes
  <2> QED
    BY <2>1, OthersGInv
<1> QED
  BY <1>1, <1>2, <1>3, <1>4, <1>5 DEF HandlerStep

(* The scheduler takes an announcement and with it registers an idle node. *)
LEMMA SchedulerGInv ==
  ASSUME MInv, GInv, SchedulerStep
  PROVE  GInv'
<1> DEFINE m == Head(sched_box)
<1>1. /\ sched_box # <<>> /\ sched_box' = Tail(sched_box) /\ Acts(m)
      /\ UNCHANGED streams /\ sched_box \in Seq(SchedulerIssue)
      /\ streams \in [Node -> Nat] /\ P!IInv /\ IsFiniteSet(dispatched)
  BY SchedulerActs DEF MInv, Boxed, GInv
<1>2. IsFiniteSet(dispatched')
  BY <1>1, SchedulerKeeps DEF MInv, SchedulerSurvives
<1>3. ASSUME NEW n \in Node
      PROVE  Cardinality(Granted(n))' + Count(sched_box, NewNode(n))'
               + Idle(nodes, pending, n)' <= streams'[n]
  <2>1. Cardinality(Granted(n))' + Idle(nodes, pending, n)'
          <= Cardinality(Granted(n)) + Idle(nodes, pending, n)
               + (IF m = NewNode(n) THEN 1 ELSE 0)
    BY <1>1, SchedulerHands DEF MInv, SchedulerSurvives
  <2>2. /\ Count(Tail(sched_box), NewNode(n)) \in Nat
        /\ Count(sched_box, NewNode(n))
             = Count(Tail(sched_box), NewNode(n)) + (IF m = NewNode(n) THEN 1 ELSE 0)
    BY <1>1, CountTaken
  <2>3. Count(sched_box, NewNode(n))' = Count(Tail(sched_box), NewNode(n))
    BY <1>1 DEF Count, At, NewNode
  <2>4. /\ Cardinality(Granted(n)) \in Nat /\ Cardinality(Granted(n))' \in Nat
        /\ Idle(nodes, pending, n) \in Nat /\ Idle(nodes, pending, n)' \in Nat
    <3>1. IsFiniteSet(Granted(n)) /\ IsFiniteSet(Granted(n)')
      BY <1>1, <1>2, FS_Subset DEF Granted
    <3> QED
      BY <3>1, FS_CardinalityType DEF Idle
  <2>5. /\ streams'[n] = streams[n] /\ streams[n] \in Nat
        /\ Cardinality(Granted(n)) + Count(sched_box, NewNode(n))
             + Idle(nodes, pending, n) <= streams[n]
    BY <1>1 DEF GInv, Spare
  <2> QED
    BY <2>1, <2>2, <2>3, <2>4, <2>5
<1> QED
  BY <1>2, <1>3 DEF GInv, Spare

(* A node is handed one judgement for each stream it has opened at most.   *)
THEOREM OneForEachStream == Spec => []OneJudgementPerStream
<1>1. Init => GInv
  <2> SUFFICES ASSUME Init PROVE GInv
    OBVIOUS
  <2>1. dispatched = {} /\ DOMAIN nodes = {P!NODE_ZERO} /\ sched_box = <<>>
        /\ \A n \in Node : streams[n] = 0
    BY DEF Init, Sched!Init
  <2>2. \A n \in Node : Granted(n) = {} /\ {i \in DOMAIN <<>> : <<>>[i] = NewNode(n)} = {}
    BY <2>1 DEF Granted
  <2>3. \A n \in Node : Cardinality(Granted(n)) = 0 /\ Count(sched_box, NewNode(n)) = 0
    BY <2>1, <2>2, FS_EmptySet DEF Count, At
  <2>4. \A n \in Node : Idle(nodes, pending, n) = 0
    BY <2>1, NodeAssumption DEF Idle
  <2> QED
    BY <2>1, <2>3, <2>4, FS_EmptySet DEF GInv, Spare
<1>2. MInv /\ GInv /\ [Next]_vars => GInv'
  <2>1. ASSUME MInv, GInv, UNCHANGED vars PROVE GInv'
    BY <2>1, OthersGInv DEF vars
  <2> QED
    BY <2>1, QuietGInv, SchedulerGInv DEF Next
<1>3. MInv /\ GInv => OneJudgementPerStream
  <2> SUFFICES ASSUME MInv, GInv, NEW n \in Node
               PROVE  Cardinality(Granted(n)) <= streams[n]
    BY DEF OneJudgementPerStream, Granted
  <2>1. /\ Cardinality(Granted(n)) + Count(sched_box, NewNode(n))
             + Idle(nodes, pending, n) <= streams[n]
        /\ streams[n] \in Nat /\ Idle(nodes, pending, n) \in Nat
    BY DEF GInv, Spare, MInv, Boxed, Idle
  <2>2. Cardinality(Granted(n)) \in Nat
    <3>1. IsFiniteSet(Granted(n))
      BY FS_Subset DEF Granted, GInv
    <3> QED
      BY <3>1, FS_CardinalityType
  <2>3. Count(sched_box, NewNode(n)) \in Nat
    <3>1. sched_box \in Seq(SchedulerIssue) /\ NewNode(n) \in SchedulerIssue
      BY Typed DEF MInv, Boxed
    <3> QED
      BY <3>1, CountAppended
  <2> QED
    BY <2>1, <2>2, <2>3
<1> QED
  BY <1>1, <1>2, <1>3, MasterInductive, PTL DEF Spec
=============================================================================
