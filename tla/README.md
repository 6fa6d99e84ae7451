# A verification of pms-master

pms-master is the master of a judge system: clients hand it programs to judge,
slaves connect over QUIC, and the master gives every judgement to a slave, feeds
it the test cases one by one and passes the verdicts on. It is a set of actix
actors on one thread. This directory holds TLA+ models of these actors, TLC
runs that check them on small instances, and proofs checked by TLAPS that hold
for every instance. Paths below are relative to the repository.

## 1. The system

| Component | State | Operations |
|---|---|---|
| `ByDeadlineWeighted`, the scheduler (`src/scheduler/by_deadline.rs`) | per node: a heap of judgements, the pending one, its size (outstanding work), its clock, its shared secret; an index of the ready nodes by size; the queue of `NODE_ZERO` for judgements without a node | `NewNode` (register), `HandshakeEstablished` (promote), `NewTask` (push), `Touch`, `RemoveNode` (unregister), `ForceRebalance`, `Exists` |
| `HandlerService` (`src/handler/mod.rs`) | `judge_addrs`: JudgeService by judgement | `ReceivePacket` (handshake, state report), `Judge`, `DispatchJudge`, `DownNode`; `UnlockSlave` is ignored |
| Handshake task (`src/commands/handshake.rs`) | what it waits for | checks the password, promotes and answers, or answers and takes the node down |
| `JudgeService` (`src/handler/judge.rs`), one per judgement | the request, the address of its TestcaseService | `started`, `Dispatch`, `JudgeStateUpdate`, `EndJudge` |
| `TestcaseService` with `TestcaseManager` (`src/handler/testcase.rs`, `src/judge.rs`) | linked list of test cases and a cursor | `Pop` |
| `ConnectionService` (`src/handler/connection.rs`) | `connections`: stream actor by node | `NewStream`, `DeleteStream`, `Send`; an accept loop per connection |
| `StreamActor`, `RecvStreamActor` (`src/handler/stream.rs`, `recv_stream.rs`) | a QUIC stream | packets in, `Send`, `Delete`, ping timer |
| State report (`src/commands/judge_state.rs`, `src/event.rs`) | none | tells the client, then the JudgeService |

A node opens a bidirectional stream. The accept loop of its connection tells the
scheduler (`NewNode`), starts a StreamActor and tells ConnectionService
(`NewStream`). The node's handshake packet goes through its StreamActor to
HandlerService, which spawns a task; the task has the node promoted and answers,
or answers and sends `DownNode`, which HandlerService splits into `DeleteStream`
and `RemoveNode`.

A request enters through `HandlerMessage::Judge`; HandlerService starts a
JudgeService, which announces itself to the scheduler when it first runs. The
scheduler sends `DispatchJudge` when a node is free; HandlerService passes it on
to the JudgeService, which starts a TestcaseService and sends the program. Every
report of the slave goes to the client and to the JudgeService, which asks the
TestcaseService for the next test case. All packets leave through the one
ConnectionService and the node's StreamActor.

**What is hard here.** The actors share a thread, so a handler is atomic, but
mailboxes interleave freely, and accept loops and handshake tasks stop in the
middle to wait for answers. A panic kills one actor: what is sent to it later is
dropped in silence, and who waits for its answer gets an error nobody looks at.
What blocks the thread stops all actors. Maps are indexed, so a message for
something that has gone is a panic. The scheduler keeps an index, sizes, queues
and clocks in step by hand. The full list is under `hazards` in `PROJECT.json`.

**What makes each part correct.**
- Scheduler: the index mirrors the ready nodes; booked work equals queued plus
  outstanding work; no idle node has a queue; a judgement is in one place and
  dispatched once; a judgement whose deadline has passed is not overtaken; nothing
  is lost while a node is ready; sums stay bounded; no message makes it panic.
- HandlerService: it can find every judgement the scheduler names.
- Connections and handshakes: who the scheduler may give work to has a stream;
  packets go to the latest one; who waits for an answer goes on; a node with a
  wrong password leaves everywhere.
- A judgement: slave, client and master stay in step; it stops only when settled;
  it ends; its helpers go away; what can kill its actors is known.

## 2. The modules

| Module | Models | Stands on |
|---|---|---|
| `Scheduler` | the scheduler, one action per message | - |
| `Dispatching` | what a scheduler promises, without queues and sizes (abstract) | - |
| `MCScheduler` | refinement of `Dispatching`; the loop of `rebalance` | `Scheduler` |
| `Master` | HandlerService, scheduler and starting JudgeServices with their mailboxes; nodes and handshakes as an environment | instantiates `Scheduler` |
| `MCMaster` | bounds of its runs | `Master` |
| `NodeSession` | accept loops, stream actors, ConnectionService, handshake tasks with what they wait for | instantiates `Scheduler` |
| `MCNodeSession` | refinement of `Master` | `NodeSession` |
| `Judgement` | JudgeServices, TestcaseServices, ConnectionService, reports, slaves | - |
| `Judging` | what judging promises, without actors (abstract) | - |
| `MCJudgement` | requests of the runs; refinement of `Judging` | `Judgement` |
| `SchedulerProofs` | the inductive invariant of `Scheduler` and the theorems that follow from it | `Scheduler` |
| `SchedulerSteps` | what all handlers of `Scheduler` have in common | `SchedulerProofs` |
| `SchedulerBounds` | theorems on loss, overtaking and sums | `SchedulerSteps` |
| `SchedulerRefinement` | the theorems that `Scheduler` implements `Dispatching`, and that its placement is the one of the loop | `MCScheduler`, `SchedulerSteps` |
| `Mailboxes` | facts about mailboxes: what is in one, where, and how often | - |
| `MasterProofs` | theorems about the mailboxes of HandlerService and the scheduler | `Master`, `Mailboxes`, instantiates `SchedulerSteps` |
| `SessionProofs` | the inductive invariant of `NodeSession`, the theorems that follow from it, and that it implements `Master` | `MCNodeSession`, `Mailboxes`, instantiates `SchedulerSteps` |
| `JudgementProofs` | the inductive invariant of `Judgement`, the theorems that follow from it, and that it implements `Judging` | `MCJudgement`, `Mailboxes` |

**Scheduler.** `nodes[n]` is the set of entries in the heap of node `n`; the heap
order is `Before`, and `IsTop` is what `pop` takes. `Serve` is the second half of
`touch` for all nodes a handler touches; `Rebalance` is `rebalance` on the maps as
its caller leaves them. Its loop places entries one after the other on the least
loaded node; `IsPlacement` characterises the result without a loop, and
`PlacementIsLoop` says that in every reachable state exactly one placement satisfies
it, the one the loop (`MCScheduler!Loop`, a recursive function on what has been popped)
arrives at, and that the loop leaves the index as `Rebalance` does. `TimeOf` sums times
as the cardinality of a set of cells, so that the theorems on finite sets apply.
`dispatched` are the `DispatchJudge` messages, `submitted` is history, `running`
becomes FALSE when a handler panics. `Dispatching` keeps only what waits, what was
handed out, who is there, who is ready and how much each node has to do; a
judgement is handed out at most once, to a free ready node, and what waits is
dropped only when nodes have joined and none is ready.

**Master.** Mailboxes are sequences, each handler takes one head. `tasks` counts
handshake tasks that were spawned and have not acted, `starting` the JudgeServices
whose `started` has not run. The scheduler's handlers are the actions of
`Scheduler`; `Announce` appends what they dispatch to the mailbox of HandlerService.
`DispatchJudge` keeps its two ids as first and second field, because sender and
receiver disagree on which is which.

**NodeSession.** Accept loops (`accept`) and handshake tasks (`task`) are program
counters with one value per `await`, so that the others run between a question and
its answer. The mailboxes of HandlerService, the scheduler, ConnectionService and
the StreamActors are sequences; a question carries who asks it. `lost` are broken
connections, `blocked` is the one thread waiting in `block_on` for one of its own
actors: no action but the environment's is enabled then. `ConnectionPanics` drops
the mailbox and gives all who wait their error. A RecvStreamActor may pass packets on at any time
once it has been started; when it stops is left open. No judgement is requested here.
`ImplementsMaster` maps a session to `Master` without judgements: what the
scheduler and HandlerService get to see of sessions is what `Master` assumes.

**Judgement.** Per judgement the states and mailboxes of the two actors. Verdicts
with equal handlers are one state, `Result`. `conn_box` is the mailbox all
judgements share. `handed` are the packets a stream actor got, `read` what the slave
has worked through; reports are a set in flight, because each comes on a stream of
its own. The answers of handshake tasks go through the same mailbox (`Answer`,
`HandleAnswer`); here the tasks are an environment that answers, and that has the node
taken down only when the answer is handled or lost (`NodeDown`). Which of them had the
right password is left to `NodeSession`. A `Novel` request panics at `System::new()` before it sends anything.
`NodeBack` is a removed node's next stream: `connections` has the node again, the
scheduler may give it a second judgement, and packets of the first go there, too.
`Judging` is the protocol without actors: give, pass or fail, give the next, settle;
`ImplementsJudging` maps `handed` with the mailbox to what was given, and what the
client was told to what was passed.

Operators whose comment starts with *Mutant of* are wrong variants of the
definition that follows; no specification uses them. They show for each property a
plausible bug of the code that breaks it.

## 3. The runs

| Run | Bounds | Shows |
|---|---|---|
| `scheduler_core` | 2 nodes, 3 judgements, times 0 and 1, both weights | `TypeOK`, `IndexConsistent`, `WorkAccounted`, `NoIdleBacklog`, `OnePlace`, `WorkBounded`, `PanicOnlyOnStaleTouch`, `LossOnlyWithoutReadyNode` |
| `scheduler_queue` | 2 nodes, 4 judgements, time 1, both weights | `DeadlineBounds`, `PlacementIsLoop`, `NoOvertakeOnceDue`, `ImplementsDispatching` |
| `scheduler_task_lost` | 1 node, 1 judgement | violation of `NoTaskLost` |
| `master_core` | node 1 with 2 streams and 3 handshakes, node 2 with one of each, 2 judgements | `TypeOK`, `SchedulerSurvives`, `AddressKnown`, `OneJudgementPerStream` |
| `master_dispatch_lost` | 1 node, 1 judgement | violation of `DispatchDelivered` |
| `session_core` | 2 nodes with 2 streams and 1 handshake each | `TypeOK`, `RegisteredHasStream`, `LatestStream` |
| `session_progress` | 1 node with 2 streams, 1 receive stream, 2 handshakes; fair | `DiesOfTakenDown`, `SuccessUnlessTakenDown`, `NobodyStuck`, `WrongPasswordLeaves`, `ImplementsMaster` |
| `session_not_sent` | 1 node, 1 handshake | violation of `SendSurvived` |
| `session_ping_blocks` | 1 node, no handshake; fair | violation of `LostNodeTakenDown` |
| `judgement_core` | 1 node with 2 handshakes that is taken down up to twice and comes back once, 2 judgements of 0 or 2 tests, Novel or uneven; fair | `TypeOK`, `LockStep`, `VerdictsInOrder`, `StopsSettled`, `PanicsExplained`, `ImplementsJudging`, `TestcaseCollected` |
| `judgement_ends` | 2 nodes with 1 handshake each, 2 judgements of one test or Novel; fair | `JudgementEnds` |
| `judgement_not_announced` | 1 node that stays up, 3 tests; fair | violation of `EndAnnounced` |

**Why the bounds are enough.** Node and judgement ids order ties, so no symmetry is
used. Two nodes are needed for a choice of the least loaded one and for a queue that
moves from one node to another; three judgements for a queue behind a pending one
when a third arrives. Time 0, in `scheduler_core`, gives ties and zero-length work;
with the weights 1 and 2 time 1 gives two different lengths. A judgement can be
overtaken only after the clock has passed its deadline while it still waits, which
takes four judgements on one node; four on two nodes also let two wait while both
nodes are busy. Nodes register and leave in these runs without bound. In `Master` a
second stream is what brings a removed node back, and three handshakes (right,
wrong, right) are the shortest way to be dispatched to twice; a second node, which
need not come back, is there to take over what the first one leaves. In
`session_core` two nodes share the mailboxes of the three services, with one handshake
each; ConnectionService does not die there, as that takes two handshakes of one node.
They are in `session_progress`, which follows one node through a wrong and a right
password and back again. In `Judgement` a second judgement on the same node needs
`MaxBack = 1`, and `MaxHandshake = 2` is the fewest for a double removal and for a
death of ConnectionService without any judgement; two nodes next to each other, where
one with a judgement may take ConnectionService down for the other, are in
`judgement_ends`. Test lists of length 0, 1, 2 and 3 cover the links of
`TestcaseManager::from`.

**Deadlock** is not checked (`CHECK_DEADLOCK FALSE`): an actor that has panicked, a
thread that is blocked and a system whose judgements are done really stop.

**Fairness.** The single-threaded runtime polls every actor whose mailbox is not
empty, every task that can go on and every timer: weak fairness per actor and per
task (`NodeSession!Fairness`, `Judgement!Fairness`), in `NodeSession` as long as
nothing blocks the thread; the liveness properties there end in `\/ blocked`. In
`Judgement` a slave is taken to work and its reports to arrive only as long as its
node has not been taken down. There is no fairness on clients, on what nodes send,
on connections that break, on a dispatch, or on a node going down or coming back.

### What the runs show about the code

- `scheduler_task_lost`: judgements that wait in `NODE_ZERO` when a node registers
  go into the local `returns` of `rebalance` and are gone. `LossOnlyWithoutReadyNode`
  shows that this is the only way: with one ready node nothing is lost.
- `master_dispatch_lost`: the scheduler sends the judgement's id first,
  HandlerService reads the node's id first; the lookup panics at the first dispatch.
  `AddressKnown` shows that the lookup would succeed with the ids in order.
- `judgement_not_announced`: `EventMessage::EndJudge`, for which `test_ac_prize`
  waits, is never sent.
- `session_not_sent`: `StreamMessage::Send` calls `System::new()` on a thread that
  runs a system, which panics the StreamActor: no packet leaves the master.
- `session_ping_blocks`: a ping on a broken connection blocks the only thread on an
  answer of HandlerService, which then never handles the `DownNode` it waits for.
- `PanicsExplained`, `DiesOfTakenDown`: a node with a wrong password kills the
  ConnectionService of all nodes if it has a judgement, or a second handshake with
  either password: a packet of the judgement or the other answer comes behind the
  `DeleteStream`, or a second `DeleteStream` does. One wrong handshake alone, or any
  number of right ones, does not.
- `SuccessUnlessTakenDown`: a node whose handshake overlaps its own removal is told
  of a success although the scheduler refused to promote it.
- `OneJudgementPerStream`: as nothing sends `Touch` and `UnlockSlave` is ignored, a
  node never gets a second judgement on the same stream.

Because the first dispatch stops HandlerService and the first packet stops its
StreamActor, `Judgement` starts from a dispatch that did arrive and takes a packet
as delivered once the stream actor has it: it is checked for what its own actors do,
as `Scheduler` is.

## 4. The proofs

All theorems hold for all sets of nodes and judgements and all times
(`NodeAssumption`, `JudgeAssumption`: ids are non-zero naturals; `TimeAssumption`:
times are naturals), without a bound on nodes, judgements or work. Those about
`Judgement` hold for requests with any number of test cases, of either kind, with the
two test lists of equal length or not (`RequestAssumption`). The bounds on streams,
handshakes and returns of a node are any naturals (`BoundAssumption`).

| Theorem | States | Module |
|---|---|---|
| `Inductive` | `Spec => []IInv` | `SchedulerProofs` |
| `TypeCorrect` | `Spec => []TypeOK` | `SchedulerProofs` |
| `IndexIsConsistent` | `Spec => []IndexConsistent` | `SchedulerProofs` |
| `WorkIsAccounted` | `Spec => []WorkAccounted` | `SchedulerProofs` |
| `NodesAreBusy` | `Spec => []NoIdleBacklog` | `SchedulerProofs` |
| `DispatchedOnce` | `Spec => []OnePlace` | `SchedulerProofs` |
| `DeadlinesBounded` | `Spec => []DeadlineBounds` | `SchedulerProofs` |
| `PanicsOnlyOnStaleTouch` | `Spec => PanicOnlyOnStaleTouch` | `SchedulerProofs` |
| `LossNeedsNoReadyNode` | `Spec => LossOnlyWithoutReadyNode` | `SchedulerBounds` |
| `OverdueIsNotOvertaken` | `Spec => NoOvertakeOnceDue` | `SchedulerBounds` |
| `WorkIsBounded` | `Spec => []WorkBounded` | `SchedulerBounds` |
| `SchedulerImplements` | `Spec => ImplementsDispatching` | `SchedulerRefinement` |
| `PlacementsAreLoops` | `Spec => []PlacementIsLoop` | `SchedulerRefinement` |
| `MasterInductive` | `Spec => []MInv` | `MasterProofs` |
| `SchedulerWithin` | `Spec => Scheduler!Spec`, of `Master` | `MasterProofs` |
| `MasterTypeCorrect` | `Spec => []TypeOK`, of `Master` | `MasterProofs` |
| `NobodyPanics` | `Spec => []SchedulerSurvives` | `MasterProofs` |
| `EveryAddressIsKnown` | `Spec => []AddressKnown` | `MasterProofs` |
| `OneForEachStream` | `Spec => []OneJudgementPerStream` | `MasterProofs` |
| `SessionInductive` | `Spec => []NInv` | `SessionProofs` |
| `SessionTypes` | `Spec => []TypeOK`, of `NodeSession` | `SessionProofs` |
| `NodesHaveStreams` | `Spec => []RegisteredHasStream` | `SessionProofs` |
| `DeathOfTakenDown` | `Spec => []DiesOfTakenDown` | `SessionProofs` |
| `LatestStreamTaken` | `Spec => []LatestStream` | `SessionProofs` |
| `SuccessOrTakenDown` | `Spec => SuccessUnlessTakenDown` | `SessionProofs` |
| `SessionImplements` | `Spec => ImplementsMaster` | `SessionProofs` |
| `JudgementInductive` | `Spec => []JInv` | `JudgementProofs` |
| `JudgementTypes` | `Spec => []TypeOK`, of `Judgement` | `JudgementProofs` |
| `InLockStep` | `Spec => []LockStep` | `JudgementProofs` |
| `VerdictsOrdered` | `Spec => []VerdictsInOrder` | `JudgementProofs` |
| `StopsWhenSettled` | `Spec => []StopsSettled` | `JudgementProofs` |
| `PanicsAreExplained` | `Spec => []PanicsExplained` | `JudgementProofs` |
| `JudgementImplements` | `Spec => ImplementsJudging` | `JudgementProofs` |

**The invariant of the scheduler.** None of the invariants is inductive alone: that
the index is consistent after a rebalance needs that only keyed nodes have work, the
accounting of a touch needs that a heap is finite and holds each judgement once, the
deadline bound needs the accounting. `IInv` is their conjunction, written as
predicates on the maps a handler works on (`Shape`, `Indexed`, `Accounted`, `Keyed`,
`NoneIdle`, `Placed`, `Bounded`, `Histories`), so that it can be stated of the maps
between two steps of one handler. `ServeEffect` carries it over a touch,
`FillEffect` over the placement of `rebalance`, `RebalanceEffect` over both,
`JoinEffect` over the new entry of a push; then there is one lemma per action. A
first group of lemmas shows that `TimeOf` adds up.

**Theorems about steps.** `SchedulerSteps` shows, once for each handler, that it is
a preparation followed by a transfer: first queues and outstanding judgements change
locally (`Prepared`: what is queued was queued before or is pushed now, a node that
stays keeps its queue, what joins it is due later, outstanding time passes to the
clock), then entries of `NODE_ZERO` move to ready nodes and some free nodes are handed
their first entry (`Handover`), or what waits is dropped because nobody is ready
(`Drops`). The four results follow from the two halves without looking at a handler
again. For `WorkBounded` the invariant is strengthened by `PacedInv`: every entry is
at most as long as the longest time with the largest weight (`Short`), and clock plus
outstanding time of a node is at most that many times the judgements handed to it
(`Paced`); counting judgements, of which a node's queue holds others, gives the bound.
For the refinement each handler is mapped to the action of `Dispatching` of its kind;
that a judgement is handed to one node follows from `Placed` in the next state.

**The placement of a rebalance.** `PlacementsAreLoops` ties the condition `IsPlacement`
to the loop it stands for. The order of pops tells all entries apart (`BeforeOrders`), so
a finite heap has an entry that is popped last, and an index with one size per node has
one least element (`LeastExists`). A placement of a heap is a placement of the heap
without its last entry, with that entry on the node that is least in the index the others
leave (`LastPlaced`), so there is one for each heap if there is one for each smaller heap.
A heap without one would have a smallest part without one (`SmallestSubset`), and
there is none: this takes the place of an induction, whose theorem the prover cannot
instantiate. The map from each part of the heap to its only placement satisfies the
equation of `Rounds`, which is therefore a function that satisfies it too, and the same
argument shows that the two agree.

**The mailboxes.** The theorems about `Master` assume besides that the ids of nodes and
judgements differ (`UuidAssumption`: version 4 UUIDs). `MInv` adds to the scheduler's invariant what the mailboxes
hold: an announced judgement has its address in HandlerService (`Known`), a
`DispatchJudge` is about something that was dispatched (`Announced`). `AddressKnown`
alone is not inductive, because what the scheduler announces comes from its queues:
it is submitted, and what is submitted was once a `NewTask` in its mailbox. As an id of
a node is never one of a judgement, `HandleDispatch` always fails; `NobodyPanics` is
therefore about the scheduler alone and says nothing of HandlerService. For `OneForEachStream`
the invariant counts (`Spare`): the judgements a node was handed, the `NewNode` messages
for it in the mailbox, and one if it is idle, are together no more than its streams. A
registration turns a message into an idle node, a hand-out an idle node into a judgement
(`HandsToIdle`), and only the accept loop adds a message, with its stream.

**Sessions.** A new stream is announced to the scheduler and then to ConnectionService,
a taking down to ConnectionService and to the scheduler, in messages that overtake each
other; `NInv` says what holds while some of them are under way. `Announcements`: a
`NewStream` in the mailbox is the only one of its node, it names the node's latest
stream, and the accept loop waits for it. `Deletions`: a node whose `DeleteStream` is
still to be taken is not in the scheduler, or will leave it, or has a later stream
announced behind the deletion. These two keep `HasStream`, which is
`RegisteredHasStream` while ConnectionService is alive, and `Latest`. The invariant
also says why a node with the right password does not
kill ConnectionService: as soon as its stream takes packets, such a node is in the
scheduler and in
`connections`, or announced to the latter, and stays there (`Stays`); each `Send` for it
comes behind the `NewStream` that adds it (`Reachable`), and nothing in any mailbox
takes it away. The one `DownNode` it may have is that of a failed ping, and then the
thread is blocked. Every node is either one of these or was taken down (`Untouched`).
That the taking down was of another handshake than the packet it kills by takes a second
invariant (`DInv`), proved with `NInv`: each answer in the mailbox has one task that waits
for it (`Waiting`), so a task that has sent `DownNode` has none there; as long as only
one handshake of a node has had it taken down and no other was answered, there is one
message of that taking down, first in the mailbox of HandlerService and then in that of
ConnectionService, and it finds the stream (`Once`). So when ConnectionService dies, of a
`Send` or a `DeleteStream` for a node it does not have, that node has two such handshakes
(`Crossed`). `SuccessUnlessTakenDown` follows from `Stays`, too: a
handshake of a node that stays finds it registered. The scheduler's handlers take and
keep `SchedulerProofs!IInv`, so its lemmas are used as they are, with an empty set of
judgements.

**Sessions are what `Master` assumes.** `Master` takes nodes as an environment that
announces streams and sends handshakes; `SessionImplements` shows that this environment
allows all that sessions do. The mapping shows `Master` the mailbox of the scheduler
without the questions that change nothing in it (`Kept`: a filter, written with ranks,
`Nth`, so that it can be reasoned about without recursion), that of HandlerService without
who waits for an answer and without the `DownNode` of a thread that is blocked and will
never have it taken, and of the handshakes how many were sent and how many have still to
act (`Handshakes`, `Unfinished`). A first group of lemmas says what sending and taking a
message does to the two mailboxes as `Master` has them (`SchedBoxSent`, `SchedBoxTaken`,
`HandlerBoxSent`, `HandlerBoxTaken`, `HandlerBoxBlocked`), a second what a handshake that
goes on does to the two counts (`TaskSent`, `TaskStarts`, `TaskDone`). Then each action
is mapped to the one of `Master` it is, or to a stutter. Two invariants are needed besides
`NInv`, and proved with it: a handshake comes from a node the master has taken a stream of
(`Opened`), because `Master` lets no other node send one; and a handshake in the mailbox
of HandlerService names its own node (`Tagged`). That the scheduler hands out nothing
(`NothingSent`) follows from its own invariant, as it knows no judgement.

**Judgements.** A judgement waits for at most one thing at a time: a packet on its way
to the stream, a packet the slave has not read, a verdict on its way to HandlerService, a
verdict in the mailbox of the JudgeService, or an answer of the TestcaseService. No actor
checks this, each only answers what it gets; it is the heart of `JInv` (`Turn`: the sum of
the five is at most one). The rest says what the one thing is about: packets follow the
script of the request (`Scripted`), a verdict is about the packet read last (`Answered`),
what the client was told is in order (`Ordered`), and the cursor of the test-case list is
at the last test that was sent (`Cursor`). `Phase` and `Heard` say how far a judgement is
and what its JudgeService may still hear: a `Dispatch` once, an `EndJudge` only when all
is passed. `LockStep` alone is not inductive, because nothing in it keeps a second verdict
from being under way, which would send a second test; `StopsSettled` needs `Cursor`, since
a JudgeService stops when the list ends and not when it has counted verdicts. For
`PanicsExplained` each `DownNode` is counted against the stream it deletes (`Counted`):
deletions in the mailbox, and one if the node is not in `connections`, are no more than
the times the node was taken down; and these, with the answers in the mailbox, are no
more than the handshakes answered (`Greeted`). So a node that is not in `connections`
and has one more message of its handshakes to come has had two of them answered.

For the refinement each step of an actor is mapped to the one action of `Judging` it is
for its judgement, and to a stutter for all others (`AsBefore`): sending the packet is
`Give`, the report that reaches the client `Pass` or `Fail`, halting `Settle` or `Reject`.
The death of ConnectionService is `Cut` and is the one step that concerns all judgements:
the packets in its mailbox are gone, and by `Turn` a judgement with a packet there has
passed all that was given before, so what remains given is exactly what was passed.

Every safety invariant and action property of the passing runs is the statement of a
theorem. Only model-checked is liveness (`JudgementEnds`, `TestcaseCollected`,
`NobodyStuck`, `WrongPasswordLeaves`), which the prover does not do.

## 5. Not modelled

- Contents of packets, encryption, TLS, QUIC, configuration, logging. A body that
  cannot be decoded changes nothing but the log. The configuration and the test
  clients have no state of their own.
- Full mailboxes: the mailboxes are unbounded here. actix makes a `send` wait at
  capacity, 16 by default, and refuses nothing sent with `do_send`; the waiting
  changes when a message arrives, not in which order those of one sender do.
- u64 arithmetic: sums and products are exact. `WorkBounded` says within which bound
  they stay, and `WorkAccounted` that the subtraction in `touch` does not underflow.
- A `Touch` for `NODE_ZERO`, which no caller has to send.
- The order of the handshake answer and a `GetJudge` for the same node: both tasks
  are polled by the runtime, and the models leave the order open.
- The stream of a node that is removed between `NewNode` and `NewStream`, as far as
  its packets go: it stays in `connections` (`RegisteredHasStream` is about the other
  direction). The StreamActor of a stream that was overwritten by a later one runs on.
- The slave is an environment that answers each packet once, in order, and never
  reports on a judgement it was not given.
- A client that reuses the id of a judgement.
- A report on a judgement that does not exist, for which HandlerService panics
  (`judge_state.rs:33`), and that `judge_addrs` only grows: which judgements a slave
  names and how much memory there is are outside the models.
- Which judgement a `TestCaseEnd` (`handler/testcase.rs:96`) ends at a slave that has
  two: the packet names none. `LockStep` is about what the master sends for each judgement and
  in which order, and lets each slave read its own.
- The `DownNode` after a failed write of a packet: the write comes after the
  `System::new()` that panics (`SendSurvived`), and that of a failed ping blocks the
  thread (`LostNodeTakenDown`). In `Judgement`, where packets are taken as delivered, a
  node is therefore taken down for a wrong password only.
- The growth of the size counter of `NODE_ZERO`, which `WorkAccounted` only bounds from
  below.
- These hazards have no property, for want of a promise in the repository to hold the code
  to, or because they lie outside the models as said above: the judgement a node had
  when it left (`by_deadline.rs:247`; `JudgementEnds` excepts it), the size counter of
  `NODE_ZERO` (`by_deadline.rs:237`), the ignored `UnlockSlave` (`handler/mod.rs:159`;
  `OneJudgementPerStream` shows what follows and cannot tell whether it is meant), a
  test-case file that cannot be read (`testcase.rs:107`; `JudgementEnds` excepts it),
  an unknown judgement in a report (`judge_state.rs:33`), and the order of a handshake
  answer and a first `GetJudge` (`commands/handshake.rs:49`).

## 6. Plan

- The scheduler on words of a small width, to see what the first overflow would break.
