------------------------------ MODULE Judgement ------------------------------
(***************************************************************************)
(* A judgement from its dispatch to its end: the actor JudgeService        *)
(* (src/handler/judge.rs) and the TestcaseService it starts                *)
(* (src/handler/testcase.rs), one pair per judgement, the one              *)
(* ConnectionService they all send through (src/handler/connection.rs),    *)
(* and the way of a slave's report through HandlerService to the client    *)
(* and to the JudgeService (src/commands/judge_state.rs).                  *)
(*                                                                         *)
(* The actors share one thread and a mailbox is emptied in order, so each  *)
(* action is a whole handler and the actions interleave freely.  A panic   *)
(* kills the actor whose handler it is in: its mailbox is lost, and what   *)
(* is sent to it later is dropped.                                         *)
(*                                                                         *)
(* The environment is HandlerService, which passes a Dispatch on or takes  *)
(* a node down, the handshake tasks, which answer through the same         *)
(* ConnectionService, the accept loop, which announces a further stream,   *)
(* the stream actors, which get the packets in order, and the slaves.  A   *)
(* slave sends its reports over streams of its own, so they arrive in any  *)
(* order, also when the node has been taken down: the actors of its        *)
(* receive streams are not stopped.                                        *)
(***************************************************************************)
EXTENDS Integers, FiniteSets, Sequences

CONSTANTS
  Node,         \* nodes that have connected
  Judge,        \* judgements requested by clients
  Request,      \* what clients request: [kind, stdin, stdout], see Kind
  MaxHandshake, \* bound on the handshakes of one node that are answered
  MaxBack       \* bound on how often a removed node comes back

Kind == {"Simple", "Novel"}      \* JudgementType

ASSUME NodeAssumption    == Node \subseteq Nat \ {0}
ASSUME RequestAssumption == Request \subseteq [kind : Kind, stdin : Nat, stdout : Nat]
ASSUME BoundAssumption   == MaxHandshake \in Nat /\ MaxBack \in Nat

NoNode == 0
NoTest == 0     \* Uuid::nil() of a test case; test cases are numbered from 1

VARIABLES
  request,      \* the RequestJudge of each judgement
  judge,        \* JudgeService: "waiting", "judging", "stopped", "panicked"
  judge_box,    \* its mailbox
  testcase,     \* TestcaseService: "none", "running", "stopped", "panicked"
  cur,          \* TestcaseManager::cur
  pops,         \* its mailbox: TestcaseMessage has one value, so a count
  connections,  \* ConnectionService: the nodes with a stream
  conn_box,     \* its mailbox
  conn_up,      \* FALSE once it has panicked
  assigned,     \* node each judgement was dispatched to, or NoNode
  answered,     \* answers to handshakes sent so far to each node
  downs,        \* DownNode messages handled so far for each node
  backs,        \* how often each node has come back on a further stream
  handed,       \* packets of a judgement handed to the node's stream
  read,         \* how many of them the slave has read
  reports,      \* reports on their way to HandlerService
  told          \* EventMessage::JudgeResult sent to the client, in order

judgeVars    == <<judge, judge_box>>
testcaseVars == <<testcase, cur, pops>>
connVars     == <<connections, conn_box, conn_up>>
slaveVars    == <<read, reports>>
envVars      == <<request, assigned, answered, downs, backs>>
vars == <<judgeVars, testcaseVars, connVars, slaveVars, envVars, handed, told>>

-----------------------------------------------------------------------------
(* Packets, reports and messages.                                          *)

GetJudge      == [cmd |-> "GetJudge", test |-> NoTest]
TestCase(t)   == [cmd |-> "TestCaseUpdate", test |-> t]
TestCaseEnd   == [cmd |-> "TestCaseEnd", test |-> NoTest]

\* JudgeState.  The verdicts on a test case, Complete, Accepted, WrongAnswer,
\* RuntimeError, DiedOnSignal, TimeLimitExceed and MemLimitExceed, have equal
\* handlers: they are one, Result.
State(s, t)   == [state |-> s, test |-> t]
Failure       == {"CompileError", "GeneralError"}

DispatchTo(n) == [msg |-> "Dispatch", node |-> n]
Update(st)    == [msg |-> "JudgeStateUpdate", of |-> st]
EndJudge      == [msg |-> "EndJudge"]

Send(j, pkt)  == [op |-> "Send", node |-> assigned[j], judge |-> j, packet |-> pkt]
Answer(n)     == [op |-> "Answer", node |-> n]  \* the Send of a handshake task
Delete(n)     == [op |-> "DeleteStream", node |-> n]
NewStream(n)  == [op |-> "NewStream", node |-> n]

\* do_send to the connection service.
ToConnection(msg) ==
  conn_box' = IF conn_up THEN Append(conn_box, msg) ELSE conn_box

\* A JudgeService lives until it halts or panics.
Alive(j) == judge[j] \in {"waiting", "judging"}

JudgeDies(j, how) ==
  /\ judge' = [judge EXCEPT ![j] = how]
  /\ judge_box' = [judge_box EXCEPT ![j] = <<>>]

JudgeTakes(j) == judge_box' = [judge_box EXCEPT ![j] = Tail(@)]

JudgeGets(j, msg) ==
  judge_box' = [judge_box EXCEPT ![j] = IF Alive(j) THEN Append(@, msg) ELSE @]

-----------------------------------------------------------------------------
(* Mutants of UuidMap: a test case is linked to itself; the last but one   *)
(* is marked as the end.                                                   *)
UuidMapLoops(n) == [t \in (IF n = 0 THEN {} ELSE 0 .. n) |-> IF t = 0 THEN 1 ELSE t]

UuidMapShort(n) ==
  [t \in (IF n = 0 THEN {} ELSE 0 .. n) |-> IF t >= n - 1 THEN NoTest ELSE t + 1]

(* TestcaseManager: uuid_map links each test case to the next one, from    *)
(* nil to the first; NoTest stands for TestcaseState::End.                 *)
UuidMap(n) ==
  [t \in (IF n = 0 THEN {} ELSE 0 .. n) |-> IF t = n THEN NoTest ELSE t + 1]

NextTest(n, t) == IF t \in DOMAIN UuidMap(n) THEN UuidMap(n)[t] ELSE NoTest

-----------------------------------------------------------------------------
Init ==
  /\ request \in [Judge -> Request]
  /\ judge = [j \in Judge |-> "waiting"] /\ judge_box = [j \in Judge |-> <<>>]
  /\ testcase = [j \in Judge |-> "none"]
  /\ cur = [j \in Judge |-> NoTest] /\ pops = [j \in Judge |-> 0]
  /\ connections = Node /\ conn_box = <<>> /\ conn_up = TRUE
  /\ assigned = [j \in Judge |-> NoNode] /\ downs = [n \in Node |-> 0]
  /\ answered = [n \in Node |-> 0] /\ backs = [n \in Node |-> 0]
  /\ handed = [j \in Judge |-> <<>>] /\ read = [j \in Judge |-> 0]
  /\ reports = {} /\ told = [j \in Judge |-> <<>>]

(* HandlerService passes a DispatchJudge of the scheduler on.  Nothing     *)
(* sends the scheduler a Touch, so a node is given a second judgement only *)
(* when it has come back; the message may be behind a DownNode for it.     *)
Dispatch(j, n) ==
  /\ assigned[j] = NoNode
  /\ Cardinality({k \in Judge : assigned[k] = n}) <= backs[n]
  /\ assigned' = [assigned EXCEPT ![j] = n]
  /\ JudgeGets(j, DispatchTo(n))
  /\ UNCHANGED <<request, answered, downs, backs, judge, testcaseVars, connVars, slaveVars,
                 handed, told>>

(* A handshake task answers, whether the password was right or wrong.      *)
Handshake(n) ==
  /\ answered[n] < MaxHandshake
  /\ answered' = [answered EXCEPT ![n] = @ + 1]
  /\ ToConnection(Answer(n))
  /\ UNCHANGED <<request, assigned, downs, backs, judgeVars, testcaseVars, connections,
                 conn_up, slaveVars, handed, told>>

\* The handshakes of n whose tasks await that the answer is handled.
Awaiting(n) == {i \in DOMAIN conn_box : conn_box[i] = Answer(n)}

(* HandlerService handles a DownNode.  A handshake task sends it after a   *)
(* wrong password, when its answer has been handled or is lost.            *)
NodeDown(n) ==
  /\ downs[n] < answered[n] - Cardinality(Awaiting(n))
  /\ downs' = [downs EXCEPT ![n] = @ + 1]
  /\ ToConnection(Delete(n))
  /\ UNCHANGED <<request, assigned, answered, backs, judgeVars, testcaseVars, connections,
                 conn_up, slaveVars, handed, told>>

(* A node that was taken down opens a further stream, on which it is the   *)
(* same node: what its earlier judgements still send goes there, too.      *)
NodeBack(n) ==
  /\ backs[n] < downs[n] /\ backs[n] < MaxBack
  /\ backs' = [backs EXCEPT ![n] = @ + 1]
  /\ ToConnection(NewStream(n))
  /\ UNCHANGED <<request, assigned, answered, downs, judgeVars, testcaseVars, connections,
                 conn_up, slaveVars, handed, told>>

-----------------------------------------------------------------------------
(* JudgeService.                                                           *)

Incoming(j, msg) == Alive(j) /\ judge_box[j] # <<>> /\ Head(judge_box[j]).msg = msg

\* Uneven lists of files fail the assertion of TestcaseManager::from.
WellFormed(j) == request[j].stdin = request[j].stdout

(* Mutant of HandleDispatch: testcase_addr is not set.                     *)
HandleDispatchForgets(j) ==
  /\ Incoming(j, "Dispatch")
  /\ request[j].kind = "Simple" /\ WellFormed(j)
  /\ judge' = [judge EXCEPT ![j] = "judging"]
  /\ JudgeTakes(j)
  /\ ToConnection(Send(j, GetJudge))
  /\ UNCHANGED <<testcaseVars, connections, conn_up, slaveVars, envVars, handed, told>>

HandleDispatch(j) ==
  /\ Incoming(j, "Dispatch")
  /\ request[j].kind = "Simple" /\ WellFormed(j)
  /\ judge' = [judge EXCEPT ![j] = "judging"]
  /\ JudgeTakes(j)
  /\ testcase' = [testcase EXCEPT ![j] = "running"]
  /\ ToConnection(Send(j, GetJudge))
  /\ UNCHANGED <<cur, pops, connections, conn_up, slaveVars, envVars, handed, told>>

\* TestcaseManager::from fails its assertion.
UnevenPanics(j) ==
  /\ Incoming(j, "Dispatch")
  /\ request[j].kind = "Simple" /\ ~WellFormed(j)
  /\ JudgeDies(j, "panicked")
  /\ UNCHANGED <<testcaseVars, connVars, slaveVars, envVars, handed, told>>

(* A Novel judgement starts with System::new() on a thread that already    *)
(* runs one, which panics before anything is sent.                         *)
NovelPanics(j) ==
  /\ Incoming(j, "Dispatch")
  /\ request[j].kind = "Novel"
  /\ JudgeDies(j, "panicked")
  /\ UNCHANGED <<testcaseVars, connVars, slaveVars, envVars, handed, told>>

\* Mutants of Asking: a started compilation asks too; a verdict does not.
AskingEarly == {"DoCompile", "CompleteCompile", "Result"}
AskingOnce  == {"CompleteCompile"}

\* The states after which the next test case is asked for.
Asking == {"CompleteCompile", "Result"}

(* JudgeStateUpdate: a finished compilation or test asks for the next test *)
(* case, unless no Dispatch came before it and testcase_addr is None; a    *)
(* failure halts; DoCompile is only logged.                                *)
HandleUpdate(j) ==
  LET state == Head(judge_box[j]).of.state
      asks  == state \in Asking
  IN  /\ Incoming(j, "JudgeStateUpdate")
      /\ pops' = [pops EXCEPT ![j] = IF asks /\ testcase[j] = "running" THEN @ + 1 ELSE @]
      /\ IF state \in Failure THEN JudgeDies(j, "stopped")
         ELSE IF asks /\ testcase[j] = "none" THEN JudgeDies(j, "panicked")
         ELSE JudgeTakes(j) /\ UNCHANGED judge
      /\ UNCHANGED <<testcase, cur, connVars, slaveVars, envVars, handed, told>>

HandleEndJudge(j) ==
  /\ Incoming(j, "EndJudge")
  /\ JudgeDies(j, "stopped")
  /\ UNCHANGED <<testcaseVars, connVars, slaveVars, envVars, handed, told>>

-----------------------------------------------------------------------------
(* TestcaseService.                                                        *)

Popping(j) == testcase[j] = "running" /\ pops[j] > 0
NextOf(j)  == NextTest(request[j].stdin, cur[j])

PopTest(j) ==
  /\ Popping(j)
  /\ NextOf(j) # NoTest
  /\ cur' = [cur EXCEPT ![j] = NextOf(j)]
  /\ pops' = [pops EXCEPT ![j] = @ - 1]
  /\ ToConnection(Send(j, TestCase(NextOf(j))))
  /\ UNCHANGED <<testcase, judgeVars, connections, conn_up, slaveVars, envVars, handed, told>>

\* A file of the test case cannot be read: expect panics.
PopFails(j) ==
  /\ Popping(j)
  /\ NextOf(j) # NoTest
  /\ cur' = [cur EXCEPT ![j] = NextOf(j)]
  /\ testcase' = [testcase EXCEPT ![j] = "panicked"]
  /\ pops' = [pops EXCEPT ![j] = 0]
  /\ UNCHANGED <<judgeVars, connVars, slaveVars, envVars, handed, told>>

\* No test case is left.  HandlerService ignores the UnlockSlave sent here.
PopEnd(j) ==
  /\ Popping(j)
  /\ NextOf(j) = NoTest
  /\ testcase' = [testcase EXCEPT ![j] = "stopped"]
  /\ pops' = [pops EXCEPT ![j] = 0]
  /\ ToConnection(Send(j, TestCaseEnd))
  /\ JudgeGets(j, EndJudge)
  /\ UNCHANGED <<judge, cur, connections, conn_up, slaveVars, envVars, handed, told>>

(* Mutant of TestcaseDropped: an address is kept while test cases are left. *)
TestcaseHeld(j) ==
  /\ testcase[j] = "running" /\ pops[j] = 0 /\ ~Alive(j) /\ NextOf(j) = NoTest
  /\ testcase' = [testcase EXCEPT ![j] = "stopped"]
  /\ UNCHANGED <<cur, pops, judgeVars, connVars, slaveVars, envVars, handed, told>>

\* The JudgeService held the only address: without it the actor stops once its
\* mailbox is empty.
TestcaseDropped(j) ==
  /\ testcase[j] = "running" /\ pops[j] = 0 /\ ~Alive(j)
  /\ testcase' = [testcase EXCEPT ![j] = "stopped"]
  /\ UNCHANGED <<cur, pops, judgeVars, connVars, slaveVars, envVars, handed, told>>

-----------------------------------------------------------------------------
(* ConnectionService.  It indexes connections, which panics without an     *)
(* element for the node.                                                   *)

ConnectionTakes(op) ==
  /\ conn_up /\ conn_box # <<>> /\ Head(conn_box).op = op
  /\ conn_box' = Tail(conn_box)
  /\ UNCHANGED <<conn_up, judgeVars, testcaseVars, slaveVars, envVars, told>>

HandleNewStream ==
  /\ ConnectionTakes("NewStream")
  /\ connections' = connections \cup {Head(conn_box).node}
  /\ UNCHANGED handed

(* Mutant of HandleSend: the stream is taken out of connections to be used. *)
HandleSendTakes ==
  /\ ConnectionTakes("Send") /\ Head(conn_box).node \in connections
  /\ handed' = [handed EXCEPT ![Head(conn_box).judge] = Append(@, Head(conn_box).packet)]
  /\ connections' = connections \ {Head(conn_box).node}

HandleSend ==
  /\ ConnectionTakes("Send") /\ Head(conn_box).node \in connections
  /\ handed' = [handed EXCEPT ![Head(conn_box).judge] = Append(@, Head(conn_box).packet)]
  /\ UNCHANGED connections

HandleAnswer ==
  /\ ConnectionTakes("Answer") /\ Head(conn_box).node \in connections
  /\ UNCHANGED <<connections, handed>>

HandleDelete ==
  /\ ConnectionTakes("DeleteStream") /\ Head(conn_box).node \in connections
  /\ connections' = connections \ {Head(conn_box).node}
  /\ UNCHANGED handed

ConnectionPanics ==
  /\ conn_up /\ conn_box # <<>>
  /\ Head(conn_box).op \in {"Send", "Answer", "DeleteStream"}
  /\ Head(conn_box).node \notin connections
  /\ conn_up' = FALSE
  /\ conn_box' = <<>>
  /\ UNCHANGED <<connections, judgeVars, testcaseVars, slaveVars, envVars, handed, told>>

-----------------------------------------------------------------------------
(* The slave works through the packets it gets.                            *)

Reads(j, cmd) ==
  /\ read[j] < Len(handed[j]) /\ handed[j][read[j] + 1].cmd = cmd
  /\ read' = [read EXCEPT ![j] = @ + 1]
  /\ UNCHANGED <<judgeVars, testcaseVars, connVars, envVars, handed, told>>

Reports(j, states) == reports' = reports \cup {<<j, st>> : st \in states}

Compile(j) ==
  /\ Reads(j, "GetJudge")
  /\ \E result \in {"CompleteCompile", "CompileError"} :
       Reports(j, {State("DoCompile", NoTest), State(result, NoTest)})

RunTest(j) ==
  /\ Reads(j, "TestCaseUpdate")
  /\ LET t == handed[j][read[j] + 1].test
     IN  \E result \in {State("Result", t), State("GeneralError", NoTest)} :
           Reports(j, {result})

(* HandlerService gets a report: handle_judge_state tells the client, then *)
(* passes it on to the JudgeService, whose address it keeps for good.      *)
Report(j) ==
  \E r \in reports :
    /\ r[1] = j
    /\ reports' = reports \ {r}
    /\ told' = [told EXCEPT ![j] = Append(@, r[2])]
    /\ JudgeGets(j, Update(r[2]))
    /\ UNCHANGED <<judge, read, testcaseVars, connVars, envVars, handed>>

-----------------------------------------------------------------------------
JudgeStep(j) ==
  \/ HandleDispatch(j) \/ UnevenPanics(j) \/ NovelPanics(j)
  \/ HandleUpdate(j) \/ HandleEndJudge(j)
TestcaseStep(j) == PopTest(j) \/ PopFails(j) \/ PopEnd(j) \/ TestcaseDropped(j)
ConnectionStep  ==
  HandleNewStream \/ HandleSend \/ HandleAnswer \/ HandleDelete \/ ConnectionPanics
SlaveStep(j)    == Compile(j) \/ RunTest(j)

Next ==
  \/ \E j \in Judge, n \in Node : Dispatch(j, n)
  \/ \E n \in Node : Handshake(n) \/ NodeDown(n) \/ NodeBack(n)
  \/ \E j \in Judge : JudgeStep(j) \/ TestcaseStep(j) \/ SlaveStep(j) \/ Report(j)
  \/ ConnectionStep

Spec == Init /\ [][Next]_vars

(* The runtime polls every actor that has a message; a slave answers, and  *)
(* its reports arrive, as long as its node is not taken down.  Nothing     *)
(* says that a node is found for a judgement, goes down or comes back.     *)
Connected(j) == assigned[j] # NoNode /\ downs[assigned[j]] = 0

Fairness ==
  /\ \A j \in Judge : /\ WF_vars(JudgeStep(j)) /\ WF_vars(TestcaseStep(j))
                      /\ WF_vars(Connected(j) /\ SlaveStep(j))
                      /\ WF_vars(Connected(j) /\ Report(j))
  /\ WF_vars(ConnectionStep)

FairSpec == Spec /\ Fairness

-----------------------------------------------------------------------------
(* Invariants.                                                             *)

Packet   == [cmd : {"GetJudge", "TestCaseUpdate", "TestCaseEnd"}, test : Nat]
StateSet == [state : {"DoCompile", "CompleteCompile", "Result"} \cup Failure, test : Nat]
JudgeMessage == [msg : {"Dispatch"}, node : Node] \cup
                [msg : {"JudgeStateUpdate"}, of : StateSet] \cup {EndJudge}
ConnectionMessage ==
  [op : {"Send"}, node : Node, judge : Judge, packet : Packet] \cup
  [op : {"Answer", "DeleteStream", "NewStream"}, node : Node]

(* The types of the actors' states and mailboxes; a JudgeService that is   *)
(* judging has started its TestcaseService.                                *)
TypeOK ==
  /\ request \in [Judge -> Request]
  /\ judge \in [Judge -> {"waiting", "judging", "stopped", "panicked"}]
  /\ judge_box \in [Judge -> Seq(JudgeMessage)]
  /\ testcase \in [Judge -> {"none", "running", "stopped", "panicked"}]
  /\ cur \in [Judge -> Nat] /\ pops \in [Judge -> Nat]
  /\ connections \subseteq Node /\ conn_box \in Seq(ConnectionMessage)
  /\ conn_up \in BOOLEAN
  /\ assigned \in [Judge -> Node \cup {NoNode}]
  /\ answered \in [Node -> 0 .. MaxHandshake]
  /\ downs \in [Node -> 0 .. MaxHandshake] /\ backs \in [Node -> 0 .. MaxBack]
  /\ handed \in [Judge -> Seq(Packet)] /\ read \in [Judge -> Nat]
  /\ reports \subseteq Judge \X StateSet
  /\ told \in [Judge -> Seq(StateSet)]
  /\ \A j \in Judge : judge[j] = "judging" => testcase[j] # "none"

Tests(j) == request[j].stdin

\* The packets of j that are on their way to the stream.
Sends(j) == {i \in DOMAIN conn_box : conn_box[i].op = "Send" /\ conn_box[i].judge = j}
Given(j) == Len(handed[j]) + Cardinality(Sends(j))

Script(j) == <<GetJudge>> \o [t \in 1 .. Tests(j) |-> TestCase(t)] \o <<TestCaseEnd>>

ToldAt(j, states) == {i \in DOMAIN told[j] : told[j][i].state \in states}
Passing           == {"CompleteCompile", "Result"}
Passed(j)         == Cardinality(ToldAt(j, Passing))
Failed(j)         == ToldAt(j, Failure) # {}

(* The slave gets the program, then each test case once and in the order   *)
(* of the request, then the end, and nothing else; and none of these       *)
(* before the client has been told how the one before it went.             *)
LockStep ==
  \A j \in Judge :
    /\ Given(j) <= Len(Script(j)) /\ Given(j) <= 1 + Passed(j)
    /\ \A i \in DOMAIN handed[j] : handed[j][i] = Script(j)[i]
    /\ \A i \in Sends(j) : conn_box[i].packet = Script(j)[Len(handed[j]) + 1]

\* How many of the verdicts to the client come before number i.
Before(j, i) == Cardinality({k \in ToldAt(j, Passing) : k < i})

(* The client sees the verdicts in the order of the test cases, one each,  *)
(* only after the compilation, and no verdict besides a failure that comes *)
(* last.                                                                   *)
VerdictsInOrder ==
  \A j \in Judge :
    /\ Passed(j) <= Tests(j) + 1
    /\ \A i \in ToldAt(j, Passing) :
         told[j][i] = IF Before(j, i) = 0 THEN State("CompleteCompile", NoTest)
                                          ELSE State("Result", Before(j, i))
    /\ \A i \in ToldAt(j, Failure), k \in ToldAt(j, Passing \cup Failure) : k <= i

(* A JudgeService stops only when the judgement is settled: the client has *)
(* been told of a failure or of the verdict on every test case, and the    *)
(* slave has nothing of it left to do and no verdict left to report.       *)
StopsSettled ==
  \A j \in Judge : judge[j] = "stopped" =>
    /\ Failed(j) \/ Passed(j) = Tests(j) + 1
    /\ \A i \in DOMAIN handed[j] : i > read[j] => handed[j][i] = TestCaseEnd
    /\ \A i \in Sends(j) : conn_box[i].packet = TestCaseEnd
    /\ \A r \in reports : r[1] = j => r[2].state = "DoCompile"

(* What can kill an actor: a JudgeService only dies of a request it cannot *)
(* serve.  The ConnectionService only dies when a node is taken down that  *)
(* something else is still sent to or that is taken down again: a node     *)
(* with a judgement, or with a handshake besides the one it is taken down  *)
(* for.  One wrong handshake alone, or any number of right ones, is safe.  *)
PanicsExplained ==
  /\ \A j \in Judge : judge[j] = "panicked" => request[j].kind = "Novel" \/ ~WellFormed(j)
  /\ ~conn_up => \E n \in Node : /\ downs[n] > 0
                                 /\ answered[n] > 1 \/ \E j \in Judge : assigned[j] = n

-----------------------------------------------------------------------------
(* Liveness.                                                               *)

(* A judgement that was given to a node comes to its end, unless the node  *)
(* is taken down, the connection service has died, or a file of a test     *)
(* case could not be read.                                                 *)
JudgementEnds ==
  \A j \in Judge : Connected(j) ~>
    ~Alive(j) \/ testcase[j] = "panicked" \/ ~conn_up \/ ~Connected(j)

(* No TestcaseService outlives its JudgeService for good.                  *)
TestcaseCollected ==
  \A j \in Judge : ~Alive(j) ~> testcase[j] # "running"

-----------------------------------------------------------------------------
(* What the code does not do.                                              *)

(* src/tests/mod.rs waits for EventMessage::EndJudge after a judgement     *)
(* that went well; it would be in told.                                    *)
EndAnnounced ==
  \A j \in Judge : Connected(j) ~>
    \/ \E i \in 1 .. Len(told[j]) : told[j][i].state = "EndJudge"
    \/ Failed(j) \/ testcase[j] = "panicked" \/ ~conn_up \/ ~Connected(j)
=============================================================================
