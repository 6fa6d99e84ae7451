----------------------------- MODULE JudgementProofs -----------------------------
(***************************************************************************)
(* Theorems about Judgement: its invariants, that it implements Judging,   *)
(* and the inductive invariant they follow from.                           *)
(***************************************************************************)
EXTENDS MCJudgement, Mailboxes

-----------------------------------------------------------------------------
(* What is under way of a judgement: its turn.                             *)

Verdict == Passing \cup Failure

OnWay(j)    == Cardinality(Sends(j))              \* packets to the stream
Out(j)      == {m \in Content(conn_box) : m.op = "Send" /\ m.judge = j}
Unread(j)   == Len(handed[j]) - read[j]           \* packets at the slave
Own(j)      == {r \in reports : r[1] = j}         \* reports to HandlerService
Coming(j)   == Cardinality({r \in Own(j) : r[2].state \in Verdict})
VerdictUpdate == [msg : {"JudgeStateUpdate"}, of : [state : Verdict, test : Nat]]
Updates(j)  == Cardinality(At(judge_box[j], VerdictUpdate))   \* verdicts to the judge
Fails(j)    == Cardinality(ToldAt(j, Failure))    \* failures the client knows of

Underway(j) == OnWay(j) + Unread(j) + Coming(j) + Updates(j) + pops[j]

\* At most one of these is at work; what the slave has read, the client has
\* been told of or will be; after a failure only its update is left.
Turn(j) ==
  /\ read[j] <= Len(handed[j]) /\ read[j] <= Tests(j) + 1
  /\ Underway(j) <= 1
  /\ read[j] = Passed(j) + Fails(j) + Coming(j)
  /\ Fails(j) > 0 => OnWay(j) = 0 /\ Unread(j) = 0 /\ Coming(j) = 0 /\ pops[j] = 0
  /\ pops[j] > 0 => judge[j] = "judging" /\ testcase[j] = "running"

-----------------------------------------------------------------------------
(* What it is about.                                                       *)

\* Packet number i of the script.
PacketAt(j, i) ==
  IF i = 1 THEN GetJudge ELSE IF i = Tests(j) + 2 THEN TestCaseEnd ELSE TestCase(i - 1)

\* What is handed to the stream is the script so far, what is on the way is
\* the next packet, to the judgement's node.
Scripted(j) ==
  /\ Given(j) <= Tests(j) + 2
  /\ \A i \in DOMAIN handed[j] : handed[j][i] = PacketAt(j, i)
  /\ \A m \in Out(j) : m.node = assigned[j] /\ m.packet = PacketAt(j, Len(handed[j]) + 1)

\* The verdicts a slave can give on packet number i.
VerdictsOn(i) ==
  IF i = 1 THEN {State("CompleteCompile", NoTest), State("CompileError", NoTest)}
           ELSE {State("Result", i - 1), State("GeneralError", NoTest)}

\* A verdict under way is about the packet that was read last.
Answered(j) ==
  \A r \in Own(j) : r[2].state \in Verdict => r[2] \in VerdictsOn(read[j])

\* VerdictsInOrder, without the bound that Turn implies.
Ordered(j) ==
  /\ \A i \in ToldAt(j, Passing) :
       told[j][i] = IF Before(j, i) = 0 THEN State("CompleteCompile", NoTest)
                                        ELSE State("Result", Before(j, i))
  /\ \A i \in ToldAt(j, Failure), k \in ToldAt(j, Verdict) : k <= i

\* The cursor is at the last test case that was sent; after that the
\* connection service may have died with the packet.
Cursor(j) ==
  /\ cur[j] <= Tests(j)
  /\ testcase[j] = "running" =>
       \/ Given(j) = cur[j] + 1
       \/ ~conn_up /\ Underway(j) = 0

-----------------------------------------------------------------------------
(* How far it is.                                                          *)

\* All is passed, and the slave has the end unless it cannot be reached.
Complete(j) == Passed(j) = Tests(j) + 1 /\ (Given(j) = Tests(j) + 2 \/ ~conn_up)

Unstarted(j) ==
  /\ judge[j] \in {"waiting", "panicked"} /\ Len(judge_box[j]) <= 1
  /\ cur[j] = 0 /\ pops[j] = 0 /\ handed[j] = <<>> /\ read[j] = 0 /\ told[j] = <<>>
  /\ OnWay(j) = 0 /\ Own(j) = {}

Started(j) == judge[j] \in {"judging", "stopped"} /\ assigned[j] # NoNode

Phase(j) ==
  /\ IF testcase[j] = "none" THEN Unstarted(j) ELSE Started(j)
  /\ assigned[j] = NoNode => judge[j] = "waiting" /\ judge_box[j] = <<>>
  /\ judge[j] = "panicked" => request[j].kind = "Novel" \/ ~WellFormed(j)
  /\ judge[j] = "stopped" => Fails(j) > 0 \/ Complete(j)

\* What a JudgeService will hear of.
Heard(j) ==
  \A m \in Content(judge_box[j]) :
    /\ m.msg = "Dispatch" => testcase[j] = "none"
    /\ m.msg = "EndJudge" => testcase[j] = "stopped" /\ Complete(j)
    /\ m.msg = "JudgeStateUpdate" =>
         /\ testcase[j] # "none"
         /\ m.of.state \in Failure => Fails(j) > 0
         /\ m.of.state \in Passing => Fails(j) = 0

JudgementInv(j) ==
  /\ Turn(j) /\ Scripted(j) /\ Answered(j) /\ Ordered(j) /\ Cursor(j)
  /\ Phase(j) /\ Heard(j)

-----------------------------------------------------------------------------
(* The connection service.                                                 *)

\* Each DownNode deletes a stream or will try to.
Counted(n) ==
  Count(conn_box, Delete(n)) + (IF n \in connections THEN 0 ELSE 1) <= downs[n]

\* Each follows a handshake that was answered before.
Greeted(n) == downs[n] + Count(conn_box, Answer(n)) <= answered[n]

Explained ==
  ~conn_up => \E n \in Node : /\ downs[n] > 0
                              /\ answered[n] > 1 \/ \E j \in Judge : assigned[j] = n

Lost == ~conn_up => conn_box = <<>>

(* The inductive invariant.                                                *)
JInv ==
  /\ TypeOK /\ IsFiniteSet(reports)
  /\ \A j \in Judge : JudgementInv(j)
  /\ \A n \in Node : Counted(n) /\ Greeted(n)
  /\ Explained /\ Lost

-----------------------------------------------------------------------------
(* The numbers and the script.                                             *)

LEMMA RequestTypes ==
  ASSUME TypeOK, NEW j \in Judge
  PROVE  Tests(j) \in Nat /\ request[j].stdin \in Nat /\ request[j].kind \in Kind
BY RequestAssumption DEF TypeOK, Tests

LEMMA ScriptPackets ==
  ASSUME TypeOK, NEW j \in Judge
  PROVE  /\ Len(Script(j)) = Tests(j) + 2
         /\ \A i \in 1 .. Tests(j) + 2 : Script(j)[i] = PacketAt(j, i)
<1> DEFINE tests == [t \in 1 .. Tests(j) |-> TestCase(t)]
<1>1. Tests(j) \in Nat
  BY RequestTypes
<1>2. /\ GetJudge \in Packet /\ TestCaseEnd \in Packet
      /\ \A t \in Nat : TestCase(t) \in Packet
  BY DEF GetJudge, TestCaseEnd, TestCase, Packet, NoTest
<1>3. /\ tests \in Seq(Packet) /\ Len(tests) = Tests(j)
      /\ \A t \in 1 .. Tests(j) : tests[t] = TestCase(t)
  BY <1>1, <1>2
<1> HIDE DEF tests
<1>4. <<GetJudge>> \in Seq(Packet) /\ <<TestCaseEnd>> \in Seq(Packet)
  BY <1>2
<1>5. Script(j) = <<GetJudge>> \o tests \o <<TestCaseEnd>>
  BY DEF Script, tests
<1> QED
  BY <1>1, <1>3, <1>4, <1>5 DEF PacketAt

\* The sets of messages that are counted.
LEMMA Kinds ==
  ASSUME TypeOK, NEW j \in Judge
  PROVE  /\ Sends(j) = At(conn_box, {m \in ConnectionMessage : m.op = "Send" /\ m.judge = j})
         /\ \A X : ToldAt(j, X) = At(told[j], {st \in StateSet : st.state \in X})
         /\ Passing \subseteq Verdict /\ Failure \subseteq Verdict
         /\ Passing \cap Failure = {} /\ "DoCompile" \notin Verdict
<1>1. Sends(j) = At(conn_box, {m \in ConnectionMessage : m.op = "Send" /\ m.judge = j})
  <2>1. \A i \in DOMAIN conn_box : conn_box[i] \in ConnectionMessage
    BY DEF TypeOK
  <2> QED
    BY <2>1 DEF Sends, At
<1>2. ASSUME NEW X PROVE ToldAt(j, X) = At(told[j], {st \in StateSet : st.state \in X})
  <2>1. \A i \in DOMAIN told[j] : told[j][i] \in StateSet
    BY DEF TypeOK
  <2> QED
    BY <2>1 DEF ToldAt, At
<1> QED
  BY <1>1, <1>2 DEF Verdict, Passing, Failure

LEMMA Numbers ==
  ASSUME TypeOK, IsFiniteSet(reports), NEW j \in Judge
  PROVE  /\ OnWay(j) \in Nat /\ Coming(j) \in Nat /\ Updates(j) \in Nat
         /\ Passed(j) \in Nat /\ Fails(j) \in Nat
         /\ read[j] \in Nat /\ pops[j] \in Nat /\ cur[j] \in Nat
         /\ Len(handed[j]) \in Nat /\ Given(j) = Len(handed[j]) + OnWay(j)
<1>1. ASSUME NEW b, NEW S, b \in Seq(S), NEW M PROVE Cardinality(At(b, M)) \in Nat
  <2>1. At(b, M) \subseteq 1 .. Len(b) /\ Len(b) \in Nat
    BY <1>1 DEF At
  <2> QED
    BY <2>1, Positions
<1>2. /\ conn_box \in Seq(ConnectionMessage) /\ judge_box[j] \in Seq(JudgeMessage)
      /\ told[j] \in Seq(StateSet) /\ handed[j] \in Seq(Packet)
      /\ read[j] \in Nat /\ pops[j] \in Nat /\ cur[j] \in Nat
  BY DEF TypeOK
<1>3. OnWay(j) \in Nat
  BY <1>1, <1>2, Kinds DEF OnWay
<1>4. Updates(j) \in Nat
  BY <1>1, <1>2 DEF Updates
<1>5. Passed(j) \in Nat /\ Fails(j) \in Nat
  BY <1>1, <1>2, Kinds DEF Passed, Fails
<1>6. Coming(j) \in Nat
  <2>1. {r \in Own(j) : r[2].state \in Verdict} \subseteq reports
    BY DEF Own
  <2> QED
    BY <2>1, FS_Subset, FS_CardinalityType DEF Coming
<1> QED
  BY <1>2, <1>3, <1>4, <1>5, <1>6 DEF Given, OnWay

-----------------------------------------------------------------------------
(* What a step leaves alone.                                               *)

LEMMA ToldKept ==
  ASSUME NEW j \in Judge, told'[j] = told[j]
  PROVE  /\ Passed(j)' = Passed(j) /\ Fails(j)' = Fails(j)
         /\ Ordered(j) => Ordered(j)'
<1>1. \A X : ToldAt(j, X)' = ToldAt(j, X)
  BY DEF ToldAt
<1> QED
  BY <1>1 DEF Passed, Fails, Ordered, Before

\* Nothing of judgement j.
Aside(j) ==
  /\ request' = request /\ conn_up' = conn_up
  /\ judge'[j] = judge[j] /\ judge_box'[j] = judge_box[j] /\ testcase'[j] = testcase[j]
  /\ cur'[j] = cur[j] /\ pops'[j] = pops[j] /\ assigned'[j] = assigned[j]
  /\ handed'[j] = handed[j] /\ read'[j] = read[j] /\ told'[j] = told[j]
  /\ OnWay(j)' = OnWay(j) /\ Out(j)' = Out(j) /\ Own(j)' = Own(j)

LEMMA AsideKeeps ==
  ASSUME NEW j \in Judge, JudgementInv(j), Aside(j)
  PROVE  JudgementInv(j)'
<1>1. Passed(j)' = Passed(j) /\ Fails(j)' = Fails(j) /\ Ordered(j)'
  BY ToldKept DEF Aside, JudgementInv
<1>2. /\ Coming(j)' = Coming(j) /\ Updates(j)' = Updates(j) /\ Unread(j)' = Unread(j)
      /\ Given(j)' = Given(j) /\ Tests(j)' = Tests(j)
  BY DEF Aside, Coming, Updates, Unread, Given, OnWay, Tests
<1>3. Turn(j)'
  BY <1>1, <1>2 DEF Underway, Aside, JudgementInv, Turn
<1>4. Scripted(j)'
  BY <1>1, <1>2 DEF Aside, JudgementInv, Scripted, PacketAt
<1>5. Answered(j)'
  BY <1>1, <1>2 DEF Aside, JudgementInv, Answered
<1>6. Cursor(j)'
  BY <1>1, <1>2 DEF Underway, Aside, JudgementInv, Cursor
<1>7. Phase(j)'
  BY <1>1, <1>2
  DEF Aside, JudgementInv, Phase, Unstarted, Started, Complete, WellFormed
<1>8. Heard(j)'
  BY <1>1, <1>2 DEF Aside, JudgementInv, Heard, Complete, Content
<1> QED
  BY <1>1, <1>3, <1>4, <1>5, <1>6, <1>7, <1>8 DEF JudgementInv

-----------------------------------------------------------------------------
(* The mailbox of the connection service.                                  *)

LEMMA Messages ==
  ASSUME TypeOK, NEW j \in Judge, assigned[j] # NoNode
  PROVE  \A pkt \in Packet :
           /\ Send(j, pkt) \in ConnectionMessage
           /\ Send(j, pkt).op = "Send" /\ Send(j, pkt).judge = j
           /\ Send(j, pkt).node = assigned[j] /\ Send(j, pkt).packet = pkt
           /\ \A n \in Node : Send(j, pkt) # Delete(n) /\ Send(j, pkt) # Answer(n)
BY DEF TypeOK, Send, ConnectionMessage, Delete, Answer

LEMMA Packets ==
  /\ GetJudge \in Packet /\ TestCaseEnd \in Packet
  /\ \A t \in Nat : TestCase(t) \in Packet
BY DEF GetJudge, TestCaseEnd, TestCase, Packet, NoTest

\* Nothing is posted or handled.
LEMMA BoxKept ==
  ASSUME UNCHANGED conn_box
  PROVE  /\ \A j \in Judge : OnWay(j)' = OnWay(j) /\ Out(j)' = Out(j)
         /\ \A x : Count(conn_box, x)' = Count(conn_box, x)
BY DEF OnWay, Sends, Out, Content, Count, At

(* A message that is posted is on its way, unless nobody is there to get it. *)
LEMMA Posted ==
  ASSUME TypeOK, NEW m \in ConnectionMessage, ToConnection(m)
  PROVE  /\ conn_box' \in Seq(ConnectionMessage)
         /\ ~conn_up => conn_box' = conn_box
         /\ \A j \in Judge :
              /\ conn_up /\ m.op = "Send" /\ m.judge = j =>
                   OnWay(j)' = OnWay(j) + 1 /\ Out(j)' = Out(j) \cup {m}
              /\ ~(conn_up /\ m.op = "Send" /\ m.judge = j) =>
                   OnWay(j)' = OnWay(j) /\ Out(j)' = Out(j)
         /\ \A x : /\ Count(conn_box, x) \in Nat
                  /\ Count(conn_box, x)' =
                       Count(conn_box, x) + (IF conn_up /\ m = x THEN 1 ELSE 0)
<1> DEFINE Ours(j) == {x \in ConnectionMessage : x.op = "Send" /\ x.judge = j}
<1>1. conn_box \in Seq(ConnectionMessage) /\ conn_up \in BOOLEAN
  BY DEF TypeOK
<1>2. conn_box' = (IF conn_up THEN Append(conn_box, m) ELSE conn_box)
  BY DEF ToConnection
<1>3. conn_box' \in Seq(ConnectionMessage)
  BY <1>1, <1>2
<1>4. ASSUME NEW j \in Judge
      PROVE  /\ OnWay(j) = Cardinality(At(conn_box, Ours(j)))
             /\ OnWay(j)' = Cardinality(At(conn_box', Ours(j)))
  <2>1. OnWay(j) = Cardinality(At(conn_box, Ours(j)))
    BY Kinds DEF OnWay
  <2>2. \A i \in DOMAIN conn_box' : conn_box'[i] \in ConnectionMessage
    BY <1>3
  <2>3. Sends(j)' = At(conn_box', Ours(j))
    BY <2>2 DEF Sends, At
  <2> QED
    BY <2>1, <2>3 DEF OnWay
<1>5. ASSUME NEW j \in Judge
      PROVE  /\ conn_up /\ m.op = "Send" /\ m.judge = j =>
                  OnWay(j)' = OnWay(j) + 1 /\ Out(j)' = Out(j) \cup {m}
             /\ ~(conn_up /\ m.op = "Send" /\ m.judge = j) =>
                  OnWay(j)' = OnWay(j) /\ Out(j)' = Out(j)
  <2>1. CASE ~conn_up
    BY <1>2, <2>1, BoxKept
  <2>2. CASE conn_up
    <3>1. conn_box' = Append(conn_box, m)
      BY <1>2, <2>2
    <3>2. m \in Ours(j) <=> m.op = "Send" /\ m.judge = j
      OBVIOUS
    <3>3. /\ Cardinality(At(conn_box, Ours(j))) \in Nat
          /\ Cardinality(At(conn_box', Ours(j))) =
               Cardinality(At(conn_box, Ours(j))) + (IF m \in Ours(j) THEN 1 ELSE 0)
      BY <1>1, <3>1, AtAppended
    <3>4. Content(conn_box') = Content(conn_box) \cup {m}
      BY <1>1, <3>1, ContentAppended
    <3>5. Out(j)' = {x \in Content(conn_box') : x.op = "Send" /\ x.judge = j}
      BY DEF Out, Content
    <3> HIDE DEF Ours
    <3>6. /\ m \in Ours(j) => OnWay(j)' = OnWay(j) + 1
          /\ m \notin Ours(j) => OnWay(j)' = OnWay(j)
      BY <1>4, <3>3
    <3>7. /\ m.op = "Send" /\ m.judge = j => Out(j)' = Out(j) \cup {m}
          /\ ~(m.op = "Send" /\ m.judge = j) => Out(j)' = Out(j)
      BY <3>4, <3>5 DEF Out
    <3> QED
      BY <2>2, <3>2, <3>6, <3>7
  <2> QED
    BY <1>1, <2>1, <2>2
<1>6. ASSUME NEW x
      PROVE  /\ Count(conn_box, x) \in Nat
             /\ Count(conn_box', x) = Count(conn_box, x) + (IF conn_up /\ m = x THEN 1 ELSE 0)
  <2>1. /\ Count(conn_box, x) \in Nat
        /\ Count(Append(conn_box, m), x) = Count(conn_box, x) + (IF m = x THEN 1 ELSE 0)
    BY <1>1, CountAppended
  <2> QED
    BY <1>1, <1>2, <2>1
<1> QED
  BY <1>2, <1>3, <1>5, <1>6

(* The head of the mailbox is handled.                                     *)
LEMMA Handled ==
  ASSUME TypeOK, conn_box # <<>>, conn_box' = Tail(conn_box)
  PROVE  /\ Head(conn_box) \in ConnectionMessage /\ conn_box' \in Seq(ConnectionMessage)
         /\ \A j \in Judge :
              /\ Head(conn_box).op = "Send" /\ Head(conn_box).judge = j =>
                   /\ OnWay(j)' \in Nat /\ OnWay(j) = OnWay(j)' + 1
                   /\ Out(j)' \subseteq Out(j) /\ Head(conn_box) \in Out(j)
                   /\ OnWay(j)' = 0 => Out(j)' = {}
              /\ ~(Head(conn_box).op = "Send" /\ Head(conn_box).judge = j) =>
                   OnWay(j)' = OnWay(j) /\ Out(j)' = Out(j)
         /\ \A x : /\ Count(conn_box, x)' \in Nat
                  /\ Count(conn_box, x) =
                       Count(conn_box, x)' + (IF Head(conn_box) = x THEN 1 ELSE 0)
<1> DEFINE Ours(j) == {x \in ConnectionMessage : x.op = "Send" /\ x.judge = j}
           h == Head(conn_box)
<1>1. conn_box \in Seq(ConnectionMessage)
  BY DEF TypeOK
<1>2. h \in ConnectionMessage /\ conn_box' \in Seq(ConnectionMessage)
  BY <1>1
<1>3. /\ h \in Content(conn_box) /\ Content(conn_box') \subseteq Content(conn_box)
      /\ \A m \in Content(conn_box) : m = h \/ m \in Content(conn_box')
  BY <1>1, ContentTaken, PositionsTaken
<1>4. ASSUME NEW j \in Judge
      PROVE  /\ OnWay(j) = Cardinality(At(conn_box, Ours(j)))
             /\ OnWay(j)' = Cardinality(At(conn_box', Ours(j)))
             /\ Out(j)' = {x \in Content(conn_box') : x.op = "Send" /\ x.judge = j}
             /\ Out(j)' = Content(conn_box') \cap Ours(j)
  <2>1. OnWay(j) = Cardinality(At(conn_box, Ours(j)))
    BY Kinds DEF OnWay
  <2>2. \A i \in DOMAIN conn_box' : conn_box'[i] \in ConnectionMessage
    BY <1>2
  <2>3. Sends(j)' = At(conn_box', Ours(j))
    BY <2>2 DEF Sends, At
  <2>4. Out(j)' = {x \in Content(conn_box') : x.op = "Send" /\ x.judge = j}
    BY DEF Out, Content
  <2>5. Content(conn_box') \subseteq ConnectionMessage
    BY <1>2, ContentOfSeq
  <2> QED
    BY <2>1, <2>3, <2>4, <2>5 DEF OnWay
<1>5. ASSUME NEW j \in Judge
      PROVE  /\ h.op = "Send" /\ h.judge = j =>
                  /\ OnWay(j)' \in Nat /\ OnWay(j) = OnWay(j)' + 1
                  /\ Out(j)' \subseteq Out(j) /\ h \in Out(j)
                  /\ OnWay(j)' = 0 => Out(j)' = {}
             /\ ~(h.op = "Send" /\ h.judge = j) =>
                  OnWay(j)' = OnWay(j) /\ Out(j)' = Out(j)
  <2>1. h \in Ours(j) <=> h.op = "Send" /\ h.judge = j
    BY <1>2
  <2>2. /\ Cardinality(At(conn_box', Ours(j))) \in Nat
        /\ Cardinality(At(conn_box, Ours(j))) =
             Cardinality(At(conn_box', Ours(j))) + (IF h \in Ours(j) THEN 1 ELSE 0)
    BY <1>1, AtTaken
  <2>3. Cardinality(At(conn_box', Ours(j))) = 0 => Content(conn_box') \cap Ours(j) = {}
    BY <1>2, AtNone
  <2> HIDE DEF Ours, h
  <2>4. OnWay(j)' = 0 => Out(j)' = {}
    BY <1>4, <2>3
  <2>5. /\ h \in Ours(j) => OnWay(j)' \in Nat /\ OnWay(j) = OnWay(j)' + 1
        /\ h \notin Ours(j) => OnWay(j)' = OnWay(j)
    BY <1>4, <2>2
  <2>6. /\ Out(j)' \subseteq Out(j)
        /\ h.op = "Send" /\ h.judge = j => h \in Out(j)
        /\ ~(h.op = "Send" /\ h.judge = j) => Out(j)' = Out(j)
    BY <1>3, <1>4 DEF Out
  <2> QED
    BY <2>1, <2>4, <2>5, <2>6
<1>6. ASSUME NEW x
      PROVE  /\ Count(conn_box', x) \in Nat
             /\ Count(conn_box, x) = Count(conn_box', x) + (IF h = x THEN 1 ELSE 0)
  <2>1. /\ Count(Tail(conn_box), x) \in Nat
        /\ Count(conn_box, x) = Count(Tail(conn_box), x) + (IF h = x THEN 1 ELSE 0)
    BY <1>1, CountTaken
  <2> QED
    BY <2>1
<1> QED
  BY <1>2, <1>5, <1>6

-----------------------------------------------------------------------------
(* The mailbox of a JudgeService.                                          *)

LEMMA JudgeMessages ==
  /\ \A m \in JudgeMessage :
       m \in VerdictUpdate <=> m.msg = "JudgeStateUpdate" /\ m.of.state \in Verdict
  /\ \A st \in StateSet :
       Update(st) \in JudgeMessage /\ Update(st).msg = "JudgeStateUpdate" /\ Update(st).of = st
  /\ \A n \in Node : DispatchTo(n) \in JudgeMessage /\ DispatchTo(n).msg = "Dispatch"
  /\ EndJudge \in JudgeMessage /\ EndJudge.msg = "EndJudge"
<1>1. Verdict \subseteq {"DoCompile", "CompleteCompile", "Result"} \cup Failure
  BY DEF Verdict, Passing
<1>2. ASSUME NEW m \in JudgeMessage
      PROVE  m \in VerdictUpdate <=> m.msg = "JudgeStateUpdate" /\ m.of.state \in Verdict
  <2>1. CASE m \in [msg : {"JudgeStateUpdate"}, of : StateSet]
    BY <2>1 DEF VerdictUpdate, StateSet
  <2>2. CASE m \in [msg : {"Dispatch"}, node : Node] \cup {EndJudge}
    <3>1. m.msg # "JudgeStateUpdate"
      BY <2>2 DEF EndJudge
    <3> QED
      BY <3>1 DEF VerdictUpdate
  <2> QED
    BY <2>1, <2>2 DEF JudgeMessage
<1> QED
  BY <1>2 DEF JudgeMessage, Update, DispatchTo, EndJudge

\* A message reaches a JudgeService that lives.
LEMMA Gets ==
  ASSUME TypeOK, NEW j \in Judge, NEW m \in JudgeMessage, JudgeGets(j, m)
  PROVE  /\ judge_box' \in [Judge -> Seq(JudgeMessage)]
         /\ \A k \in Judge : k # j => judge_box'[k] = judge_box[k]
         /\ Alive(j) => /\ Len(judge_box'[j]) = Len(judge_box[j]) + 1
                        /\ Content(judge_box'[j]) = Content(judge_box[j]) \cup {m}
                        /\ Updates(j)' = Updates(j) + (IF m \in VerdictUpdate THEN 1 ELSE 0)
         /\ ~Alive(j) => judge_box'[j] = judge_box[j] /\ Updates(j)' = Updates(j)
<1>1. judge_box \in [Judge -> Seq(JudgeMessage)] /\ judge_box[j] \in Seq(JudgeMessage)
  BY DEF TypeOK
<1>2. Append(judge_box[j], m) \in Seq(JudgeMessage)
  BY <1>1
<1>3. /\ judge_box' \in [Judge -> Seq(JudgeMessage)]
      /\ \A k \in Judge : k # j => judge_box'[k] = judge_box[k]
      /\ judge_box'[j] = IF Alive(j) THEN Append(judge_box[j], m) ELSE judge_box[j]
  BY <1>1, <1>2 DEF JudgeGets
<1>4. /\ Len(Append(judge_box[j], m)) = Len(judge_box[j]) + 1
      /\ Content(Append(judge_box[j], m)) = Content(judge_box[j]) \cup {m}
      /\ Cardinality(At(Append(judge_box[j], m), VerdictUpdate)) =
           Cardinality(At(judge_box[j], VerdictUpdate))
             + (IF m \in VerdictUpdate THEN 1 ELSE 0)
  BY <1>1, AtAppended, ContentAppended
<1>5. Updates(j)' = Cardinality(At(judge_box'[j], VerdictUpdate))
  BY DEF Updates, At, VerdictUpdate, Verdict, Passing, Failure
<1> QED
  BY <1>3, <1>4, <1>5 DEF Updates

\* It takes the head.
LEMMA Takes ==
  ASSUME TypeOK, NEW j \in Judge, judge_box[j] # <<>>, JudgeTakes(j)
  PROVE  /\ judge_box' \in [Judge -> Seq(JudgeMessage)]
         /\ \A k \in Judge : k # j => judge_box'[k] = judge_box[k]
         /\ Len(judge_box'[j]) = Len(judge_box[j]) - 1
         /\ Content(judge_box'[j]) \subseteq Content(judge_box[j])
         /\ Updates(j)' \in Nat
         /\ Updates(j) = Updates(j)' + (IF Head(judge_box[j]) \in VerdictUpdate THEN 1 ELSE 0)
<1>1. judge_box \in [Judge -> Seq(JudgeMessage)] /\ judge_box[j] \in Seq(JudgeMessage)
  BY DEF TypeOK
<1>2. Tail(judge_box[j]) \in Seq(JudgeMessage)
  BY <1>1
<1>3. /\ judge_box' \in [Judge -> Seq(JudgeMessage)]
      /\ \A k \in Judge : k # j => judge_box'[k] = judge_box[k]
      /\ judge_box'[j] = Tail(judge_box[j])
  BY <1>1, <1>2 DEF JudgeTakes
<1>4. /\ Len(Tail(judge_box[j])) = Len(judge_box[j]) - 1
      /\ Content(Tail(judge_box[j])) \subseteq Content(judge_box[j])
      /\ Cardinality(At(Tail(judge_box[j]), VerdictUpdate)) \in Nat
      /\ Cardinality(At(judge_box[j], VerdictUpdate)) =
           Cardinality(At(Tail(judge_box[j]), VerdictUpdate))
             + (IF Head(judge_box[j]) \in VerdictUpdate THEN 1 ELSE 0)
  BY <1>1, AtTaken, ContentTaken, PositionsTaken
<1>5. Updates(j)' = Cardinality(At(judge_box'[j], VerdictUpdate))
  BY DEF Updates, At, VerdictUpdate, Verdict, Passing, Failure
<1> QED
  BY <1>3, <1>4, <1>5 DEF Updates

LEMMA Empty ==
  ASSUME NEW j \in Judge, judge_box'[j] = <<>>
  PROVE  Content(judge_box'[j]) = {} /\ Updates(j)' = 0 /\ Len(judge_box'[j]) = 0
<1>1. DOMAIN judge_box'[j] = {} /\ Len(judge_box'[j]) = 0
  OBVIOUS
<1>2. At(judge_box'[j], VerdictUpdate) = {}
  BY <1>1 DEF At
<1>3. Updates(j)' = Cardinality(At(judge_box'[j], VerdictUpdate))
  BY DEF Updates, At, VerdictUpdate, Verdict, Passing, Failure
<1> QED
  BY <1>1, <1>2, <1>3, FS_EmptySet DEF Content

\* With it all is lost.
LEMMA Death ==
  ASSUME TypeOK, NEW j \in Judge, NEW how \in {"stopped", "panicked"}, JudgeDies(j, how)
  PROVE  /\ judge' \in [Judge -> {"waiting", "judging", "stopped", "panicked"}]
         /\ judge'[j] = how
         /\ judge_box' \in [Judge -> Seq(JudgeMessage)] /\ judge_box'[j] = <<>>
         /\ \A k \in Judge : k # j => judge'[k] = judge[k] /\ judge_box'[k] = judge_box[k]
BY DEF TypeOK, JudgeDies

\* What is at the head of the mailbox is in it.
LEMMA AtHead ==
  ASSUME TypeOK, NEW j \in Judge, NEW msg, Incoming(j, msg)
  PROVE  /\ Alive(j) /\ judge_box[j] # <<>> /\ Len(judge_box[j]) \in Nat \ {0}
         /\ Head(judge_box[j]) \in Content(judge_box[j])
         /\ Head(judge_box[j]) \in JudgeMessage /\ Head(judge_box[j]).msg = msg
<1>1. judge_box[j] \in Seq(JudgeMessage) /\ judge_box[j] # <<>>
  BY DEF TypeOK, Incoming
<1> QED
  BY <1>1, ContentTaken, ContentOfSeq DEF Incoming

-----------------------------------------------------------------------------
(* A step of one judgement.                                                *)

\* What it leaves alone of the connections.
Still ==
  /\ UNCHANGED <<connections, conn_up, answered, downs>>
  /\ ~conn_up => conn_box' = conn_box
  /\ \A n \in Node : /\ Count(conn_box, Delete(n))' = Count(conn_box, Delete(n))
                     /\ Count(conn_box, Answer(n))' = Count(conn_box, Answer(n))
  /\ \A k \in Judge : assigned[k] \in Node => assigned'[k] = assigned[k]

LEMMA OneStep ==
  ASSUME JInv, NEW j \in Judge, TypeOK', IsFiniteSet(reports)', Still, JudgementInv(j)',
         \A k \in Judge : k # j => Aside(k)
  PROVE  JInv'
<1>1. \A k \in Judge : JudgementInv(k)'
  BY AsideKeeps DEF JInv
<1>2. \A n \in Node : Counted(n)' /\ Greeted(n)'
  BY DEF JInv, Counted, Greeted, Still
<1>3. Explained'
  BY DEF JInv, Explained, Still
<1>4. Lost'
  BY DEF JInv, Lost, Still
<1> QED
  BY <1>1, <1>2, <1>3, <1>4 DEF JInv

\* What is known of a judgement.
LEMMA Known ==
  ASSUME JInv, NEW j \in Judge
  PROVE  /\ TypeOK /\ IsFiniteSet(reports) /\ Turn(j) /\ Scripted(j) /\ Answered(j)
         /\ Ordered(j) /\ Cursor(j) /\ Phase(j) /\ Heard(j)
         /\ OnWay(j) = 0 => Out(j) = {}
         /\ Own(j) = {} => Coming(j) = 0
         /\ told[j] = <<>> => Passed(j) = 0 /\ Fails(j) = 0
         /\ Unread(j) \in Nat
<1>1. /\ TypeOK /\ IsFiniteSet(reports) /\ Turn(j) /\ Scripted(j) /\ Answered(j)
      /\ Ordered(j) /\ Cursor(j) /\ Phase(j) /\ Heard(j)
  BY DEF JInv, JudgementInv
<1>2. OnWay(j) = 0 => Out(j) = {}
  <2>1. At(conn_box, {m \in ConnectionMessage : m.op = "Send" /\ m.judge = j}) = Sends(j)
        /\ conn_box \in Seq(ConnectionMessage)
    BY <1>1, Kinds DEF TypeOK
  <2>2. Content(conn_box) \subseteq ConnectionMessage
    BY <2>1, ContentOfSeq
  <2> QED
    BY <2>1, <2>2, AtNone DEF OnWay, Out
<1>3. Own(j) = {} => Coming(j) = 0
  BY FS_EmptySet DEF Coming
<1>4. told[j] = <<>> => Passed(j) = 0 /\ Fails(j) = 0
  <2> SUFFICES ASSUME told[j] = <<>> PROVE Passed(j) = 0 /\ Fails(j) = 0
    OBVIOUS
  <2>1. DOMAIN told[j] = {}
    OBVIOUS
  <2>2. ToldAt(j, Passing) = {} /\ ToldAt(j, Failure) = {}
    BY <2>1 DEF ToldAt
  <2> QED
    BY <2>2, FS_EmptySet DEF Passed, Fails
<1>5. Unread(j) \in Nat
  <2>1. read[j] <= Len(handed[j])
    BY <1>1 DEF Turn
  <2>2. read[j] \in Nat /\ Len(handed[j]) \in Nat
    BY <1>1, Numbers
  <2> QED
    BY <2>1, <2>2 DEF Unread
<1> QED
  BY <1>1, <1>2, <1>3, <1>4, <1>5

\* The connection service and the rest of the judgements are left alone.
LEMMA NothingSent ==
  ASSUME UNCHANGED <<conn_box, connections, conn_up, answered, downs>>,
         \A k \in Judge : assigned[k] \in Node => assigned'[k] = assigned[k]
  PROVE  Still /\ \A k \in Judge : OnWay(k)' = OnWay(k) /\ Out(k)' = Out(k)
BY BoxKept DEF Still

\* A packet of j is sent.
LEMMA PacketSent ==
  ASSUME TypeOK, NEW j \in Judge, NEW pkt \in Packet, assigned[j] # NoNode,
         ToConnection(Send(j, pkt)),
         UNCHANGED <<connections, conn_up, answered, downs, assigned>>
  PROVE  /\ Still /\ conn_box' \in Seq(ConnectionMessage)
         /\ \A k \in Judge : k # j => OnWay(k)' = OnWay(k) /\ Out(k)' = Out(k)
         /\ conn_up => OnWay(j)' = OnWay(j) + 1 /\ Out(j)' = Out(j) \cup {Send(j, pkt)}
         /\ ~conn_up => OnWay(j)' = OnWay(j) /\ Out(j)' = Out(j)
<1> DEFINE m == Send(j, pkt)
<1>1. /\ m \in ConnectionMessage /\ m.op = "Send" /\ m.judge = j
      /\ \A n \in Node : m # Delete(n) /\ m # Answer(n)
  BY Messages
<1> HIDE DEF m
<1>2. ToConnection(m)
  BY DEF m
<1>3. /\ conn_box' \in Seq(ConnectionMessage)
      /\ ~conn_up => conn_box' = conn_box
      /\ \A k \in Judge :
           /\ conn_up /\ m.op = "Send" /\ m.judge = k =>
                OnWay(k)' = OnWay(k) + 1 /\ Out(k)' = Out(k) \cup {m}
           /\ ~(conn_up /\ m.op = "Send" /\ m.judge = k) =>
                OnWay(k)' = OnWay(k) /\ Out(k)' = Out(k)
      /\ \A x : /\ Count(conn_box, x) \in Nat
               /\ Count(conn_box, x)' =
                    Count(conn_box, x) + (IF conn_up /\ m = x THEN 1 ELSE 0)
  BY <1>1, <1>2, Posted
<1>4. \A n \in Node : /\ Count(conn_box, Delete(n))' = Count(conn_box, Delete(n))
                      /\ Count(conn_box, Answer(n))' = Count(conn_box, Answer(n))
  BY <1>1, <1>3
<1> QED
  BY <1>1, <1>3, <1>4 DEF Still, m

-----------------------------------------------------------------------------
(* HandlerService dispatches: the judgement has not started.               *)
LEMMA DispatchJInv ==
  ASSUME JInv, NEW j \in Judge, NEW n \in Node, Dispatch(j, n)
  PROVE  JInv'
<1>1. /\ assigned[j] = NoNode /\ assigned' = [assigned EXCEPT ![j] = n]
      /\ JudgeGets(j, DispatchTo(n))
      /\ UNCHANGED <<request, answered, downs, backs, judge, testcaseVars, connVars,
                     slaveVars, handed, told>>
  BY DEF Dispatch
<1>2. /\ TypeOK /\ IsFiniteSet(reports) /\ Turn(j) /\ Scripted(j) /\ Answered(j)
      /\ Ordered(j) /\ Cursor(j) /\ Phase(j) /\ Heard(j)
      /\ OnWay(j) = 0 => Out(j) = {}
  BY Known
<1>3. n # NoNode
  BY NodeAssumption DEF NoNode
<1>4. /\ judge[j] = "waiting" /\ judge_box[j] = <<>> /\ testcase[j] = "none" /\ Unstarted(j)
  BY <1>1, <1>2 DEF Phase, Started
<1>5. /\ judge_box' \in [Judge -> Seq(JudgeMessage)]
      /\ \A k \in Judge : k # j => judge_box'[k] = judge_box[k]
      /\ Len(judge_box'[j]) = 1 /\ Content(judge_box'[j]) = {DispatchTo(n)}
      /\ Updates(j)' = Updates(j)
  <2>1. Alive(j) /\ DispatchTo(n) \in JudgeMessage /\ DispatchTo(n) \notin VerdictUpdate
    BY <1>4, JudgeMessages DEF Alive
  <2>2. Content(judge_box[j]) = {} /\ Len(judge_box[j]) = 0
    <3>1. DOMAIN judge_box[j] = {} /\ Len(judge_box[j]) = 0
      BY <1>4
    <3> QED
      BY <3>1 DEF Content
  <2>3. Updates(j) \in Nat
    BY <1>2, Numbers
  <2>4. /\ judge_box' \in [Judge -> Seq(JudgeMessage)]
        /\ \A k \in Judge : k # j => judge_box'[k] = judge_box[k]
        /\ Len(judge_box'[j]) = Len(judge_box[j]) + 1
        /\ Content(judge_box'[j]) = Content(judge_box[j]) \cup {DispatchTo(n)}
        /\ Updates(j)' = Updates(j) + (IF DispatchTo(n) \in VerdictUpdate THEN 1 ELSE 0)
    BY <1>1, <1>2, <2>1, Gets, Zenon
  <2>5. Updates(j)' = Updates(j)
    BY <2>1, <2>3, <2>4
  <2>6. Len(judge_box'[j]) = 0 + 1
    BY <2>2, <2>4, Zenon
  <2> QED
    BY <2>2, <2>4, <2>5, <2>6
<1>6. /\ assigned' \in [Judge -> Node \cup {NoNode}] /\ assigned'[j] = n
      /\ \A k \in Judge : k # j => assigned'[k] = assigned[k]
  BY <1>1, <1>2 DEF TypeOK
<1>7. TypeOK' /\ IsFiniteSet(reports)'
  BY <1>1, <1>2, <1>5, <1>6
  DEF TypeOK, testcaseVars, connVars, slaveVars, StateSet, JudgeMessage, Packet,
      ConnectionMessage, Failure, EndJudge
<1>8. /\ Still
      /\ \A k \in Judge : OnWay(k)' = OnWay(k) /\ Out(k)' = Out(k)
  <2>1. j \in Judge /\ assigned[j] \notin Node
    BY <1>1, NodeAssumption DEF NoNode
  <2> QED
    BY <1>1, <1>6, <2>1, NothingSent DEF connVars
<1>9. \A k \in Judge : k # j => Aside(k)
  BY <1>1, <1>5, <1>6, <1>8 DEF Aside, testcaseVars, connVars, slaveVars, Own
<1>10. /\ Passed(j)' = Passed(j) /\ Fails(j)' = Fails(j) /\ Ordered(j)'
       /\ Coming(j)' = Coming(j) /\ Own(j)' = Own(j) /\ Unread(j)' = Unread(j)
       /\ Given(j)' = Given(j) /\ Tests(j)' = Tests(j)
  BY <1>1, <1>2, <1>8, ToldKept DEF slaveVars, Coming, Own, Unread, Given, OnWay, Tests
<1>11. Turn(j)'
  BY <1>1, <1>2, <1>5, <1>8, <1>10 DEF Underway, Turn, slaveVars, testcaseVars
<1>12. Scripted(j)' /\ Answered(j)'
  <2>1. Out(j)' = {}
    BY <1>2, <1>4, <1>8 DEF Unstarted
  <2> QED
    BY <1>1, <1>2, <1>8, <1>10, <2>1 DEF Scripted, Answered, PacketAt, slaveVars
<1>13. Cursor(j)'
  BY <1>1, <1>4, <1>2, <1>10 DEF Underway, Cursor, testcaseVars
<1>14. Phase(j)'
  BY <1>1, <1>3, <1>4, <1>5, <1>6, <1>8, <1>10
  DEF Phase, Unstarted, testcaseVars, slaveVars
<1>15. Heard(j)'
  <2>1. DispatchTo(n).msg = "Dispatch"
    BY JudgeMessages
  <2>2. \A m \in Content(judge_box'[j]) : m.msg = "Dispatch" /\ testcase'[j] = "none"
    BY <1>1, <1>4, <1>5, <2>1 DEF testcaseVars
  <2> QED
    BY <2>2 DEF Heard, Content
<1> QED
  BY <1>2, <1>7, <1>8, <1>9, <1>10, <1>11, <1>12, <1>13, <1>14, <1>15, OneStep
  DEF JudgementInv

-----------------------------------------------------------------------------
(* JudgeService.                                                           *)

(* The program is sent, and nothing else is under way.                     *)
LEMMA HandleDispatchJInv ==
  ASSUME JInv, NEW j \in Judge, HandleDispatch(j)
  PROVE  JInv'
<1>1. /\ Incoming(j, "Dispatch") /\ judge' = [judge EXCEPT ![j] = "judging"]
      /\ JudgeTakes(j) /\ testcase' = [testcase EXCEPT ![j] = "running"]
      /\ ToConnection(Send(j, GetJudge))
      /\ UNCHANGED <<cur, pops, connections, conn_up, slaveVars, envVars, handed, told>>
  BY DEF HandleDispatch
<1>2. /\ TypeOK /\ IsFiniteSet(reports) /\ Turn(j) /\ Scripted(j) /\ Answered(j)
      /\ Ordered(j) /\ Cursor(j) /\ Phase(j) /\ Heard(j)
  BY Known
<1>3. /\ Alive(j) /\ judge_box[j] # <<>> /\ Len(judge_box[j]) \in Nat \ {0}
      /\ testcase[j] = "none" /\ Unstarted(j) /\ assigned[j] # NoNode
  <2>1. /\ Alive(j) /\ judge_box[j] # <<>> /\ Len(judge_box[j]) \in Nat \ {0}
        /\ Head(judge_box[j]) \in Content(judge_box[j])
        /\ Head(judge_box[j]).msg = "Dispatch"
    BY <1>1, <1>2, AtHead
  <2> QED
    BY <1>2, <2>1 DEF Phase, Heard
<1>4. /\ judge_box' \in [Judge -> Seq(JudgeMessage)] /\ judge_box'[j] = <<>>
      /\ \A k \in Judge : k # j => judge_box'[k] = judge_box[k]
  <2>1. /\ judge_box' \in [Judge -> Seq(JudgeMessage)]
        /\ Len(judge_box'[j]) = Len(judge_box[j]) - 1
        /\ \A k \in Judge : k # j => judge_box'[k] = judge_box[k]
    BY <1>1, <1>2, <1>3, Takes
  <2>2. PICK L \in Nat \ {0} : L = Len(judge_box[j])
    BY <1>3, Zenon
  <2>3. L <= 1 /\ Len(judge_box'[j]) = L - 1 /\ judge_box'[j] \in Seq(JudgeMessage)
    BY <1>3, <2>1, <2>2 DEF Unstarted
  <2>4. L - 1 = 0
    BY <2>3
  <2>5. Len(judge_box'[j]) = 0
    BY <2>3, <2>4, Zenon
  <2> QED
    BY <2>1, <2>3, <2>5
<1>5. Content(judge_box'[j]) = {} /\ Updates(j)' = 0 /\ Len(judge_box'[j]) = 0
  BY <1>4, Empty
<1>6. /\ judge'[j] = "judging" /\ testcase'[j] = "running"
      /\ judge' \in [Judge -> {"waiting", "judging", "stopped", "panicked"}]
      /\ testcase' \in [Judge -> {"none", "running", "stopped", "panicked"}]
      /\ \A k \in Judge : k # j => judge'[k] = judge[k] /\ testcase'[k] = testcase[k]
  BY <1>1, <1>2 DEF TypeOK
<1>7. /\ Still /\ conn_box' \in Seq(ConnectionMessage)
      /\ \A k \in Judge : k # j => OnWay(k)' = OnWay(k) /\ Out(k)' = Out(k)
      /\ conn_up => OnWay(j)' = OnWay(j) + 1 /\ Out(j)' = Out(j) \cup {Send(j, GetJudge)}
      /\ ~conn_up => OnWay(j)' = OnWay(j) /\ Out(j)' = Out(j)
  BY <1>1, <1>2, <1>3, Packets, PacketSent DEF envVars
<1>8. TypeOK' /\ IsFiniteSet(reports)'
  <2>1. \A k \in Judge : judge'[k] = "judging" => testcase'[k] # "none"
    BY <1>2, <1>6 DEF TypeOK
  <2> QED
    BY <1>1, <1>2, <1>4, <1>6, <1>7, <2>1
    DEF TypeOK, slaveVars, envVars, StateSet, JudgeMessage, Packet, ConnectionMessage,
        Failure, EndJudge
<1>9. \A k \in Judge : k # j => Aside(k)
  BY <1>1, <1>4, <1>6, <1>7 DEF Aside, slaveVars, envVars, Own
<1>10. /\ OnWay(j) = 0 /\ Out(j) = {} /\ Coming(j) = 0 /\ Passed(j) = 0 /\ Fails(j) = 0
       /\ Own(j) = {} /\ handed[j] = <<>> /\ read[j] = 0 /\ pops[j] = 0 /\ cur[j] = 0
  BY <1>3, Known DEF Unstarted
<1>11. /\ Passed(j)' = 0 /\ Fails(j)' = 0 /\ Ordered(j)'
       /\ Coming(j)' = 0 /\ Own(j)' = {} /\ Tests(j)' = Tests(j) /\ Tests(j) \in Nat
       /\ handed'[j] = <<>> /\ Len(handed'[j]) = 0 /\ DOMAIN handed'[j] = {}
       /\ read'[j] = 0 /\ pops'[j] = 0 /\ cur'[j] = 0 /\ conn_up' = conn_up
  <2>1. Passed(j)' = 0 /\ Fails(j)' = 0 /\ Ordered(j)'
    BY <1>1, <1>2, <1>10, ToldKept
  <2>2. handed'[j] = <<>> /\ Len(handed'[j]) = 0 /\ DOMAIN handed'[j] = {}
    BY <1>1, <1>10
  <2>3. Coming(j)' = Coming(j) /\ Own(j)' = Own(j)
    BY <1>1 DEF slaveVars, Coming, Own
  <2> QED
    BY <1>1, <1>2, <1>10, <2>1, <2>2, <2>3, RequestTypes DEF slaveVars, envVars, Tests
<1>12. /\ Unread(j)' = 0 /\ Given(j)' = OnWay(j)'
       /\ conn_up => OnWay(j)' = 1
       /\ ~conn_up => OnWay(j)' = 0
  BY <1>7, <1>10, <1>11 DEF Unread, Given, OnWay
<1>13. Turn(j)'
  BY <1>5, <1>11, <1>12 DEF Underway, Turn
<1>14. Scripted(j)'
  <2>1. PacketAt(j, 1)' = GetJudge
    BY DEF PacketAt, GetJudge, NoTest
  <2>2. /\ Send(j, GetJudge).node = assigned[j] /\ Send(j, GetJudge).packet = GetJudge
        /\ assigned'[j] = assigned[j]
    BY <1>1, <1>2, <1>3, Messages, Packets DEF envVars
  <2>3. \A m \in Out(j)' : m.node = assigned'[j] /\ m.packet = GetJudge
    BY <1>7, <1>10, <2>2
  <2>4. Len(handed'[j]) + 1 = 1
    BY <1>11
  <2>5. Given(j)' <= Tests(j)' + 2
    BY <1>11, <1>12
  <2> QED
    BY <1>11, <2>1, <2>3, <2>4, <2>5 DEF Scripted
<1>15. Answered(j)'
  BY <1>11 DEF Answered
<1>16. Cursor(j)'
  BY <1>5, <1>11, <1>12 DEF Underway, Cursor
<1>17. Phase(j)'
  BY <1>1, <1>3, <1>6 DEF Phase, Started, envVars
<1>18. Heard(j)'
  BY <1>5 DEF Heard, Content
<1> QED
  BY <1>7, <1>8, <1>9, <1>11, <1>13, <1>14, <1>15, <1>16, <1>17, <1>18, OneStep
  DEF JudgementInv

(* A judgement that cannot be served has not started, and will not.        *)
LEMMA DispatchPanicsJInv ==
  ASSUME JInv, NEW j \in Judge, UnevenPanics(j) \/ NovelPanics(j)
  PROVE  JInv'
<1>1. /\ Incoming(j, "Dispatch")
      /\ request[j].kind = "Novel" \/ ~WellFormed(j)
      /\ JudgeDies(j, "panicked")
      /\ UNCHANGED <<testcaseVars, connVars, slaveVars, envVars, handed, told>>
  BY DEF UnevenPanics, NovelPanics
<1>2. /\ TypeOK /\ IsFiniteSet(reports) /\ Turn(j) /\ Scripted(j) /\ Answered(j)
      /\ Ordered(j) /\ Cursor(j) /\ Phase(j) /\ Heard(j)
  BY Known
<1>3. testcase[j] = "none" /\ Unstarted(j) /\ assigned[j] # NoNode
  <2>1. /\ judge_box[j] # <<>> /\ Head(judge_box[j]) \in Content(judge_box[j])
        /\ Head(judge_box[j]).msg = "Dispatch"
    BY <1>1, <1>2, AtHead
  <2> QED
    BY <1>2, <2>1 DEF Phase, Heard
<1>4. /\ judge' \in [Judge -> {"waiting", "judging", "stopped", "panicked"}]
      /\ judge'[j] = "panicked"
      /\ judge_box' \in [Judge -> Seq(JudgeMessage)] /\ judge_box'[j] = <<>>
      /\ \A k \in Judge : k # j => judge'[k] = judge[k] /\ judge_box'[k] = judge_box[k]
  BY <1>1, <1>2, Death
<1>5. Content(judge_box'[j]) = {} /\ Updates(j)' = 0 /\ Len(judge_box'[j]) = 0
  BY <1>4, Empty
<1>6. /\ Still
      /\ \A k \in Judge : OnWay(k)' = OnWay(k) /\ Out(k)' = Out(k)
  BY <1>1, NothingSent DEF connVars, envVars
<1>7. TypeOK' /\ IsFiniteSet(reports)'
  <2>1. \A k \in Judge : judge'[k] = "judging" => testcase'[k] # "none"
    BY <1>1, <1>2, <1>4 DEF TypeOK, testcaseVars
  <2> QED
    BY <1>1, <1>2, <1>4, <2>1
    DEF TypeOK, testcaseVars, connVars, slaveVars, envVars, StateSet, JudgeMessage,
        Packet, ConnectionMessage, Failure, EndJudge
<1>8. \A k \in Judge : k # j => Aside(k)
  BY <1>1, <1>4, <1>6 DEF Aside, testcaseVars, connVars, slaveVars, envVars, Own
<1>9. /\ Passed(j)' = Passed(j) /\ Fails(j)' = Fails(j) /\ Ordered(j)'
      /\ Coming(j)' = Coming(j) /\ Own(j)' = Own(j) /\ Unread(j)' = Unread(j)
      /\ Given(j)' = Given(j) /\ Tests(j)' = Tests(j)
  BY <1>1, <1>2, <1>6, ToldKept
  DEF slaveVars, envVars, Coming, Own, Unread, Given, OnWay, Tests
<1>10. /\ Updates(j) \in Nat /\ OnWay(j) = 0 /\ Unread(j) = 0 /\ Coming(j) = 0
       /\ pops[j] = 0
  <2>1. handed[j] = <<>> /\ read[j] = 0 /\ OnWay(j) = 0 /\ Own(j) = {} /\ pops[j] = 0
    BY <1>3 DEF Unstarted
  <2>2. Len(handed[j]) = 0
    BY <2>1
  <2> QED
    BY <1>2, <2>1, <2>2, Known, Numbers DEF Unread
<1>11. Turn(j)'
  BY <1>1, <1>2, <1>5, <1>6, <1>9, <1>10 DEF Underway, Turn, slaveVars, testcaseVars
<1>12. Scripted(j)' /\ Answered(j)'
  BY <1>1, <1>2, <1>6, <1>9 DEF Scripted, Answered, PacketAt, slaveVars, envVars
<1>13. Cursor(j)'
  BY <1>1, <1>2, <1>3, <1>9 DEF Underway, Cursor, testcaseVars
<1>14. Phase(j)'
  BY <1>1, <1>3, <1>4, <1>5, <1>6, <1>9
  DEF Phase, Unstarted, WellFormed, testcaseVars, slaveVars, envVars
<1>15. Heard(j)'
  BY <1>5 DEF Heard, Content
<1> QED
  BY <1>6, <1>7, <1>8, <1>9, <1>11, <1>12, <1>13, <1>14, <1>15, OneStep
  DEF JudgementInv

(* A verdict that is heard of is the one thing under way; it turns into a  *)
(* question for the next test case, or ends the judgement.                 *)
LEMMA HandleUpdateJInv ==
  ASSUME JInv, NEW j \in Judge, HandleUpdate(j)
  PROVE  JInv'
<1> DEFINE m     == Head(judge_box[j])
           state == m.of.state
           asks  == state \in Asking
<1>1. /\ Incoming(j, "JudgeStateUpdate")
      /\ pops' = [pops EXCEPT ![j] = IF asks /\ testcase[j] = "running" THEN @ + 1 ELSE @]
      /\ IF state \in Failure THEN JudgeDies(j, "stopped")
         ELSE IF asks /\ testcase[j] = "none" THEN JudgeDies(j, "panicked")
         ELSE JudgeTakes(j) /\ UNCHANGED judge
      /\ UNCHANGED <<testcase, cur, connVars, slaveVars, envVars, handed, told>>
  BY DEF HandleUpdate
<1>2. /\ TypeOK /\ IsFiniteSet(reports) /\ Turn(j) /\ Scripted(j) /\ Answered(j)
      /\ Ordered(j) /\ Cursor(j) /\ Phase(j) /\ Heard(j)
  BY Known
<1>3. /\ Alive(j) /\ judge_box[j] # <<>> /\ m \in Content(judge_box[j])
      /\ m \in JudgeMessage /\ m.msg = "JudgeStateUpdate"
  BY <1>1, <1>2, AtHead
<1>4. /\ testcase[j] # "none" /\ judge[j] = "judging"
      /\ state \in Failure => Fails(j) > 0
      /\ state \in Passing => Fails(j) = 0
  <2>1. testcase[j] # "none"
    BY <1>2, <1>3 DEF Heard
  <2> QED
    BY <1>2, <1>3, <2>1 DEF Heard, Phase, Started, Alive
<1>5. m \in VerdictUpdate <=> state \in Failure \/ state \in Passing
  BY <1>3, JudgeMessages DEF Verdict
<1>6. asks <=> state \in Passing
  BY DEF Asking, Passing
<1>7. state \in Failure => state \notin Passing
  BY Kinds, <1>2
<1>8. /\ OnWay(j) \in Nat /\ Coming(j) \in Nat /\ Updates(j) \in Nat
      /\ Passed(j) \in Nat /\ Fails(j) \in Nat /\ read[j] \in Nat /\ pops[j] \in Nat
      /\ Len(handed[j]) \in Nat
      /\ m \in VerdictUpdate => Updates(j) > 0
  <2>1. /\ judge_box[j] \in Seq(JudgeMessage)
    BY <1>2 DEF TypeOK
  <2>2. m \in VerdictUpdate => Updates(j) > 0
    BY <1>3, <2>1, AtTaken DEF Updates
  <2> QED
    BY <1>2, <2>2, Numbers
<1> HIDE DEF m, state, asks
<1>9. /\ pops' \in [Judge -> Nat] /\ \A k \in Judge : k # j => pops'[k] = pops[k]
      /\ pops'[j] =
           IF state \in Passing /\ testcase[j] = "running" THEN pops[j] + 1 ELSE pops[j]
  <2>1. pops \in [Judge -> Nat] /\ pops[j] + 1 \in Nat
    BY <1>2, <1>8 DEF TypeOK
  <2> QED
    BY <1>1, <1>6, <2>1
<1>10. /\ judge' \in [Judge -> {"waiting", "judging", "stopped", "panicked"}]
       /\ judge_box' \in [Judge -> Seq(JudgeMessage)]
       /\ \A k \in Judge : k # j => judge'[k] = judge[k] /\ judge_box'[k] = judge_box[k]
       /\ judge'[j] \in {"judging", "stopped"}
       /\ judge'[j] = "stopped" => Fails(j) > 0
       /\ Content(judge_box'[j]) \subseteq Content(judge_box[j])
       /\ Updates(j)' \in Nat /\ Updates(j)' + pops'[j] <= Updates(j) + pops[j]
       /\ pops'[j] > 0 => /\ judge'[j] = "judging" /\ testcase[j] = "running"
                          /\ Fails(j) = 0
  <2>1. CASE state \in Failure
    <3>1. /\ judge' \in [Judge -> {"waiting", "judging", "stopped", "panicked"}]
          /\ judge'[j] = "stopped" /\ judge_box'[j] = <<>>
          /\ judge_box' \in [Judge -> Seq(JudgeMessage)]
          /\ \A k \in Judge : k # j => judge'[k] = judge[k] /\ judge_box'[k] = judge_box[k]
      BY <1>1, <1>2, <2>1, Death
    <3>2. Content(judge_box'[j]) = {} /\ Updates(j)' = 0
      BY <3>1, Empty
    <3>3. Fails(j) > 0 /\ pops[j] = 0 /\ pops'[j] = pops[j]
      BY <1>2, <1>4, <1>7, <1>9, <2>1 DEF Turn
    <3> QED
      BY <1>8, <3>1, <3>2, <3>3
  <2>2. CASE state \notin Failure
    <3>1. JudgeTakes(j) /\ judge' = judge
      BY <1>1, <1>4, <2>2
    <3>2. /\ judge_box' \in [Judge -> Seq(JudgeMessage)]
          /\ \A k \in Judge : k # j => judge_box'[k] = judge_box[k]
          /\ Content(judge_box'[j]) \subseteq Content(judge_box[j])
          /\ Updates(j)' \in Nat
          /\ Updates(j) = Updates(j)' + (IF m \in VerdictUpdate THEN 1 ELSE 0)
      BY <1>2, <1>3, <3>1, Takes DEF m
    <3>3. Updates(j)' + pops'[j] <= Updates(j) + pops[j]
      BY <1>5, <1>8, <1>9, <3>2
    <3>4. pops'[j] > 0 => /\ judge'[j] = "judging" /\ testcase[j] = "running"
                          /\ Fails(j) = 0
      BY <1>2, <1>4, <1>8, <1>9, <3>1 DEF Turn
    <3> QED
      BY <1>2, <1>4, <3>1, <3>2, <3>3, <3>4 DEF TypeOK
  <2> QED
    BY <2>1, <2>2
<1>11. /\ Still
       /\ \A k \in Judge : OnWay(k)' = OnWay(k) /\ Out(k)' = Out(k)
  BY <1>1, NothingSent DEF connVars, envVars
<1>12. TypeOK' /\ IsFiniteSet(reports)'
  <2>1. \A k \in Judge : judge'[k] = "judging" => testcase'[k] # "none"
    BY <1>1, <1>2, <1>4, <1>10 DEF TypeOK
  <2> QED
    BY <1>1, <1>2, <1>9, <1>10, <2>1
    DEF TypeOK, connVars, slaveVars, envVars, StateSet, JudgeMessage,
        Packet, ConnectionMessage, Failure, EndJudge
<1>13. \A k \in Judge : k # j => Aside(k)
  BY <1>1, <1>9, <1>10, <1>11 DEF Aside, connVars, slaveVars, envVars, Own
<1>14. /\ Passed(j)' = Passed(j) /\ Fails(j)' = Fails(j) /\ Ordered(j)'
       /\ Coming(j)' = Coming(j) /\ Own(j)' = Own(j) /\ Unread(j)' = Unread(j)
       /\ Given(j)' = Given(j) /\ Tests(j)' = Tests(j)
  BY <1>1, <1>2, <1>11, ToldKept
  DEF slaveVars, envVars, Coming, Own, Unread, Given, OnWay, Tests
<1>15. Unread(j) \in Nat /\ OnWay(j)' = OnWay(j) /\ pops'[j] \in Nat
  BY <1>8, <1>9, <1>11, Known
<1>16. Underway(j)' \in Nat /\ Underway(j) \in Nat /\ Underway(j)' <= Underway(j)
  <2>1. /\ Updates(j)' \in Nat /\ pops'[j] \in Nat
        /\ Updates(j)' + pops'[j] <= Updates(j) + pops[j]
        /\ OnWay(j)' = OnWay(j) /\ Unread(j)' = Unread(j) /\ Coming(j)' = Coming(j)
    BY <1>10, <1>14, <1>15
  <2>2. /\ OnWay(j) \in Nat /\ Unread(j) \in Nat /\ Coming(j) \in Nat
        /\ Updates(j) \in Nat /\ pops[j] \in Nat
    BY <1>8, <1>15
  <2> QED
    BY <2>1, <2>2 DEF Underway
<1>17. Turn(j)'
  BY <1>1, <1>2, <1>10, <1>14, <1>15, <1>16 DEF Turn, slaveVars
<1>18. Scripted(j)' /\ Answered(j)'
  BY <1>1, <1>2, <1>11, <1>14 DEF Scripted, Answered, PacketAt, slaveVars, envVars
<1>19. Cursor(j)'
  BY <1>1, <1>2, <1>14, <1>16 DEF Cursor, connVars
<1>20. Phase(j)'
  BY <1>1, <1>2, <1>4, <1>10, <1>14 DEF Phase, Started, envVars
<1>21. Heard(j)'
  BY <1>1, <1>2, <1>10, <1>14 DEF Heard, Content, Complete, connVars
<1> QED
  BY <1>11, <1>12, <1>13, <1>14, <1>17, <1>18, <1>19, <1>20, <1>21, OneStep
  DEF JudgementInv

(* All is passed.                                                          *)
LEMMA HandleEndJudgeJInv ==
  ASSUME JInv, NEW j \in Judge, HandleEndJudge(j)
  PROVE  JInv'
<1>1. /\ Incoming(j, "EndJudge") /\ JudgeDies(j, "stopped")
      /\ UNCHANGED <<testcaseVars, connVars, slaveVars, envVars, handed, told>>
  BY DEF HandleEndJudge
<1>2. /\ TypeOK /\ IsFiniteSet(reports) /\ Turn(j) /\ Scripted(j) /\ Answered(j)
      /\ Ordered(j) /\ Cursor(j) /\ Phase(j) /\ Heard(j)
  BY Known
<1>3. testcase[j] = "stopped" /\ Complete(j) /\ assigned[j] # NoNode
  <2>1. /\ judge_box[j] # <<>> /\ Head(judge_box[j]) \in Content(judge_box[j])
        /\ Head(judge_box[j]).msg = "EndJudge"
    BY <1>1, <1>2, AtHead
  <2> QED
    BY <1>2, <2>1 DEF Phase, Heard
<1>4. /\ judge' \in [Judge -> {"waiting", "judging", "stopped", "panicked"}]
      /\ judge'[j] = "stopped"
      /\ judge_box' \in [Judge -> Seq(JudgeMessage)] /\ judge_box'[j] = <<>>
      /\ \A k \in Judge : k # j => judge'[k] = judge[k] /\ judge_box'[k] = judge_box[k]
  BY <1>1, <1>2, Death
<1>5. Content(judge_box'[j]) = {} /\ Updates(j)' = 0
  BY <1>4, Empty
<1>6. /\ Still
      /\ \A k \in Judge : OnWay(k)' = OnWay(k) /\ Out(k)' = Out(k)
  BY <1>1, NothingSent DEF connVars, envVars
<1>7. TypeOK' /\ IsFiniteSet(reports)'
  <2>1. \A k \in Judge : judge'[k] = "judging" => testcase'[k] # "none"
    BY <1>1, <1>2, <1>4 DEF TypeOK, testcaseVars
  <2> QED
    BY <1>1, <1>2, <1>4, <2>1
    DEF TypeOK, testcaseVars, connVars, slaveVars, envVars, StateSet, JudgeMessage,
        Packet, ConnectionMessage, Failure, EndJudge
<1>8. \A k \in Judge : k # j => Aside(k)
  BY <1>1, <1>4, <1>6 DEF Aside, testcaseVars, connVars, slaveVars, envVars, Own
<1>9. /\ Passed(j)' = Passed(j) /\ Fails(j)' = Fails(j) /\ Ordered(j)'
      /\ Coming(j)' = Coming(j) /\ Own(j)' = Own(j) /\ Unread(j)' = Unread(j)
      /\ Given(j)' = Given(j) /\ Tests(j)' = Tests(j)
  BY <1>1, <1>2, <1>6, ToldKept
  DEF slaveVars, envVars, Coming, Own, Unread, Given, OnWay, Tests
<1>10. /\ Updates(j) \in Nat /\ OnWay(j) \in Nat /\ Unread(j) \in Nat
       /\ Coming(j) \in Nat /\ pops[j] = 0
  BY <1>2, <1>3, Numbers, Known DEF Turn
<1>11. Turn(j)'
  BY <1>1, <1>2, <1>5, <1>6, <1>9, <1>10 DEF Underway, Turn, slaveVars, testcaseVars
<1>12. Scripted(j)' /\ Answered(j)'
  BY <1>1, <1>2, <1>6, <1>9 DEF Scripted, Answered, PacketAt, slaveVars, envVars
<1>13. Cursor(j)'
  BY <1>1, <1>2, <1>3, <1>9 DEF Underway, Cursor, testcaseVars
<1>14. Phase(j)'
  BY <1>1, <1>3, <1>4, <1>9
  DEF Phase, Started, Complete, testcaseVars, connVars, envVars
<1>15. Heard(j)'
  BY <1>5 DEF Heard, Content
<1> QED
  BY <1>6, <1>7, <1>8, <1>9, <1>11, <1>12, <1>13, <1>14, <1>15, OneStep
  DEF JudgementInv

-----------------------------------------------------------------------------
(* TestcaseService.                                                        *)

\* The linked list of n test cases.
LEMMA LinkedList ==
  ASSUME NEW n \in Nat, NEW t \in Nat, t <= n
  PROVE  NextTest(n, t) = IF t < n THEN t + 1 ELSE NoTest
<1>1. CASE n = 0
  BY <1>1 DEF NextTest, UuidMap, NoTest
<1>2. CASE n # 0
  <2>1. t \in DOMAIN UuidMap(n) /\ UuidMap(n)[t] = IF t = n THEN NoTest ELSE t + 1
    BY <1>2 DEF UuidMap
  <2> QED
    BY <2>1 DEF NextTest
<1> QED
  BY <1>1, <1>2

(* When a test case is asked for nothing else is under way, and what was   *)
(* sent before it is passed.                                               *)
LEMMA Popped ==
  ASSUME JInv, NEW j \in Judge, Popping(j)
  PROVE  /\ pops[j] = 1 /\ OnWay(j) = 0 /\ Unread(j) = 0 /\ Coming(j) = 0
         /\ Updates(j) = 0 /\ Fails(j) = 0 /\ Out(j) = {} /\ read[j] = Len(handed[j])
         /\ Passed(j) = cur[j] + 1 /\ Len(handed[j]) = cur[j] + 1 /\ read[j] = cur[j] + 1
         /\ cur[j] \in Nat /\ Tests(j) \in Nat /\ cur[j] <= Tests(j)
         /\ judge[j] = "judging" /\ testcase[j] = "running" /\ assigned[j] # NoNode
         /\ NextOf(j) = IF cur[j] < Tests(j) THEN cur[j] + 1 ELSE NoTest
<1>1. TypeOK /\ IsFiniteSet(reports) /\ Turn(j) /\ Cursor(j) /\ Phase(j)
  BY Known
<1>2. testcase[j] = "running" /\ pops[j] > 0
  BY DEF Popping
<1>3. /\ OnWay(j) \in Nat /\ Coming(j) \in Nat /\ Updates(j) \in Nat /\ Unread(j) \in Nat
      /\ Passed(j) \in Nat /\ Fails(j) \in Nat /\ pops[j] \in Nat /\ cur[j] \in Nat
  BY <1>1, Numbers, Known
<1>4. Underway(j) <= 1
  BY <1>1 DEF Turn
<1>5. /\ pops[j] = 1 /\ OnWay(j) = 0 /\ Unread(j) = 0 /\ Coming(j) = 0 /\ Updates(j) = 0
      /\ Underway(j) # 0
  <2>1. \A a, b, c, d, e \in Nat : e > 0 /\ a + b + c + d + e <= 1 =>
          e = 1 /\ a = 0 /\ b = 0 /\ c = 0 /\ d = 0 /\ a + b + c + d + e # 0
    OBVIOUS
  <2> QED
    BY <1>2, <1>3, <1>4, <2>1 DEF Underway
<1>6. Fails(j) = 0 /\ judge[j] = "judging" /\ read[j] = Passed(j) + Fails(j) + Coming(j)
  BY <1>1, <1>2, <1>3 DEF Turn
<1>7. read[j] = Len(handed[j])
  <2>1. read[j] \in Nat /\ Len(handed[j]) \in Nat
    BY <1>1, Numbers
  <2> QED
    BY <1>5, <2>1 DEF Unread
<1>8. Given(j) = cur[j] + 1 /\ cur[j] <= Tests(j)
  BY <1>1, <1>2, <1>5 DEF Cursor
<1>9. Given(j) = Len(handed[j]) + OnWay(j) /\ Len(handed[j]) \in Nat
  BY <1>1, Numbers
<1>10. Len(handed[j]) = cur[j] + 1
  BY <1>5, <1>8, <1>9
<1>11. Passed(j) = read[j]
  BY <1>3, <1>5, <1>6
<1>12. Tests(j) \in Nat /\ NextOf(j) = NextTest(Tests(j), cur[j])
  BY <1>1, RequestTypes DEF NextOf, Tests
<1>13. NextOf(j) = IF cur[j] < Tests(j) THEN cur[j] + 1 ELSE NoTest
  BY <1>3, <1>8, <1>12, LinkedList
<1>14. Out(j) = {} /\ assigned[j] # NoNode
  BY <1>1, <1>2, <1>5, Known DEF Phase, Started
<1> QED
  BY <1>2, <1>3, <1>5, <1>6, <1>7, <1>8, <1>10, <1>11, <1>12, <1>13, <1>14

(* The next test case is sent.                                             *)
LEMMA PopTestJInv ==
  ASSUME JInv, NEW j \in Judge, PopTest(j)
  PROVE  JInv'
<1> DEFINE t == NextOf(j)
<1>1. /\ Popping(j) /\ t # NoTest /\ cur' = [cur EXCEPT ![j] = t]
      /\ pops' = [pops EXCEPT ![j] = @ - 1] /\ ToConnection(Send(j, TestCase(t)))
      /\ UNCHANGED <<testcase, judgeVars, connections, conn_up, slaveVars, envVars,
                     handed, told>>
  BY DEF PopTest
<1>2. /\ TypeOK /\ IsFiniteSet(reports) /\ Turn(j) /\ Scripted(j) /\ Answered(j)
      /\ Ordered(j) /\ Cursor(j) /\ Phase(j) /\ Heard(j)
  BY Known
<1>3. /\ pops[j] = 1 /\ OnWay(j) = 0 /\ Unread(j) = 0 /\ Coming(j) = 0
      /\ Updates(j) = 0 /\ Fails(j) = 0 /\ Out(j) = {} /\ read[j] = Len(handed[j])
      /\ Passed(j) = cur[j] + 1 /\ Len(handed[j]) = cur[j] + 1 /\ read[j] = cur[j] + 1
      /\ cur[j] \in Nat /\ Tests(j) \in Nat /\ assigned[j] # NoNode
      /\ judge[j] = "judging" /\ testcase[j] = "running"
  BY <1>1, Popped
<1>4. t = cur[j] + 1 /\ t <= Tests(j) /\ t \in Nat
  <2>1. t = IF cur[j] < Tests(j) THEN cur[j] + 1 ELSE NoTest
    BY <1>1, Popped
  <2> QED
    BY <1>1, <1>3, <2>1
<1> HIDE DEF t
<1>5. /\ cur' \in [Judge -> Nat] /\ cur'[j] = t /\ pops' \in [Judge -> Nat] /\ pops'[j] = 0
      /\ \A k \in Judge : k # j => cur'[k] = cur[k] /\ pops'[k] = pops[k]
  <2>1. cur \in [Judge -> Nat] /\ pops \in [Judge -> Nat] /\ pops[j] - 1 = 0
    BY <1>2, <1>3 DEF TypeOK
  <2> QED
    BY <1>1, <1>4, <2>1
<1>6. /\ Still /\ conn_box' \in Seq(ConnectionMessage)
      /\ \A k \in Judge : k # j => OnWay(k)' = OnWay(k) /\ Out(k)' = Out(k)
      /\ conn_up => OnWay(j)' = 1 /\ Out(j)' = {Send(j, TestCase(t))}
      /\ ~conn_up => OnWay(j)' = 0 /\ Out(j)' = {}
  BY <1>1, <1>2, <1>3, <1>4, Packets, PacketSent DEF envVars
<1>7. TypeOK' /\ IsFiniteSet(reports)'
  BY <1>1, <1>2, <1>5, <1>6
  DEF TypeOK, judgeVars, slaveVars, envVars, StateSet, JudgeMessage, Packet,
      ConnectionMessage, Failure, EndJudge
<1>8. \A k \in Judge : k # j => Aside(k)
  BY <1>1, <1>5, <1>6 DEF Aside, judgeVars, slaveVars, envVars, Own
<1>9. /\ Passed(j)' = Passed(j) /\ Fails(j)' = Fails(j) /\ Ordered(j)'
      /\ Coming(j)' = Coming(j) /\ Own(j)' = Own(j) /\ Unread(j)' = Unread(j)
      /\ Updates(j)' = Updates(j) /\ Tests(j)' = Tests(j)
  BY <1>1, <1>2, ToldKept
  DEF judgeVars, slaveVars, envVars, Coming, Own, Unread, Updates, Tests
<1>10. /\ Given(j)' = cur[j] + 1 + OnWay(j)' /\ Underway(j)' = OnWay(j)'
       /\ OnWay(j)' \in {0, 1}
  <2>1. OnWay(j)' \in {0, 1}
    BY <1>6
  <2>2. Given(j)' = Len(handed[j]) + OnWay(j)'
    BY <1>1 DEF Given, OnWay
  <2>3. Underway(j)' = OnWay(j)' + 0 + 0 + 0 + 0
    BY <1>3, <1>5, <1>9 DEF Underway
  <2> QED
    BY <1>3, <2>1, <2>2, <2>3
<1>11. Turn(j)'
  BY <1>1, <1>2, <1>3, <1>5, <1>9, <1>10 DEF Turn, slaveVars
<1>12. Scripted(j)'
  <2> PICK L \in Nat : L = t + 1
    BY <1>4
  <2>1. PacketAt(j, L)' = TestCase(t)
    <3>1. L # 1 /\ L # Tests(j)' + 2 /\ L - 1 = t
      BY <1>3, <1>4, <1>9
    <3> QED
      BY <3>1 DEF PacketAt, TestCase
  <2>2. /\ Send(j, TestCase(t)).node = assigned[j]
        /\ Send(j, TestCase(t)).packet = TestCase(t)
    BY <1>2, <1>3, <1>4, Messages, Packets
  <2>3. \A m \in Out(j)' : m.node = assigned'[j] /\ m.packet = TestCase(t)
    BY <1>1, <1>6, <2>2 DEF envVars
  <2>4. Len(handed'[j]) + 1 = L
    BY <1>1, <1>3, <1>4
  <2>5. Given(j)' <= Tests(j)' + 2
    BY <1>3, <1>4, <1>9, <1>10
  <2>6. \A i \in DOMAIN handed'[j] : handed'[j][i] = PacketAt(j, i)'
    BY <1>1, <1>2, <1>9 DEF Scripted, PacketAt
  <2> QED
    BY <2>1, <2>3, <2>4, <2>5, <2>6 DEF Scripted
<1>13. Answered(j)'
  BY <1>1, <1>2, <1>9 DEF Answered, slaveVars
<1>14. Cursor(j)'
  <2>1. cur'[j] <= Tests(j)'
    BY <1>4, <1>5, <1>9
  <2>2. CASE conn_up
    <3>1. Given(j)' = cur'[j] + 1
      BY <1>3, <1>4, <1>5, <1>6, <1>10, <2>2
    <3> QED
      BY <2>1, <3>1 DEF Cursor
  <2>3. CASE ~conn_up
    <3>1. Underway(j)' = 0 /\ ~conn_up'
      BY <1>1, <1>6, <1>10, <2>3
    <3> QED
      BY <2>1, <3>1 DEF Cursor
  <2> QED
    BY <2>2, <2>3
<1>15. Phase(j)'
  BY <1>1, <1>2, <1>3, <1>9 DEF Phase, Started, judgeVars, envVars
<1>16. Heard(j)'
  BY <1>1, <1>2, <1>3, <1>9 DEF Heard, Content, judgeVars
<1> QED
  BY <1>6, <1>7, <1>8, <1>9, <1>11, <1>12, <1>13, <1>14, <1>15, <1>16, OneStep
  DEF JudgementInv

(* A file cannot be read: nothing of the judgement is under way any more.  *)
LEMMA PopFailsJInv ==
  ASSUME JInv, NEW j \in Judge, PopFails(j)
  PROVE  JInv'
<1> DEFINE t == NextOf(j)
<1>1. /\ Popping(j) /\ t # NoTest /\ cur' = [cur EXCEPT ![j] = t]
      /\ testcase' = [testcase EXCEPT ![j] = "panicked"] /\ pops' = [pops EXCEPT ![j] = 0]
      /\ UNCHANGED <<judgeVars, connVars, slaveVars, envVars, handed, told>>
  BY DEF PopFails
<1>2. /\ TypeOK /\ IsFiniteSet(reports) /\ Turn(j) /\ Scripted(j) /\ Answered(j)
      /\ Ordered(j) /\ Cursor(j) /\ Phase(j) /\ Heard(j)
  BY Known
<1>3. /\ OnWay(j) = 0 /\ Unread(j) = 0 /\ Coming(j) = 0 /\ Updates(j) = 0
      /\ cur[j] \in Nat /\ Tests(j) \in Nat /\ assigned[j] # NoNode
      /\ judge[j] = "judging" /\ testcase[j] = "running"
  BY <1>1, Popped
<1>4. t <= Tests(j) /\ t \in Nat
  <2>1. t = IF cur[j] < Tests(j) THEN cur[j] + 1 ELSE NoTest
    BY <1>1, Popped
  <2> QED
    BY <1>1, <1>3, <2>1
<1> HIDE DEF t
<1>5. /\ cur' \in [Judge -> Nat] /\ cur'[j] = t /\ pops' \in [Judge -> Nat] /\ pops'[j] = 0
      /\ testcase' \in [Judge -> {"none", "running", "stopped", "panicked"}]
      /\ testcase'[j] = "panicked"
      /\ \A k \in Judge : k # j => /\ cur'[k] = cur[k] /\ pops'[k] = pops[k]
                                   /\ testcase'[k] = testcase[k]
  BY <1>1, <1>2, <1>4 DEF TypeOK
<1>6. /\ Still
      /\ \A k \in Judge : OnWay(k)' = OnWay(k) /\ Out(k)' = Out(k)
  BY <1>1, NothingSent DEF connVars, envVars
<1>7. TypeOK' /\ IsFiniteSet(reports)'
  <2>1. \A k \in Judge : judge'[k] = "judging" => testcase'[k] # "none"
    BY <1>1, <1>2, <1>5 DEF TypeOK, judgeVars
  <2> QED
    BY <1>1, <1>2, <1>5, <2>1
    DEF TypeOK, judgeVars, connVars, slaveVars, envVars, StateSet, JudgeMessage, Packet,
        ConnectionMessage, Failure, EndJudge
<1>8. \A k \in Judge : k # j => Aside(k)
  BY <1>1, <1>5, <1>6 DEF Aside, judgeVars, connVars, slaveVars, envVars, Own
<1>9. /\ Passed(j)' = Passed(j) /\ Fails(j)' = Fails(j) /\ Ordered(j)'
      /\ Coming(j)' = Coming(j) /\ Own(j)' = Own(j) /\ Unread(j)' = Unread(j)
      /\ Updates(j)' = Updates(j) /\ Tests(j)' = Tests(j) /\ Given(j)' = Given(j)
  BY <1>1, <1>2, <1>6, ToldKept
  DEF judgeVars, slaveVars, envVars, Coming, Own, Unread, Updates, Tests, Given, OnWay
<1>10. Underway(j)' = 0
  BY <1>3, <1>5, <1>6, <1>9 DEF Underway
<1>11. Turn(j)'
  BY <1>1, <1>2, <1>5, <1>6, <1>9, <1>10 DEF Turn, slaveVars
<1>12. Scripted(j)' /\ Answered(j)'
  BY <1>1, <1>2, <1>6, <1>9 DEF Scripted, Answered, PacketAt, slaveVars, envVars
<1>13. Cursor(j)'
  BY <1>4, <1>5, <1>9 DEF Cursor
<1>14. Phase(j)'
  BY <1>1, <1>2, <1>3, <1>5, <1>9 DEF Phase, Started, judgeVars, envVars
<1>15. Heard(j)'
  BY <1>1, <1>2, <1>3, <1>5, <1>9 DEF Heard, Content, judgeVars
<1> QED
  BY <1>6, <1>7, <1>8, <1>9, <1>11, <1>12, <1>13, <1>14, <1>15, OneStep
  DEF JudgementInv

(* The end is sent to the slave and to the JudgeService.                   *)
LEMMA PopEndJInv ==
  ASSUME JInv, NEW j \in Judge, PopEnd(j)
  PROVE  JInv'
<1>1. /\ Popping(j) /\ NextOf(j) = NoTest
      /\ testcase' = [testcase EXCEPT ![j] = "stopped"] /\ pops' = [pops EXCEPT ![j] = 0]
      /\ ToConnection(Send(j, TestCaseEnd)) /\ JudgeGets(j, EndJudge)
      /\ UNCHANGED <<judge, cur, connections, conn_up, slaveVars, envVars, handed, told>>
  BY DEF PopEnd
<1>2. /\ TypeOK /\ IsFiniteSet(reports) /\ Turn(j) /\ Scripted(j) /\ Answered(j)
      /\ Ordered(j) /\ Cursor(j) /\ Phase(j) /\ Heard(j)
  BY Known
<1>3. /\ OnWay(j) = 0 /\ Unread(j) = 0 /\ Coming(j) = 0 /\ Updates(j) = 0 /\ Fails(j) = 0
      /\ Out(j) = {} /\ Len(handed[j]) = Tests(j) + 1 /\ Passed(j) = Tests(j) + 1
      /\ cur[j] = Tests(j) /\ Tests(j) \in Nat /\ assigned[j] # NoNode
      /\ judge[j] = "judging" /\ testcase[j] = "running"
  <2>1. /\ OnWay(j) = 0 /\ Unread(j) = 0 /\ Coming(j) = 0 /\ Updates(j) = 0 /\ Fails(j) = 0
        /\ Out(j) = {} /\ Len(handed[j]) = cur[j] + 1 /\ Passed(j) = cur[j] + 1
        /\ cur[j] \in Nat /\ Tests(j) \in Nat /\ cur[j] <= Tests(j) /\ assigned[j] # NoNode
        /\ judge[j] = "judging" /\ testcase[j] = "running"
        /\ NextOf(j) = IF cur[j] < Tests(j) THEN cur[j] + 1 ELSE NoTest
    BY <1>1, Popped
  <2>2. cur[j] = Tests(j)
    BY <1>1, <2>1 DEF NoTest
  <2> QED
    BY <2>1, <2>2
<1>4. /\ pops' \in [Judge -> Nat] /\ pops'[j] = 0 /\ testcase'[j] = "stopped"
      /\ testcase' \in [Judge -> {"none", "running", "stopped", "panicked"}]
      /\ \A k \in Judge : k # j => pops'[k] = pops[k] /\ testcase'[k] = testcase[k]
  BY <1>1, <1>2 DEF TypeOK
<1>5. /\ judge_box' \in [Judge -> Seq(JudgeMessage)]
      /\ \A k \in Judge : k # j => judge_box'[k] = judge_box[k]
      /\ Content(judge_box'[j]) = Content(judge_box[j]) \cup {EndJudge}
      /\ Updates(j)' = 0
  <2>1. Alive(j)
    BY <1>3 DEF Alive
  <2>2. EndJudge \in JudgeMessage /\ EndJudge \notin VerdictUpdate
    <3>1. "EndJudge" # "JudgeStateUpdate"
      OBVIOUS
    <3> QED
      BY <3>1, JudgeMessages
  <2>3. /\ judge_box' \in [Judge -> Seq(JudgeMessage)]
        /\ \A k \in Judge : k # j => judge_box'[k] = judge_box[k]
        /\ Content(judge_box'[j]) = Content(judge_box[j]) \cup {EndJudge}
        /\ Updates(j)' = Updates(j) + (IF EndJudge \in VerdictUpdate THEN 1 ELSE 0)
    BY <1>1, <1>2, <2>1, <2>2, Gets, Zenon
  <2>4. Updates(j)' = 0
    BY <1>3, <2>2, <2>3
  <2> QED
    BY <2>3, <2>4
<1>6. /\ Still /\ conn_box' \in Seq(ConnectionMessage)
      /\ \A k \in Judge : k # j => OnWay(k)' = OnWay(k) /\ Out(k)' = Out(k)
      /\ conn_up => OnWay(j)' = 1 /\ Out(j)' = {Send(j, TestCaseEnd)}
      /\ ~conn_up => OnWay(j)' = 0 /\ Out(j)' = {}
  BY <1>1, <1>2, <1>3, Packets, PacketSent DEF envVars
<1>7. TypeOK' /\ IsFiniteSet(reports)'
  <2>1. \A k \in Judge : judge'[k] = "judging" => testcase'[k] # "none"
    BY <1>1, <1>2, <1>4 DEF TypeOK
  <2> QED
    BY <1>1, <1>2, <1>4, <1>5, <1>6, <2>1
    DEF TypeOK, slaveVars, envVars, StateSet, JudgeMessage, Packet, ConnectionMessage,
        Failure, EndJudge
<1>8. \A k \in Judge : k # j => Aside(k)
  BY <1>1, <1>4, <1>5, <1>6 DEF Aside, slaveVars, envVars, Own
<1>9. /\ Passed(j)' = Passed(j) /\ Fails(j)' = Fails(j) /\ Ordered(j)'
      /\ Coming(j)' = Coming(j) /\ Own(j)' = Own(j) /\ Unread(j)' = Unread(j)
      /\ Tests(j)' = Tests(j) /\ conn_up' = conn_up
  BY <1>1, <1>2, ToldKept DEF slaveVars, envVars, Coming, Own, Unread, Tests
<1>10. /\ Given(j)' = Tests(j) + 1 + OnWay(j)' /\ Underway(j)' = OnWay(j)'
       /\ OnWay(j)' \in {0, 1}
  <2>1. OnWay(j)' \in {0, 1}
    BY <1>6
  <2>2. Given(j)' = Len(handed[j]) + OnWay(j)'
    BY <1>1 DEF Given, OnWay
  <2>3. Underway(j)' = OnWay(j)' + 0 + 0 + 0 + 0
    BY <1>3, <1>4, <1>5, <1>9 DEF Underway
  <2> QED
    BY <1>3, <2>1, <2>2, <2>3
<1>11. Turn(j)'
  BY <1>1, <1>2, <1>3, <1>4, <1>9, <1>10 DEF Turn, slaveVars
<1>12. Scripted(j)'
  <2> PICK L \in Nat : L = Tests(j) + 2
    BY <1>3
  <2>1. PacketAt(j, L)' = TestCaseEnd
    BY <1>3, <1>9 DEF PacketAt, TestCaseEnd, NoTest
  <2>2. /\ Send(j, TestCaseEnd).node = assigned[j]
        /\ Send(j, TestCaseEnd).packet = TestCaseEnd
    BY <1>2, <1>3, Messages, Packets
  <2>3. \A m \in Out(j)' : m.node = assigned'[j] /\ m.packet = TestCaseEnd
    BY <1>1, <1>6, <2>2 DEF envVars
  <2>4. Len(handed'[j]) + 1 = L
    BY <1>1, <1>3
  <2>5. Given(j)' <= Tests(j)' + 2
    BY <1>3, <1>9, <1>10
  <2>6. \A i \in DOMAIN handed'[j] : handed'[j][i] = PacketAt(j, i)'
    BY <1>1, <1>2, <1>9 DEF Scripted, PacketAt
  <2> QED
    BY <2>1, <2>3, <2>4, <2>5, <2>6 DEF Scripted
<1>13. Answered(j)'
  BY <1>1, <1>2, <1>9 DEF Answered, slaveVars
<1>14. Cursor(j)'
  BY <1>1, <1>2, <1>4, <1>9 DEF Cursor
<1>15. Phase(j)'
  BY <1>1, <1>2, <1>3, <1>4, <1>9 DEF Phase, Started, envVars
<1>16. Heard(j)'
  <2>1. Complete(j)'
    BY <1>3, <1>6, <1>9, <1>10 DEF Complete
  <2>2. \A m \in Content(judge_box[j]) : m.msg # "Dispatch" /\ m.msg # "EndJudge"
    BY <1>2, <1>3 DEF Heard
  <2>3. /\ EndJudge.msg = "EndJudge" /\ "EndJudge" # "Dispatch"
        /\ "EndJudge" # "JudgeStateUpdate"
    BY DEF EndJudge
  <2>4. \A m \in Content(judge_box'[j]) : m = EndJudge \/ m \in Content(judge_box[j])
    BY <1>5
  <2>5. \A m \in Content(judge_box'[j]) :
          /\ m.msg = "Dispatch" => testcase'[j] = "none"
          /\ m.msg = "EndJudge" => testcase'[j] = "stopped" /\ Complete(j)'
          /\ m.msg = "JudgeStateUpdate" =>
               /\ testcase'[j] # "none"
               /\ m.of.state \in Failure => Fails(j)' > 0
               /\ m.of.state \in Passing => Fails(j)' = 0
    BY <1>2, <1>4, <1>9, <2>1, <2>2, <2>3, <2>4 DEF Heard
  <2> QED
    BY <2>5 DEF Heard, Content, Failure, Passing
<1> QED
  BY <1>6, <1>7, <1>8, <1>9, <1>11, <1>12, <1>13, <1>14, <1>15, <1>16, OneStep
  DEF JudgementInv

(* A TestcaseService that nobody can ask any more stops.                   *)
LEMMA TestcaseDroppedJInv ==
  ASSUME JInv, NEW j \in Judge, TestcaseDropped(j)
  PROVE  JInv'
<1>1. /\ testcase[j] = "running" /\ pops[j] = 0 /\ ~Alive(j)
      /\ testcase' = [testcase EXCEPT ![j] = "stopped"]
      /\ UNCHANGED <<cur, pops, judgeVars, connVars, slaveVars, envVars, handed, told>>
  BY DEF TestcaseDropped
<1>2. /\ TypeOK /\ IsFiniteSet(reports) /\ Turn(j) /\ Scripted(j) /\ Answered(j)
      /\ Ordered(j) /\ Cursor(j) /\ Phase(j) /\ Heard(j)
  BY Known
<1>3. /\ testcase' \in [Judge -> {"none", "running", "stopped", "panicked"}]
      /\ testcase'[j] = "stopped"
      /\ \A k \in Judge : k # j => testcase'[k] = testcase[k]
  BY <1>1, <1>2 DEF TypeOK
<1>4. /\ Still
      /\ \A k \in Judge : OnWay(k)' = OnWay(k) /\ Out(k)' = Out(k)
  BY <1>1, NothingSent DEF connVars, envVars
<1>5. TypeOK' /\ IsFiniteSet(reports)'
  <2>1. \A k \in Judge : judge'[k] = "judging" => testcase'[k] # "none"
    BY <1>1, <1>2, <1>3 DEF TypeOK, judgeVars
  <2> QED
    BY <1>1, <1>2, <1>3, <2>1
    DEF TypeOK, judgeVars, connVars, slaveVars, envVars, StateSet, JudgeMessage, Packet,
        ConnectionMessage, Failure, EndJudge
<1>6. \A k \in Judge : k # j => Aside(k)
  BY <1>1, <1>3, <1>4 DEF Aside, judgeVars, connVars, slaveVars, envVars, Own
<1>7. /\ Passed(j)' = Passed(j) /\ Fails(j)' = Fails(j) /\ Ordered(j)'
      /\ Coming(j)' = Coming(j) /\ Own(j)' = Own(j) /\ Unread(j)' = Unread(j)
      /\ Updates(j)' = Updates(j) /\ Tests(j)' = Tests(j) /\ Given(j)' = Given(j)
  BY <1>1, <1>2, <1>4, ToldKept
  DEF judgeVars, slaveVars, envVars, Coming, Own, Unread, Updates, Tests, Given, OnWay
<1>8. Underway(j)' = Underway(j)
  BY <1>1, <1>4, <1>7 DEF Underway
<1>9. Turn(j)'
  BY <1>1, <1>2, <1>4, <1>7, <1>8 DEF Turn, slaveVars
<1>10. Scripted(j)' /\ Answered(j)'
  BY <1>1, <1>2, <1>4, <1>7 DEF Scripted, Answered, PacketAt, slaveVars, envVars
<1>11. Cursor(j)'
  BY <1>1, <1>2, <1>3, <1>7 DEF Cursor
<1>12. Phase(j)'
  BY <1>1, <1>2, <1>3, <1>7 DEF Phase, Started, Complete, judgeVars, connVars, envVars
<1>13. Heard(j)'
  BY <1>1, <1>2, <1>3, <1>7 DEF Heard, Content, judgeVars
<1> QED
  BY <1>4, <1>5, <1>6, <1>7, <1>9, <1>10, <1>11, <1>12, <1>13, OneStep DEF JudgementInv

-----------------------------------------------------------------------------
(* ConnectionService.                                                      *)

LEMMA Others ==
  /\ \A n \in Node :
       /\ Delete(n) \in ConnectionMessage /\ Delete(n).op = "DeleteStream" /\ Delete(n).node = n
       /\ Answer(n) \in ConnectionMessage /\ Answer(n).op = "Answer" /\ Answer(n).node = n
       /\ NewStream(n) \in ConnectionMessage /\ NewStream(n).op = "NewStream"
       /\ NewStream(n).node = n
  /\ \A m \in ConnectionMessage :
       /\ m.node \in Node /\ m.op \in {"Send", "Answer", "DeleteStream", "NewStream"}
       /\ m.op = "Send" => m.judge \in Judge /\ m.packet \in Packet
       /\ \A n \in Node : /\ m = Delete(n) <=> m.op = "DeleteStream" /\ m.node = n
                          /\ m = Answer(n) <=> m.op = "Answer" /\ m.node = n
<1>1. ASSUME NEW n \in Node
      PROVE  /\ Delete(n) \in ConnectionMessage /\ Delete(n).op = "DeleteStream"
             /\ Delete(n).node = n
             /\ Answer(n) \in ConnectionMessage /\ Answer(n).op = "Answer"
             /\ Answer(n).node = n
             /\ NewStream(n) \in ConnectionMessage /\ NewStream(n).op = "NewStream"
             /\ NewStream(n).node = n
  BY DEF Delete, Answer, NewStream, ConnectionMessage
<1>2. ASSUME NEW m \in ConnectionMessage
      PROVE  /\ m.node \in Node /\ m.op \in {"Send", "Answer", "DeleteStream", "NewStream"}
             /\ m.op = "Send" => m.judge \in Judge /\ m.packet \in Packet
             /\ \A n \in Node : /\ m = Delete(n) <=> m.op = "DeleteStream" /\ m.node = n
                                /\ m = Answer(n) <=> m.op = "Answer" /\ m.node = n
  BY DEF ConnectionMessage, Delete, Answer
<1> QED
  BY <1>1, <1>2

(* No judgement is touched by a step that concerns the connections only.   *)
LEMMA NobodyTouched ==
  ASSUME JInv, TypeOK',
         UNCHANGED <<request, judgeVars, testcaseVars, conn_up, assigned, slaveVars,
                     handed, told>>,
         \A k \in Judge : OnWay(k)' = OnWay(k) /\ Out(k)' = Out(k),
         \A n \in Node : Counted(n)' /\ Greeted(n)', Explained', Lost'
  PROVE  JInv'
<1>1. \A k \in Judge : Aside(k)
  BY DEF Aside, judgeVars, testcaseVars, slaveVars, Own
<1>2. \A k \in Judge : JudgementInv(k)'
  BY <1>1, AsideKeeps DEF JInv
<1>3. IsFiniteSet(reports)'
  BY DEF JInv, slaveVars
<1> QED
  BY <1>2, <1>3 DEF JInv

\* A message that is no packet of a judgement is posted.
LEMMA OtherPosted ==
  ASSUME JInv, NEW m \in ConnectionMessage, m.op # "Send", ToConnection(m)
  PROVE  /\ conn_box' \in Seq(ConnectionMessage)
         /\ ~conn_up => conn_box' = conn_box
         /\ \A k \in Judge : OnWay(k)' = OnWay(k) /\ Out(k)' = Out(k)
         /\ \A k \in Node :
              /\ Count(conn_box, Delete(k)) \in Nat /\ Count(conn_box, Answer(k)) \in Nat
              /\ Count(conn_box, Delete(k))' = Count(conn_box, Delete(k)) +
                   (IF conn_up /\ m.op = "DeleteStream" /\ m.node = k THEN 1 ELSE 0)
              /\ Count(conn_box, Answer(k))' = Count(conn_box, Answer(k)) +
                   (IF conn_up /\ m.op = "Answer" /\ m.node = k THEN 1 ELSE 0)
<1>1. /\ conn_box' \in Seq(ConnectionMessage)
      /\ ~conn_up => conn_box' = conn_box
      /\ \A k \in Judge : ~(conn_up /\ m.op = "Send" /\ m.judge = k) =>
           OnWay(k)' = OnWay(k) /\ Out(k)' = Out(k)
      /\ \A x : /\ Count(conn_box, x) \in Nat
               /\ Count(conn_box, x)' =
                    Count(conn_box, x) + (IF conn_up /\ m = x THEN 1 ELSE 0)
  BY Posted DEF JInv
<1>2. \A k \in Node : /\ m = Delete(k) <=> m.op = "DeleteStream" /\ m.node = k
                      /\ m = Answer(k) <=> m.op = "Answer" /\ m.node = k
  BY Others
<1> QED
  BY <1>1, <1>2

\* What is known of a node.
LEMMA OfNode ==
  ASSUME JInv, NEW n \in Node
  PROVE  /\ Counted(n) /\ Greeted(n) /\ downs[n] \in Nat /\ answered[n] \in Nat
         /\ downs[n] <= MaxHandshake /\ answered[n] <= MaxHandshake
         /\ Count(conn_box, Delete(n)) \in Nat /\ Count(conn_box, Answer(n)) \in Nat
<1>1. /\ Counted(n) /\ Greeted(n) /\ downs[n] \in 0 .. MaxHandshake
      /\ answered[n] \in 0 .. MaxHandshake /\ conn_box \in Seq(ConnectionMessage)
  BY DEF JInv, TypeOK
<1>2. ASSUME NEW x PROVE Count(conn_box, x) \in Nat
  <2>1. At(conn_box, {x}) \subseteq 1 .. Len(conn_box) /\ Len(conn_box) \in Nat
    BY <1>1 DEF At
  <2> QED
    BY <2>1, Positions DEF Count
<1> QED
  BY <1>1, <1>2, BoundAssumption

(* A handshake is answered.                                                *)
LEMMA HandshakeJInv ==
  ASSUME JInv, NEW n \in Node, Handshake(n)
  PROVE  JInv'
<1>1. /\ answered[n] < MaxHandshake /\ answered' = [answered EXCEPT ![n] = @ + 1]
      /\ ToConnection(Answer(n))
      /\ UNCHANGED <<request, assigned, downs, backs, judgeVars, testcaseVars, connections,
                     conn_up, slaveVars, handed, told>>
  BY DEF Handshake
<1>2. TypeOK /\ Explained /\ Lost
  BY DEF JInv
<1>3. /\ conn_box' \in Seq(ConnectionMessage)
      /\ ~conn_up => conn_box' = conn_box
      /\ \A k \in Judge : OnWay(k)' = OnWay(k) /\ Out(k)' = Out(k)
      /\ \A k \in Node :
           /\ Count(conn_box, Delete(k))' = Count(conn_box, Delete(k))
           /\ Count(conn_box, Answer(k))' =
                Count(conn_box, Answer(k)) + (IF conn_up /\ n = k THEN 1 ELSE 0)
  <2> DEFINE m == Answer(n)
  <2>1. m \in ConnectionMessage /\ m.op = "Answer" /\ m.node = n
    BY Others
  <2>2. ToConnection(m)
    BY <1>1
  <2> HIDE DEF m
  <2> QED
    BY <2>1, <2>2, OtherPosted
<1>4. /\ answered' \in [Node -> 0 .. MaxHandshake] /\ answered'[n] = answered[n] + 1
      /\ \A k \in Node : k # n => answered'[k] = answered[k]
  <2>1. answered \in [Node -> 0 .. MaxHandshake] /\ answered[n] + 1 \in 0 .. MaxHandshake
    BY <1>1, <1>2, BoundAssumption DEF TypeOK
  <2> QED
    BY <1>1, <2>1
<1>5. TypeOK'
  BY <1>1, <1>2, <1>3, <1>4
  DEF TypeOK, judgeVars, testcaseVars, slaveVars, StateSet, JudgeMessage, Packet,
      ConnectionMessage, Failure, EndJudge
<1>6. ASSUME NEW k \in Node PROVE Counted(k)' /\ Greeted(k)'
  <2>1. /\ Counted(k) /\ Greeted(k) /\ downs[k] \in Nat /\ answered[k] \in Nat
        /\ Count(conn_box, Answer(k)) \in Nat
    BY OfNode
  <2>2. downs[k] + Count(conn_box, Answer(k))' <= answered'[k]
    BY <1>3, <1>4, <2>1 DEF Greeted
  <2> QED
    BY <1>1, <1>3, <2>1, <2>2 DEF Counted, Greeted
<1>7. Explained'
  <2>1. \A k \in Node : answered[k] > 1 => answered'[k] > 1
    BY <1>4, OfNode
  <2> QED
    BY <1>1, <1>2, <2>1 DEF Explained
<1>8. Lost'
  BY <1>1, <1>2, <1>3 DEF Lost
<1> QED
  BY <1>1, <1>3, <1>5, <1>6, <1>7, <1>8, NobodyTouched

(* A node is taken down: one more DeleteStream for one more DownNode, for  *)
(* a handshake that waits for its answer no longer.                        *)
LEMMA NodeDownJInv ==
  ASSUME JInv, NEW n \in Node, NodeDown(n)
  PROVE  JInv'
<1>1. /\ downs[n] < answered[n] - Cardinality(Awaiting(n))
      /\ downs' = [downs EXCEPT ![n] = @ + 1] /\ ToConnection(Delete(n))
      /\ UNCHANGED <<request, assigned, answered, backs, judgeVars, testcaseVars,
                     connections, conn_up, slaveVars, handed, told>>
  BY DEF NodeDown
<1>2. TypeOK /\ Explained /\ Lost
  BY DEF JInv
<1>3. /\ conn_box' \in Seq(ConnectionMessage)
      /\ ~conn_up => conn_box' = conn_box
      /\ \A k \in Judge : OnWay(k)' = OnWay(k) /\ Out(k)' = Out(k)
      /\ \A k \in Node :
           /\ Count(conn_box, Answer(k))' = Count(conn_box, Answer(k))
           /\ Count(conn_box, Delete(k))' =
                Count(conn_box, Delete(k)) + (IF conn_up /\ n = k THEN 1 ELSE 0)
  <2> DEFINE m == Delete(n)
  <2>1. m \in ConnectionMessage /\ m.op = "DeleteStream" /\ m.node = n
    BY Others
  <2>2. ToConnection(m)
    BY <1>1
  <2> HIDE DEF m
  <2> QED
    BY <2>1, <2>2, OtherPosted
<1>4. downs[n] + 1 + Count(conn_box, Answer(n)) <= answered[n]
  <2>1. Awaiting(n) = At(conn_box, {Answer(n)})
    BY DEF Awaiting, At
  <2>2. Cardinality(Awaiting(n)) = Count(conn_box, Answer(n))
    BY <2>1 DEF Count
  <2> QED
    BY <1>1, <2>2, OfNode
<1>5. /\ downs' \in [Node -> 0 .. MaxHandshake] /\ downs'[n] = downs[n] + 1
      /\ \A k \in Node : k # n => downs'[k] = downs[k]
  <2>1. downs \in [Node -> 0 .. MaxHandshake]
    BY <1>2 DEF TypeOK
  <2>2. downs[n] + 1 \in 0 .. MaxHandshake
    BY <1>4, OfNode, BoundAssumption
  <2> QED
    BY <1>1, <2>1, <2>2
<1>6. TypeOK'
  BY <1>1, <1>2, <1>3, <1>5
  DEF TypeOK, judgeVars, testcaseVars, slaveVars, StateSet, JudgeMessage, Packet,
      ConnectionMessage, Failure, EndJudge
<1>7. ASSUME NEW k \in Node PROVE Counted(k)' /\ Greeted(k)'
  <2>1. /\ Counted(k) /\ Greeted(k) /\ downs[k] \in Nat /\ answered[k] \in Nat
        /\ Count(conn_box, Delete(k)) \in Nat /\ Count(conn_box, Answer(k)) \in Nat
    BY OfNode
  <2>2. downs'[k] + Count(conn_box, Answer(k)) <= answered[k]
    BY <1>4, <1>5, <2>1 DEF Greeted
  <2>3. Count(conn_box, Delete(k))' + (IF k \in connections THEN 0 ELSE 1) <= downs'[k]
    <3>1. Count(conn_box, Delete(k)) + (IF k \in connections THEN 0 ELSE 1) <= downs[k]
      BY <2>1 DEF Counted
    <3> QED
      BY <1>3, <1>5, <2>1, <3>1
  <2> QED
    BY <1>1, <1>3, <2>2, <2>3 DEF Counted, Greeted
<1>8. Explained'
  <2>1. \A k \in Node : downs[k] > 0 => downs'[k] > 0
    BY <1>5, OfNode
  <2> QED
    BY <1>1, <1>2, <2>1 DEF Explained
<1>9. Lost'
  BY <1>1, <1>2, <1>3 DEF Lost
<1> QED
  BY <1>1, <1>3, <1>6, <1>7, <1>8, <1>9, NobodyTouched

(* It comes back.                                                          *)
LEMMA NodeBackJInv ==
  ASSUME JInv, NEW n \in Node, NodeBack(n)
  PROVE  JInv'
<1>1. /\ backs[n] < MaxBack /\ backs' = [backs EXCEPT ![n] = @ + 1]
      /\ ToConnection(NewStream(n))
      /\ UNCHANGED <<request, assigned, answered, downs, judgeVars, testcaseVars,
                     connections, conn_up, slaveVars, handed, told>>
  BY DEF NodeBack
<1>2. TypeOK /\ Explained /\ Lost /\ \A k \in Node : Counted(k) /\ Greeted(k)
  BY DEF JInv
<1>3. /\ conn_box' \in Seq(ConnectionMessage)
      /\ ~conn_up => conn_box' = conn_box
      /\ \A k \in Judge : OnWay(k)' = OnWay(k) /\ Out(k)' = Out(k)
      /\ \A k \in Node : /\ Count(conn_box, Delete(k))' = Count(conn_box, Delete(k))
                         /\ Count(conn_box, Answer(k))' = Count(conn_box, Answer(k))
  <2> DEFINE m == NewStream(n)
  <2>1. m \in ConnectionMessage /\ m.op = "NewStream"
    BY Others
  <2>2. ToConnection(m)
    BY <1>1
  <2> HIDE DEF m
  <2> QED
    BY <2>1, <2>2, OtherPosted
<1>4. backs' \in [Node -> 0 .. MaxBack]
  <2>1. backs \in [Node -> 0 .. MaxBack] /\ backs[n] + 1 \in 0 .. MaxBack
    BY <1>1, <1>2, BoundAssumption DEF TypeOK
  <2> QED
    BY <1>1, <2>1
<1>5. TypeOK'
  BY <1>1, <1>2, <1>3, <1>4
  DEF TypeOK, judgeVars, testcaseVars, slaveVars, StateSet, JudgeMessage, Packet,
      ConnectionMessage, Failure, EndJudge
<1>6. \A k \in Node : Counted(k)' /\ Greeted(k)'
  BY <1>1, <1>2, <1>3 DEF Counted, Greeted
<1>7. Explained'
  BY <1>1, <1>2 DEF Explained
<1>8. Lost'
  BY <1>1, <1>2, <1>3 DEF Lost
<1> QED
  BY <1>1, <1>3, <1>5, <1>6, <1>7, <1>8, NobodyTouched

\* The head of the mailbox is taken.
LEMMA TakesHead ==
  ASSUME JInv, NEW op, ConnectionTakes(op)
  PROVE  /\ conn_up /\ Head(conn_box).op = op /\ Head(conn_box) \in ConnectionMessage
         /\ Head(conn_box).node \in Node /\ conn_box' \in Seq(ConnectionMessage)
         /\ op # "Send" =>
              \A k \in Judge : OnWay(k)' = OnWay(k) /\ Out(k)' = Out(k)
         /\ op = "Send" =>
              /\ Head(conn_box).judge \in Judge /\ Head(conn_box).packet \in Packet
              /\ Head(conn_box) \in Out(Head(conn_box).judge)
              /\ \A k \in Judge :
                   IF k = Head(conn_box).judge
                   THEN /\ OnWay(k)' \in Nat /\ OnWay(k) = OnWay(k)' + 1
                        /\ OnWay(k)' = 0 => Out(k)' = {}
                   ELSE OnWay(k)' = OnWay(k) /\ Out(k)' = Out(k)
         /\ \A n \in Node :
              /\ Count(conn_box, Delete(n))' \in Nat /\ Count(conn_box, Answer(n))' \in Nat
              /\ Count(conn_box, Delete(n)) = Count(conn_box, Delete(n))' +
                   (IF op = "DeleteStream" /\ Head(conn_box).node = n THEN 1 ELSE 0)
              /\ Count(conn_box, Answer(n)) = Count(conn_box, Answer(n))' +
                   (IF op = "Answer" /\ Head(conn_box).node = n THEN 1 ELSE 0)
<1> DEFINE h == Head(conn_box)
<1>1. TypeOK /\ conn_up /\ conn_box # <<>> /\ h.op = op /\ conn_box' = Tail(conn_box)
  BY DEF JInv, ConnectionTakes
<1>2. /\ h \in ConnectionMessage /\ conn_box' \in Seq(ConnectionMessage)
      /\ \A j \in Judge :
           /\ h.op = "Send" /\ h.judge = j =>
                /\ OnWay(j)' \in Nat /\ OnWay(j) = OnWay(j)' + 1
                /\ Out(j)' \subseteq Out(j) /\ h \in Out(j)
                /\ OnWay(j)' = 0 => Out(j)' = {}
           /\ ~(h.op = "Send" /\ h.judge = j) =>
                OnWay(j)' = OnWay(j) /\ Out(j)' = Out(j)
      /\ \A x : /\ Count(conn_box, x)' \in Nat
               /\ Count(conn_box, x) = Count(conn_box, x)' + (IF h = x THEN 1 ELSE 0)
  BY <1>1, Handled
<1>3. /\ h.op = "Send" => h.judge \in Judge /\ h.packet \in Packet
      /\ \A n \in Node : /\ h = Delete(n) <=> h.op = "DeleteStream" /\ h.node = n
                         /\ h = Answer(n) <=> h.op = "Answer" /\ h.node = n
  BY <1>2, Others
<1>4. h.node \in Node
  BY <1>2, Others
<1> HIDE DEF h
<1>5. ASSUME NEW n \in Node
      PROVE  /\ Count(conn_box, Delete(n))' \in Nat /\ Count(conn_box, Answer(n))' \in Nat
             /\ Count(conn_box, Delete(n)) = Count(conn_box, Delete(n))' +
                  (IF op = "DeleteStream" /\ h.node = n THEN 1 ELSE 0)
             /\ Count(conn_box, Answer(n)) = Count(conn_box, Answer(n))' +
                  (IF op = "Answer" /\ h.node = n THEN 1 ELSE 0)
  BY <1>1, <1>2, <1>3, <1>4
<1> QED
  BY <1>1, <1>2, <1>3, <1>4, <1>5 DEF h

\* When a message that is no packet of a judgement is handled, the bounds on the
\* messages for each node stay.
LEMMA OtherHandled ==
  ASSUME JInv, TypeOK', NEW op \in {"Answer", "DeleteStream", "NewStream"},
         ConnectionTakes(op), UNCHANGED handed,
         \A k \in Node :
           \/ k \in connections => k \in connections'
           \/ op = "DeleteStream" /\ k = Head(conn_box).node
  PROVE  JInv'
<1>1. /\ conn_up
      /\ UNCHANGED <<conn_up, judgeVars, testcaseVars, slaveVars, envVars, handed, told>>
  BY DEF ConnectionTakes
<1>2. /\ \A k \in Judge : OnWay(k)' = OnWay(k) /\ Out(k)' = Out(k)
      /\ \A k \in Node :
           /\ Count(conn_box, Delete(k))' \in Nat /\ Count(conn_box, Answer(k))' \in Nat
           /\ Count(conn_box, Delete(k)) = Count(conn_box, Delete(k))' +
                (IF op = "DeleteStream" /\ Head(conn_box).node = k THEN 1 ELSE 0)
           /\ Count(conn_box, Answer(k)) = Count(conn_box, Answer(k))' +
                (IF op = "Answer" /\ Head(conn_box).node = k THEN 1 ELSE 0)
  BY TakesHead
<1>3. ASSUME NEW k \in Node PROVE Counted(k)' /\ Greeted(k)'
  <2>1. Counted(k) /\ Greeted(k) /\ downs[k] \in Nat /\ answered[k] \in Nat
    BY OfNode
  <2>2. downs[k] + Count(conn_box, Answer(k))' <= answered[k]
    BY <1>2, <2>1 DEF Greeted
  <2>3. Count(conn_box, Delete(k))' + (IF k \in connections' THEN 0 ELSE 1) <= downs[k]
    <3>1. Count(conn_box, Delete(k)) + (IF k \in connections THEN 0 ELSE 1) <= downs[k]
      BY <2>1 DEF Counted
    <3>2. CASE op = "DeleteStream" /\ k = Head(conn_box).node
      BY <1>2, <2>1, <3>1, <3>2
    <3>3. CASE k \in connections => k \in connections'
      BY <1>2, <2>1, <3>1, <3>3
    <3> QED
      BY <3>2, <3>3
  <2> QED
    BY <1>1, <2>2, <2>3 DEF Counted, Greeted, envVars
<1>4. Explained' /\ Lost'
  BY <1>1 DEF Explained, Lost
<1> QED
  BY <1>1, <1>2, <1>3, <1>4, NobodyTouched DEF envVars

(* A stream is added.                                                      *)
LEMMA HandleNewStreamJInv ==
  ASSUME JInv, HandleNewStream
  PROVE  JInv'
<1>1. /\ ConnectionTakes("NewStream") /\ connections' = connections \cup {Head(conn_box).node}
      /\ UNCHANGED <<conn_up, judgeVars, testcaseVars, slaveVars, envVars, told, handed>>
  BY DEF HandleNewStream, ConnectionTakes
<1>2. TypeOK /\ Head(conn_box).node \in Node /\ conn_box' \in Seq(ConnectionMessage)
  BY <1>1, TakesHead DEF JInv
<1>3. TypeOK'
  BY <1>1, <1>2
  DEF TypeOK, judgeVars, testcaseVars, slaveVars, envVars, StateSet, JudgeMessage, Packet,
      ConnectionMessage, Failure, EndJudge
<1> QED
  BY <1>1, <1>3, OtherHandled

(* The answer to a handshake is passed on.                                 *)
LEMMA HandleAnswerJInv ==
  ASSUME JInv, HandleAnswer
  PROVE  JInv'
<1>1. /\ ConnectionTakes("Answer")
      /\ UNCHANGED <<connections, conn_up, judgeVars, testcaseVars, slaveVars, envVars, told,
                     handed>>
  BY DEF HandleAnswer, ConnectionTakes
<1>2. TypeOK /\ conn_box' \in Seq(ConnectionMessage)
  BY <1>1, TakesHead DEF JInv
<1>3. TypeOK'
  BY <1>1, <1>2
  DEF TypeOK, judgeVars, testcaseVars, slaveVars, envVars, StateSet, JudgeMessage, Packet,
      ConnectionMessage, Failure, EndJudge
<1> QED
  BY <1>1, <1>3, OtherHandled

(* A stream is deleted: a message less, a node less.                       *)
LEMMA HandleDeleteJInv ==
  ASSUME JInv, HandleDelete
  PROVE  JInv'
<1>1. /\ ConnectionTakes("DeleteStream") /\ connections' = connections \ {Head(conn_box).node}
      /\ UNCHANGED <<conn_up, judgeVars, testcaseVars, slaveVars, envVars, told, handed>>
  BY DEF HandleDelete, ConnectionTakes
<1>2. TypeOK /\ conn_box' \in Seq(ConnectionMessage)
  BY <1>1, TakesHead DEF JInv
<1>3. TypeOK'
  BY <1>1, <1>2
  DEF TypeOK, judgeVars, testcaseVars, slaveVars, envVars, StateSet, JudgeMessage, Packet,
      ConnectionMessage, Failure, EndJudge
<1> QED
  BY <1>1, <1>3, OtherHandled

(* A packet is handed to the stream: it goes from the mailbox to the slave. *)
LEMMA HandleSendJInv ==
  ASSUME JInv, HandleSend
  PROVE  JInv'
<1>1. /\ ConnectionTakes("Send")
      /\ handed' = [handed EXCEPT ![Head(conn_box).judge] = Append(@, Head(conn_box).packet)]
      /\ UNCHANGED <<connections, conn_up, judgeVars, testcaseVars, slaveVars, envVars, told>>
  BY DEF HandleSend, ConnectionTakes
<1>2. Head(conn_box) \in ConnectionMessage /\ Head(conn_box).judge \in Judge
  BY <1>1, TakesHead
<1> PICK m \in ConnectionMessage : m = Head(conn_box)
  BY <1>2
<1> PICK j \in Judge : j = m.judge
  BY <1>2
<1>3. /\ conn_up /\ m.packet \in Packet /\ m \in Out(j)
      /\ conn_box' \in Seq(ConnectionMessage)
      /\ \A k \in Judge : k # j => OnWay(k)' = OnWay(k) /\ Out(k)' = Out(k)
      /\ OnWay(j)' \in Nat /\ OnWay(j) = OnWay(j)' + 1
      /\ OnWay(j)' = 0 => Out(j)' = {}
      /\ \A n \in Node : /\ Count(conn_box, Delete(n))' = Count(conn_box, Delete(n))
                         /\ Count(conn_box, Answer(n))' = Count(conn_box, Answer(n))
  <2>1. /\ conn_up /\ m.packet \in Packet /\ m \in Out(j)
        /\ conn_box' \in Seq(ConnectionMessage)
        /\ \A k \in Judge :
             IF k = j
             THEN /\ OnWay(k)' \in Nat /\ OnWay(k) = OnWay(k)' + 1
                  /\ OnWay(k)' = 0 => Out(k)' = {}
             ELSE OnWay(k)' = OnWay(k) /\ Out(k)' = Out(k)
    BY <1>1, TakesHead
  <2>2. \A n \in Node :
          /\ Count(conn_box, Delete(n))' \in Nat /\ Count(conn_box, Answer(n))' \in Nat
          /\ Count(conn_box, Delete(n)) = Count(conn_box, Delete(n))' +
               (IF "Send" = "DeleteStream" /\ Head(conn_box).node = n THEN 1 ELSE 0)
          /\ Count(conn_box, Answer(n)) = Count(conn_box, Answer(n))' +
               (IF "Send" = "Answer" /\ Head(conn_box).node = n THEN 1 ELSE 0)
    BY <1>1, TakesHead
  <2>3. \A n \in Node : /\ Count(conn_box, Delete(n))' = Count(conn_box, Delete(n))
                        /\ Count(conn_box, Answer(n))' = Count(conn_box, Answer(n))
    BY <2>2
  <2> QED
    BY <2>1, <2>3
<1>4. /\ TypeOK /\ IsFiniteSet(reports) /\ Turn(j) /\ Scripted(j) /\ Answered(j)
      /\ Ordered(j) /\ Cursor(j) /\ Phase(j) /\ Heard(j)
  BY Known
<1>5. PICK L \in Nat : L = Len(handed[j])
  BY <1>4, Numbers, Zenon
<1>6. /\ handed' \in [Judge -> Seq(Packet)] /\ Len(handed'[j]) = L + 1
      /\ DOMAIN handed'[j] = DOMAIN handed[j] \cup {L + 1} /\ handed'[j][L + 1] = m.packet
      /\ \A i \in DOMAIN handed[j] : handed'[j][i] = handed[j][i]
      /\ \A k \in Judge : k # j => handed'[k] = handed[k]
  <2>1. handed \in [Judge -> Seq(Packet)] /\ handed[j] \in Seq(Packet)
    BY <1>4 DEF TypeOK
  <2>2. Append(handed[j], m.packet) \in Seq(Packet)
    BY <1>3, <2>1
  <2>3. /\ handed' \in [Judge -> Seq(Packet)] /\ handed'[j] = Append(handed[j], m.packet)
        /\ \A k \in Judge : k # j => handed'[k] = handed[k]
    BY <1>1, <2>1, <2>2
  <2>4. /\ DOMAIN Append(handed[j], m.packet) = DOMAIN handed[j] \cup {Len(handed[j]) + 1}
        /\ Len(Append(handed[j], m.packet)) = Len(handed[j]) + 1
        /\ \A i \in DOMAIN handed[j] : Append(handed[j], m.packet)[i] = handed[j][i]
        /\ Append(handed[j], m.packet)[Len(handed[j]) + 1] = m.packet
    BY <1>3, <2>1, PositionsAppended
  <2> QED
    BY <1>5, <2>3, <2>4
<1>7. TypeOK' /\ IsFiniteSet(reports)'
  BY <1>1, <1>3, <1>4, <1>6
  DEF TypeOK, judgeVars, testcaseVars, slaveVars, envVars, StateSet, JudgeMessage, Packet,
      ConnectionMessage, Failure, EndJudge
<1>8. Still
  BY <1>1, <1>3 DEF Still, envVars
<1>9. \A k \in Judge : k # j => Aside(k)
  BY <1>1, <1>3, <1>6 DEF Aside, judgeVars, testcaseVars, slaveVars, envVars, Own
<1>10. /\ Passed(j)' = Passed(j) /\ Fails(j)' = Fails(j) /\ Ordered(j)'
       /\ Coming(j)' = Coming(j) /\ Own(j)' = Own(j) /\ Tests(j)' = Tests(j)
       /\ Updates(j)' = Updates(j)
  BY <1>1, <1>4, ToldKept
  DEF judgeVars, slaveVars, envVars, Coming, Own, Tests, Updates
<1>11. /\ OnWay(j) = 1 /\ OnWay(j)' = 0 /\ Unread(j) = 0 /\ Coming(j) = 0 /\ Updates(j) = 0
       /\ pops[j] = 0 /\ Fails(j) = 0 /\ read[j] = L /\ Out(j)' = {}
  <2>1. /\ OnWay(j) \in Nat /\ Coming(j) \in Nat /\ Updates(j) \in Nat
        /\ Unread(j) \in Nat /\ pops[j] \in Nat /\ Fails(j) \in Nat /\ read[j] \in Nat
    BY <1>4, Numbers, Known
  <2>2. Underway(j) <= 1 /\ (Fails(j) > 0 => OnWay(j) = 0)
    BY <1>4 DEF Turn
  <2>3. \A a, b, c, d, e, z \in Nat : a = z + 1 /\ a + b + c + d + e <= 1 =>
          a = 1 /\ z = 0 /\ b = 0 /\ c = 0 /\ d = 0 /\ e = 0
    OBVIOUS
  <2>4. /\ OnWay(j) = 1 /\ OnWay(j)' = 0 /\ Unread(j) = 0 /\ Coming(j) = 0
        /\ Updates(j) = 0 /\ pops[j] = 0
    BY <1>3, <2>1, <2>2, <2>3 DEF Underway
  <2>5. read[j] = L
    BY <1>5, <2>1, <2>4 DEF Unread
  <2> QED
    BY <1>3, <2>1, <2>2, <2>4, <2>5
<1>12. /\ Unread(j)' = 1 /\ Underway(j)' = 1 /\ Given(j)' = Given(j) /\ Given(j) = L + 1
       /\ read'[j] = read[j]
  <2>1. read'[j] = L /\ pops'[j] = 0
    BY <1>1, <1>11 DEF slaveVars, testcaseVars
  <2>2. Unread(j)' = 1
    BY <1>6, <2>1 DEF Unread
  <2>3. Underway(j)' = 0 + 1 + 0 + 0 + 0
    BY <1>10, <1>11, <2>1, <2>2 DEF Underway
  <2>4. Given(j)' = (L + 1) + 0 /\ Given(j) = L + 1
    BY <1>5, <1>6, <1>11 DEF Given, OnWay
  <2> QED
    BY <1>11, <2>1, <2>2, <2>3, <2>4
<1>13. Turn(j)'
  BY <1>1, <1>4, <1>6, <1>10, <1>11, <1>12 DEF Turn, judgeVars, testcaseVars
<1>14. Scripted(j)'
  <2>1. m.packet = PacketAt(j, L + 1)
    BY <1>3, <1>4, <1>5 DEF Scripted
  <2>2. \A i : PacketAt(j, i)' = PacketAt(j, i)
    BY <1>10 DEF PacketAt
  <2>3. \A i \in DOMAIN handed'[j] : handed'[j][i] = PacketAt(j, i)
    BY <1>4, <1>6, <2>1 DEF Scripted
  <2>4. Given(j)' <= Tests(j)' + 2
    BY <1>4, <1>10, <1>12 DEF Scripted
  <2> QED
    BY <1>11, <2>2, <2>3, <2>4 DEF Scripted
<1>15. Answered(j)'
  BY <1>4, <1>10, <1>12 DEF Answered
<1>16. Cursor(j)'
  BY <1>1, <1>3, <1>4, <1>10, <1>12 DEF Cursor, testcaseVars
<1>17. Phase(j)'
  <2>1. testcase[j] # "none"
    BY <1>4, <1>11 DEF Phase, Unstarted
  <2> QED
    BY <1>1, <1>4, <1>10, <1>12, <2>1
    DEF Phase, Started, Complete, judgeVars, testcaseVars, envVars
<1>18. Heard(j)'
  BY <1>1, <1>4, <1>10, <1>12 DEF Heard, Complete, Content, judgeVars, testcaseVars
<1> QED
  BY <1>7, <1>8, <1>9, <1>10, <1>13, <1>14, <1>15, <1>16, <1>17, <1>18, OneStep
  DEF JudgementInv

(* The connection service dies: what was on its way is lost.  It was for a *)
(* node that was deleted, from a judgement, from another handshake or by a *)
(* second DownNode, which followed another handshake.                      *)
LEMMA ConnectionPanicsJInv ==
  ASSUME JInv, ConnectionPanics
  PROVE  JInv'
<1>1. /\ conn_up /\ conn_box # <<>> /\ Head(conn_box).op \in {"Send", "Answer", "DeleteStream"}
      /\ Head(conn_box).node \notin connections /\ conn_up' = FALSE /\ conn_box' = <<>>
      /\ UNCHANGED <<connections, judgeVars, testcaseVars, slaveVars, envVars, handed, told>>
  BY DEF ConnectionPanics
<1>2. TypeOK /\ IsFiniteSet(reports)
  BY DEF JInv
<1>3. conn_box' \in Seq(ConnectionMessage) /\ DOMAIN conn_box' = {}
  <2>1. <<>> \in Seq(ConnectionMessage) /\ DOMAIN <<>> = {}
    OBVIOUS
  <2> QED
    BY <1>1, <2>1
<1>4. TypeOK' /\ IsFiniteSet(reports)'
  BY <1>1, <1>2, <1>3
  DEF TypeOK, judgeVars, testcaseVars, slaveVars, envVars, StateSet, JudgeMessage, Packet,
      ConnectionMessage, Failure, EndJudge
<1>5. \A k \in Judge : OnWay(k)' = 0 /\ Out(k)' = {}
  <2>1. \A k \in Judge : Sends(k)' = {} /\ Out(k)' = {}
    BY <1>3 DEF Sends, Out, Content
  <2> QED
    BY <2>1, FS_EmptySet DEF OnWay
<1>6. ASSUME NEW n \in Node PROVE Counted(n)' /\ Greeted(n)'
  <2>1. Count(conn_box, Delete(n))' = 0 /\ Count(conn_box, Answer(n))' = 0
    <3>1. At(conn_box, {Delete(n)})' = {} /\ At(conn_box, {Answer(n)})' = {}
      BY <1>3 DEF At
    <3> QED
      BY <3>1, FS_EmptySet DEF Count
  <2>2. /\ Count(conn_box, Delete(n)) \in Nat /\ Count(conn_box, Answer(n)) \in Nat
        /\ downs[n] \in Nat /\ answered[n] \in Nat
        /\ Count(conn_box, Delete(n)) + (IF n \in connections THEN 0 ELSE 1) <= downs[n]
        /\ downs[n] + Count(conn_box, Answer(n)) <= answered[n]
    BY OfNode DEF Counted, Greeted
  <2>3. /\ Count(conn_box, Delete(n))' + (IF n \in connections THEN 0 ELSE 1) <= downs[n]
        /\ downs[n] + Count(conn_box, Answer(n))' <= answered[n]
    BY <2>1, <2>2
  <2> QED
    BY <1>1, <2>3 DEF Counted, Greeted, envVars
<1>7. ASSUME NEW j \in Judge PROVE JudgementInv(j)'
  <2>1. /\ Turn(j) /\ Scripted(j) /\ Answered(j) /\ Ordered(j) /\ Cursor(j) /\ Phase(j)
        /\ Heard(j) /\ OnWay(j)' = 0 /\ Out(j)' = {}
    BY <1>5, Known
  <2>2. /\ Passed(j)' = Passed(j) /\ Fails(j)' = Fails(j) /\ Ordered(j)'
        /\ Coming(j)' = Coming(j) /\ Own(j)' = Own(j) /\ Tests(j)' = Tests(j)
        /\ Updates(j)' = Updates(j) /\ Unread(j)' = Unread(j)
    BY <1>1, <2>1, ToldKept
    DEF judgeVars, slaveVars, envVars, Coming, Own, Tests, Updates, Unread
  <2>3. /\ OnWay(j) \in Nat /\ Coming(j) \in Nat /\ Updates(j) \in Nat
        /\ Unread(j) \in Nat /\ pops[j] \in Nat /\ pops'[j] = pops[j]
        /\ Len(handed[j]) \in Nat /\ Given(j) = Len(handed[j]) + OnWay(j)
    BY <1>1, <1>2, Numbers, Known DEF testcaseVars
  <2>4. Given(j)' = Len(handed[j])
    <3>1. Given(j)' = Len(handed'[j]) + OnWay(j)'
      BY DEF Given, OnWay
    <3> QED
      BY <1>1, <2>1, <2>3, <3>1
  <2>5. /\ Underway(j) \in Nat /\ Underway(j)' \in Nat
        /\ Underway(j) = Underway(j)' + OnWay(j)
    <3>1. Underway(j)' = 0 + Unread(j) + Coming(j) + Updates(j) + pops[j]
      BY <2>1, <2>2, <2>3 DEF Underway
    <3> QED
      BY <2>3, <3>1 DEF Underway
  <2>6. Turn(j)'
    <3>1. Underway(j)' <= 1
      BY <2>1, <2>3, <2>5 DEF Turn
    <3> QED
      BY <1>1, <2>1, <2>2, <2>3, <3>1 DEF Turn, judgeVars, testcaseVars, slaveVars
  <2>7. Scripted(j)' /\ Answered(j)'
    <3>1. Given(j)' <= Tests(j)' + 2
      <4>1. Tests(j) \in Nat
        BY <1>2, RequestTypes
      <4> QED
        BY <2>1, <2>2, <2>3, <2>4, <4>1 DEF Scripted
    <3> QED
      BY <1>1, <2>1, <2>2, <3>1 DEF Scripted, Answered, PacketAt, slaveVars
  <2>8. Cursor(j)'
    <3>1. Given(j)' = Given(j) \/ Underway(j)' = 0
      <4>1. Underway(j) <= 1
        BY <2>1 DEF Turn
      <4>2. OnWay(j) = 0 \/ Underway(j)' = 0
        BY <2>3, <2>5, <4>1
      <4> QED
        BY <2>3, <2>4, <4>2
    <3>2. /\ cur'[j] = cur[j] /\ testcase'[j] = testcase[j] /\ cur[j] <= Tests(j)
          /\ testcase[j] = "running" => Given(j) = cur[j] + 1
      BY <1>1, <2>1 DEF Cursor, testcaseVars
    <3> QED
      BY <1>1, <2>2, <3>1, <3>2 DEF Cursor
  <2>9. Phase(j)'
    BY <1>1, <2>1, <2>2
    DEF Phase, Unstarted, Started, Complete, WellFormed, judgeVars, testcaseVars,
        slaveVars, envVars
  <2>10. Heard(j)'
    BY <1>1, <2>1, <2>2 DEF Heard, Complete, Content, judgeVars, testcaseVars
  <2> QED
    BY <2>2, <2>6, <2>7, <2>8, <2>9, <2>10 DEF JudgementInv
<1>8. Explained'
  <2>1. PICK m \in ConnectionMessage : m = Head(conn_box)
    BY <1>1, <1>2 DEF TypeOK
  <2>2. PICK n \in Node : n = m.node
    BY Others
  <2>3. /\ downs[n] \in Nat /\ answered[n] \in Nat /\ downs[n] >= 1
        /\ answered[n] >= downs[n]
        /\ m = Delete(n) => downs[n] > 1
        /\ m = Answer(n) => answered[n] > downs[n]
    <3>1. conn_box \in Seq(ConnectionMessage)
      BY <1>2 DEF TypeOK
    <3>2. \A x : /\ Count(Tail(conn_box), x) \in Nat
                /\ Count(conn_box, x) = Count(Tail(conn_box), x) + (IF m = x THEN 1 ELSE 0)
      BY <1>1, <2>1, <3>1, CountTaken
    <3>3. /\ Count(conn_box, Delete(n)) + 1 <= downs[n]
          /\ downs[n] + Count(conn_box, Answer(n)) <= answered[n]
          /\ downs[n] \in Nat /\ answered[n] \in Nat
          /\ Count(conn_box, Delete(n)) \in Nat /\ Count(conn_box, Answer(n)) \in Nat
      BY <1>1, <2>1, <2>2, OfNode DEF Counted, Greeted
    <3>4. /\ m = Delete(n) => Count(conn_box, Delete(n)) >= 1
          /\ m = Answer(n) => Count(conn_box, Answer(n)) >= 1
      BY <3>2
    <3> QED
      BY <3>3, <3>4
  <2>4. CASE m.op \in {"DeleteStream", "Answer"}
    <3>1. m = Delete(n) \/ m = Answer(n)
      BY <2>2, <2>4, Others
    <3>2. downs[n] > 0 /\ answered[n] > 1
      BY <2>3, <3>1
    <3> QED
      BY <1>1, <3>2 DEF Explained, envVars
  <2>5. CASE m.op = "Send"
    <3>1. m.judge \in Judge
      BY <2>5, Others
    <3>2. m \in Content(conn_box)
      BY <1>1, <1>2, <2>1, ContentTaken DEF TypeOK
    <3>3. PICK j \in Judge : j = m.judge
      BY <3>1
    <3>4. m \in Out(j)
      BY <2>5, <3>2, <3>3 DEF Out
    <3>5. assigned[j] = n
      BY <2>2, <3>4, Known DEF Scripted
    <3>6. downs[n] > 0
      BY <2>3
    <3> QED
      BY <1>1, <3>5, <3>6 DEF Explained, envVars
  <2> QED
    BY <1>1, <2>1, <2>4, <2>5
<1>9. Lost'
  BY <1>1 DEF Lost
<1> QED
  BY <1>4, <1>6, <1>7, <1>8, <1>9 DEF JInv
-----------------------------------------------------------------------------
(* The slave.                                                              *)

\* It answers the packet it reads with a verdict on it; nothing else is
\* under way.
LEMMA AnswerJInv ==
  ASSUME JInv, NEW j \in Judge, NEW v, NEW S,
         v \in VerdictsOn(read[j] + 1), v \in S, S \subseteq {State("DoCompile", NoTest), v},
         read[j] < Len(handed[j]), read[j] <= Tests(j),
         read' = [read EXCEPT ![j] = @ + 1], Reports(j, S),
         UNCHANGED <<judgeVars, testcaseVars, connVars, envVars, handed, told>>
  PROVE  JInv'
<1>1. /\ TypeOK /\ IsFiniteSet(reports) /\ Turn(j) /\ Scripted(j) /\ Answered(j)
      /\ Ordered(j) /\ Cursor(j) /\ Phase(j) /\ Heard(j) /\ Unread(j) \in Nat
  BY Known
<1>2. /\ OnWay(j) \in Nat /\ Coming(j) \in Nat /\ Updates(j) \in Nat
      /\ Passed(j) \in Nat /\ Fails(j) \in Nat /\ read[j] \in Nat /\ pops[j] \in Nat
      /\ Len(handed[j]) \in Nat /\ Tests(j) \in Nat
  BY <1>1, Numbers, RequestTypes
<1>3. /\ OnWay(j) = 0 /\ Coming(j) = 0 /\ Updates(j) = 0 /\ pops[j] = 0
      /\ Unread(j) = 1 /\ Fails(j) = 0
  <2>1. Unread(j) > 0
    BY <1>2 DEF Unread
  <2>2. Underway(j) <= 1 /\ (Fails(j) > 0 => Unread(j) = 0)
    BY <1>1 DEF Turn
  <2> QED
    BY <1>1, <1>2, <2>1, <2>2 DEF Underway
<1>4. testcase[j] # "none"
  <2>1. handed[j] = <<>> => Len(handed[j]) = 0
    OBVIOUS
  <2> QED
    BY <1>1, <1>2, <2>1 DEF Phase, Unstarted
<1>5. /\ read' \in [Judge -> Nat] /\ read'[j] = read[j] + 1
      /\ \A k \in Judge : k # j => read'[k] = read[k]
  BY <1>1, <1>2 DEF TypeOK
<1>6. /\ v \in StateSet /\ v.state \in Verdict /\ S \subseteq StateSet
      /\ State("DoCompile", NoTest).state \notin Verdict
  <2>1. v \in StateSet /\ v.state \in Verdict
    BY <1>2 DEF VerdictsOn, State, StateSet, Verdict, Passing, Failure, NoTest
  <2>2. /\ State("DoCompile", NoTest) \in StateSet
        /\ State("DoCompile", NoTest).state \notin Verdict
    BY DEF State, StateSet, Verdict, Passing, Failure, NoTest
  <2> QED
    BY <2>1, <2>2
<1>7. reports' = reports \cup {<<j, st>> : st \in S}
  BY DEF Reports
<1>8. IsFiniteSet(reports') /\ reports' \subseteq Judge \X StateSet
  <2>1. IsFiniteSet({State("DoCompile", NoTest), v})
    <3>1. IsFiniteSet({State("DoCompile", NoTest)} \cup {v})
      BY FS_Singleton, FS_Union
    <3> QED
      BY <3>1
  <2>2. IsFiniteSet(S)
    BY <2>1, FS_Subset
  <2>3. IsFiniteSet({<<j, st>> : st \in S})
    <3> DEFINE f == [st \in S |-> <<j, st>>]
    <3>1. f \in Surjection(S, {<<j, st>> : st \in S})
      BY DEF Surjection
    <3> QED
      BY <2>2, <3>1, FS_Surjection
  <2>4. IsFiniteSet(reports')
    BY <1>1, <1>7, <2>3, FS_Union
  <2> QED
    BY <1>1, <1>6, <1>7, <2>4 DEF TypeOK
<1>9. /\ Own(j)' = Own(j) \cup {<<j, st>> : st \in S}
      /\ \A k \in Judge : k # j => Own(k)' = Own(k)
  BY <1>7 DEF Own
<1>10. /\ \A r \in Own(j)' : r[2].state \in Verdict => r = <<j, v>>
       /\ Coming(j)' = 1
  <2>1. \A r \in Own(j) : r[2].state \notin Verdict
    <3>1. {r \in Own(j) : r[2].state \in Verdict} \subseteq reports
      BY DEF Own
    <3>2. IsFiniteSet({r \in Own(j) : r[2].state \in Verdict})
      BY <1>1, <3>1, FS_Subset
    <3>3. {r \in Own(j) : r[2].state \in Verdict} = {}
      BY <1>3, <3>2, FS_EmptySet DEF Coming
    <3> QED
      BY <3>3
  <2>2. \A r \in Own(j)' : r[2].state \in Verdict => r = <<j, v>>
    BY <1>6, <1>9, <2>1
  <2>3. <<j, v>> \in Own(j)' /\ <<j, v>>[2].state \in Verdict
    BY <1>6, <1>9
  <2>4. {r \in Own(j)' : r[2].state \in Verdict} = {<<j, v>>}
    BY <2>2, <2>3
  <2>5. Coming(j)' = Cardinality({r \in Own(j)' : r[2].state \in Verdict})
    BY DEF Coming, Own, Verdict, Passing, Failure
  <2> QED
    BY <2>2, <2>4, <2>5, FS_Singleton
<1>11. TypeOK'
  BY <1>1, <1>5, <1>8
  DEF TypeOK, judgeVars, testcaseVars, connVars, envVars, StateSet, JudgeMessage,
      Packet, ConnectionMessage, Failure, EndJudge
<1>12. /\ Still
       /\ \A k \in Judge : OnWay(k)' = OnWay(k) /\ Out(k)' = Out(k)
  BY NothingSent DEF connVars, envVars
<1>13. \A k \in Judge : k # j => Aside(k)
  BY <1>5, <1>9, <1>12 DEF Aside, judgeVars, testcaseVars, connVars, envVars
<1>14. /\ Passed(j)' = Passed(j) /\ Fails(j)' = Fails(j) /\ Ordered(j)'
       /\ Updates(j)' = Updates(j) /\ Given(j)' = Given(j) /\ Tests(j)' = Tests(j)
       /\ OnWay(j)' = OnWay(j) /\ Out(j)' = Out(j)
  BY <1>1, <1>12, ToldKept DEF judgeVars, connVars, envVars, Updates, Given, OnWay, Tests
<1>15. Unread(j)' = 0
  <2>1. Unread(j)' = Len(handed[j]) - (read[j] + 1)
    BY <1>5 DEF Unread
  <2> QED
    BY <1>2, <1>3, <2>1 DEF Unread
<1>16. Underway(j)' = 1 /\ Underway(j) = 1
  <2>1. pops'[j] = 0
    BY <1>3 DEF testcaseVars
  <2>2. Underway(j)' = 0 + 0 + 1 + 0 + 0
    BY <1>3, <1>10, <1>14, <1>15, <2>1 DEF Underway
  <2>3. Underway(j) = 0 + 1 + 0 + 0 + 0
    BY <1>3 DEF Underway
  <2> QED
    BY <2>2, <2>3
<1>17. Turn(j)'
  <2>1. read'[j] <= Len(handed'[j]) /\ read'[j] <= Tests(j)' + 1
    BY <1>2, <1>5, <1>14
  <2>2. read'[j] = Passed(j)' + Fails(j)' + Coming(j)'
    <3>1. read[j] = Passed(j) + Fails(j) + Coming(j)
      BY <1>1 DEF Turn
    <3> QED
      BY <1>2, <1>3, <1>5, <1>10, <1>14, <3>1
  <2>3. Fails(j)' = 0 /\ pops'[j] = 0
    BY <1>3, <1>14 DEF testcaseVars
  <2> QED
    BY <1>16, <2>1, <2>2, <2>3 DEF Turn
<1>18. Scripted(j)'
  BY <1>1, <1>14 DEF Scripted, PacketAt, envVars
<1>19. Answered(j)'
  <2>1. v \in VerdictsOn(read'[j])
    BY <1>5
  <2>2. \A i : VerdictsOn(i)' = VerdictsOn(i)
    BY DEF VerdictsOn, State
  <2>3. \A r \in Own(j)' : r[2].state \in Verdict => r[2] \in VerdictsOn(read'[j])
    BY <1>10, <2>1
  <2> QED
    BY <2>3 DEF Answered
<1>20. Cursor(j)'
  BY <1>1, <1>14, <1>16 DEF Cursor, connVars, testcaseVars
<1>21. Phase(j)'
  BY <1>1, <1>4, <1>14
  DEF Phase, Started, Complete, WellFormed, judgeVars, testcaseVars, envVars, connVars
<1>22. Heard(j)'
  BY <1>1, <1>14 DEF Heard, Complete, Content, judgeVars, testcaseVars, connVars
<1> QED
  BY <1>8, <1>11, <1>12, <1>13, <1>14, <1>17, <1>18, <1>19, <1>20, <1>21, <1>22, OneStep
  DEF JudgementInv

\* What the packet is that a slave reads.
LEMMA PacketRead ==
  ASSUME JInv, NEW j \in Judge, NEW cmd, cmd # "TestCaseEnd", Reads(j, cmd)
  PROVE  /\ read[j] < Len(handed[j]) /\ read[j] \in Nat /\ read[j] <= Tests(j)
         /\ read' = [read EXCEPT ![j] = @ + 1]
         /\ UNCHANGED <<judgeVars, testcaseVars, connVars, envVars, handed, told>>
         /\ cmd = "GetJudge" => read[j] = 0
         /\ cmd = "TestCaseUpdate" => read[j] > 0 /\ handed[j][read[j] + 1].test = read[j]
<1>1. /\ read[j] < Len(handed[j]) /\ handed[j][read[j] + 1].cmd = cmd
      /\ read' = [read EXCEPT ![j] = @ + 1]
      /\ UNCHANGED <<judgeVars, testcaseVars, connVars, envVars, handed, told>>
  BY DEF Reads
<1>2. /\ TypeOK /\ IsFiniteSet(reports) /\ Scripted(j)
  BY Known
<1>3. /\ read[j] \in Nat /\ Len(handed[j]) \in Nat /\ OnWay(j) \in Nat /\ Tests(j) \in Nat
      /\ Given(j) = Len(handed[j]) + OnWay(j)
  BY <1>2, Numbers, RequestTypes
<1>4. Len(handed[j]) <= Tests(j) + 2
  BY <1>2, <1>3 DEF Scripted
<1>5. PICK i \in Nat : i = read[j] + 1
  BY <1>3
<1>6. handed[j][i] = PacketAt(j, i) /\ handed[j][i].cmd = cmd
  <2>1. handed[j] \in Seq(Packet)
    BY <1>2 DEF TypeOK
  <2>2. i \in 1 .. Len(handed[j])
    BY <1>1, <1>3, <1>5
  <2>3. i \in DOMAIN handed[j]
    BY <2>1, <2>2
  <2>4. handed[j][i].cmd = cmd
    BY <1>1, <1>5
  <2> QED
    BY <1>2, <2>3, <2>4 DEF Scripted
<1>7. /\ i # Tests(j) + 2
      /\ cmd = "GetJudge" => i = 1
      /\ cmd = "TestCaseUpdate" => i # 1 /\ handed[j][i].test = i - 1
  BY <1>3, <1>5, <1>6 DEF PacketAt, GetJudge, TestCase, TestCaseEnd
<1>8. read[j] <= Tests(j)
  BY <1>1, <1>3, <1>4, <1>5, <1>7
<1>9. i - 1 = read[j]
  BY <1>3, <1>5
<1> QED
  BY <1>1, <1>3, <1>5, <1>7, <1>8, <1>9

LEMMA CompileJInv ==
  ASSUME JInv, NEW j \in Judge, Compile(j)
  PROVE  JInv'
<1>1. PICK result \in {"CompleteCompile", "CompileError"} :
        Reports(j, {State("DoCompile", NoTest), State(result, NoTest)})
  BY DEF Compile
<1>2. /\ read[j] < Len(handed[j]) /\ read[j] <= Tests(j) /\ read[j] = 0
      /\ read' = [read EXCEPT ![j] = @ + 1]
      /\ UNCHANGED <<judgeVars, testcaseVars, connVars, envVars, handed, told>>
  <2>1. Reads(j, "GetJudge") /\ "GetJudge" # "TestCaseEnd"
    BY DEF Compile
  <2> QED
    BY <2>1, PacketRead
<1>3. State(result, NoTest) \in VerdictsOn(read[j] + 1)
  BY <1>2 DEF VerdictsOn
<1> QED
  BY <1>1, <1>2, <1>3, AnswerJInv

LEMMA RunTestJInv ==
  ASSUME JInv, NEW j \in Judge, RunTest(j)
  PROVE  JInv'
<1> DEFINE t == handed[j][read[j] + 1].test
<1>1. PICK result \in {State("Result", t), State("GeneralError", NoTest)} :
        Reports(j, {result})
  BY DEF RunTest
<1>2. /\ read[j] < Len(handed[j]) /\ read[j] \in Nat /\ read[j] <= Tests(j)
      /\ read[j] > 0 /\ t = read[j]
      /\ read' = [read EXCEPT ![j] = @ + 1]
      /\ UNCHANGED <<judgeVars, testcaseVars, connVars, envVars, handed, told>>
  <2>1. Reads(j, "TestCaseUpdate") /\ "TestCaseUpdate" # "TestCaseEnd"
    BY DEF RunTest
  <2> QED
    BY <2>1, PacketRead
<1>3. result \in VerdictsOn(read[j] + 1)
  <2>1. read[j] + 1 # 1 /\ (read[j] + 1) - 1 = t
    BY <1>2
  <2> QED
    BY <1>1, <2>1 DEF VerdictsOn
<1> QED
  BY <1>1, <1>2, <1>3, AnswerJInv

-----------------------------------------------------------------------------
(* HandlerService.                                                         *)

\* The client is told of a state.  A verdict is the next one, and the first
\* after no failure.
LEMMA Telling ==
  ASSUME TypeOK, NEW j \in Judge, NEW st \in StateSet, Ordered(j),
         told' = [told EXCEPT ![j] = Append(@, st)],
         st.state \in Verdict => Fails(j) = 0,
         st.state \in Passing =>
           st = IF Passed(j) = 0 THEN State("CompleteCompile", NoTest)
                                 ELSE State("Result", Passed(j))
  PROVE  /\ told' \in [Judge -> Seq(StateSet)]
         /\ \A k \in Judge : k # j => told'[k] = told[k]
         /\ Passed(j)' = Passed(j) + (IF st.state \in Passing THEN 1 ELSE 0)
         /\ Fails(j)' = Fails(j) + (IF st.state \in Failure THEN 1 ELSE 0)
         /\ Ordered(j)'
<1> DEFINE Of(X) == {x \in StateSet : x.state \in X}
           t     == told[j]
           new   == Len(t) + 1
<1>1. t \in Seq(StateSet) /\ Append(t, st) \in Seq(StateSet)
  BY DEF TypeOK
<1>2. /\ told' \in [Judge -> Seq(StateSet)] /\ told'[j] = Append(t, st)
      /\ \A k \in Judge : k # j => told'[k] = told[k]
  BY <1>1 DEF TypeOK
<1>3. /\ DOMAIN t \subseteq 1 .. Len(t) /\ Len(t) \in Nat
      /\ \A i \in DOMAIN t : told'[j][i] = t[i] /\ i < new
      /\ told'[j][new] = st
  BY <1>1, <1>2, PositionsAppended
<1>4. ASSUME NEW X
      PROVE  /\ ToldAt(j, X) = At(t, Of(X)) /\ ToldAt(j, X)' = At(told'[j], Of(X))
  <2>1. ToldAt(j, X) = At(t, Of(X))
    BY Kinds
  <2>2. \A i \in DOMAIN told'[j] : told'[j][i] \in StateSet
    BY <1>1, <1>2
  <2>3. ToldAt(j, X)' = {i \in DOMAIN told'[j] : told'[j][i].state \in X}
    BY DEF ToldAt
  <2> QED
    BY <2>1, <2>2, <2>3 DEF At
<1>5. ASSUME NEW X
      PROVE  /\ ToldAt(j, X) \subseteq DOMAIN t
             /\ ToldAt(j, X)' = ToldAt(j, X) \cup (IF st.state \in X THEN {new} ELSE {})
             /\ Cardinality(ToldAt(j, X)') =
                  Cardinality(ToldAt(j, X)) + (IF st.state \in X THEN 1 ELSE 0)
  <2>1. st \in Of(X) <=> st.state \in X
    OBVIOUS
  <2>2. /\ At(Append(t, st), Of(X)) = At(t, Of(X)) \cup (IF st \in Of(X) THEN {new} ELSE {})
        /\ Cardinality(At(Append(t, st), Of(X))) =
             Cardinality(At(t, Of(X))) + (IF st \in Of(X) THEN 1 ELSE 0)
    BY <1>1, AtAppended
  <2>3. ToldAt(j, X) \subseteq DOMAIN t
    BY DEF ToldAt
  <2> HIDE DEF Of, t, new
  <2> QED
    BY <1>2, <1>4, <2>1, <2>2, <2>3
<1> HIDE DEF Of, new
<1>6. /\ Passed(j)' = Passed(j) + (IF st.state \in Passing THEN 1 ELSE 0)
      /\ Fails(j)' = Fails(j) + (IF st.state \in Failure THEN 1 ELSE 0)
  <2>1. Passed(j)' = Cardinality(ToldAt(j, Passing)')
    BY DEF Passed
  <2>2. Fails(j)' = Cardinality(ToldAt(j, Failure)')
    BY DEF Fails
  <2> QED
    BY <1>5, <2>1, <2>2 DEF Passed, Fails
<1>7. ASSUME NEW i \in ToldAt(j, Passing)'
      PROVE  told'[j][i] = IF Before(j, i)' = 0 THEN State("CompleteCompile", NoTest)
                                                ELSE State("Result", Before(j, i)')
  <2>1. Before(j, i)' = Cardinality({k \in ToldAt(j, Passing)' : k < i})
    BY DEF Before, ToldAt
  <2>2. CASE i \in ToldAt(j, Passing)
    <3>1. {k \in ToldAt(j, Passing)' : k < i} = {k \in ToldAt(j, Passing) : k < i}
      <4>1. i < new /\ i \in Nat /\ new \in Nat
        BY <1>3, <1>5, <2>2 DEF new
      <4>2. ~(new < i)
        BY <4>1
      <4> QED
        BY <1>5, <4>2
    <3>2. Before(j, i)' = Before(j, i) /\ told'[j][i] = told[j][i]
      BY <1>3, <1>5, <2>1, <2>2, <3>1 DEF Before
    <3> QED
      BY <2>2, <3>2 DEF Ordered
  <2>3. CASE i \notin ToldAt(j, Passing)
    <3>1. i = new /\ st.state \in Passing
      BY <1>5, <2>3
    <3>2. {k \in ToldAt(j, Passing)' : k < i} = ToldAt(j, Passing)
      <4>1. ~(new < new)
        BY <1>3 DEF new
      <4>2. \A k \in ToldAt(j, Passing) : k < new
        BY <1>3, <1>5
      <4> QED
        BY <1>5, <3>1, <4>1, <4>2
    <3>3. Before(j, i)' = Passed(j)
      BY <2>1, <3>2 DEF Passed
    <3> QED
      BY <1>3, <3>1, <3>3
  <2> QED
    BY <2>2, <2>3
<1>8. ASSUME NEW i \in ToldAt(j, Failure)', NEW k \in ToldAt(j, Verdict)'
      PROVE  k <= i
  <2>1. CASE st.state \in Verdict
    <3>1. Fails(j) = 0
      BY <2>1
    <3>2. ToldAt(j, Failure) = {}
      <4>1. ToldAt(j, Failure) \subseteq 1 .. Len(t)
        BY <1>3, <1>5
      <4>2. IsFiniteSet(ToldAt(j, Failure))
        BY <1>3, <4>1, Positions
      <4> QED
        BY <3>1, <4>2, FS_EmptySet DEF Fails
    <3>3. i = new
      BY <1>5, <3>2
    <3>4. k = new \/ k \in 1 .. Len(t)
      BY <1>3, <1>5
    <3> QED
      BY <1>3, <3>3, <3>4 DEF new
  <2>2. CASE st.state \notin Verdict
    <3>1. st.state \notin Failure
      BY <2>2, Kinds
    <3>2. i \in ToldAt(j, Failure) /\ k \in ToldAt(j, Verdict)
      BY <1>5, <2>2, <3>1
    <3> QED
      BY <3>2 DEF Ordered
  <2> QED
    BY <2>1, <2>2
<1>9. Ordered(j)'
  BY <1>7, <1>8 DEF Ordered
<1> QED
  BY <1>2, <1>6, <1>9

\* A report is handled: a verdict was the only thing under way, and is the
\* next one.
LEMMA Reported ==
  ASSUME JInv, NEW j \in Judge, NEW r \in reports, NEW st \in StateSet,
         r[1] = j, st = r[2], reports' = reports \ {r},
         told' = [told EXCEPT ![j] = Append(@, st)]
  PROVE  /\ testcase[j] # "none" /\ judge[j] \in {"judging", "stopped"}
         /\ assigned[j] # NoNode
         /\ Coming(j)' = Coming(j) - (IF st.state \in Verdict THEN 1 ELSE 0)
         /\ st.state \in Verdict =>
              /\ Coming(j) = 1 /\ OnWay(j) = 0 /\ Unread(j) = 0 /\ Updates(j) = 0
              /\ pops[j] = 0 /\ Fails(j) = 0 /\ read[j] = Passed(j) + 1
              /\ read[j] <= Tests(j) + 1 /\ judge[j] = "judging"
         /\ told' \in [Judge -> Seq(StateSet)]
         /\ \A k \in Judge : k # j => told'[k] = told[k]
         /\ Passed(j)' = Passed(j) + (IF st.state \in Passing THEN 1 ELSE 0)
         /\ Fails(j)' = Fails(j) + (IF st.state \in Failure THEN 1 ELSE 0)
         /\ Ordered(j)'
<1>1. r[1] = j /\ st = r[2] /\ reports' = reports \ {r}
  OBVIOUS
<1>2. /\ TypeOK /\ IsFiniteSet(reports) /\ Turn(j) /\ Scripted(j) /\ Answered(j)
      /\ Ordered(j) /\ Cursor(j) /\ Phase(j) /\ Heard(j) /\ Unread(j) \in Nat
  BY Known
<1>3. /\ Passing \subseteq Verdict /\ Failure \subseteq Verdict
      /\ Passing \cap Failure = {}
      /\ st.state \in Verdict <=> st.state \in Passing \/ st.state \in Failure
  BY <1>2, Kinds DEF Verdict
<1>4. /\ OnWay(j) \in Nat /\ Coming(j) \in Nat /\ Updates(j) \in Nat
      /\ Passed(j) \in Nat /\ Fails(j) \in Nat /\ read[j] \in Nat /\ pops[j] \in Nat
      /\ Len(handed[j]) \in Nat /\ Tests(j) \in Nat
  BY <1>2, Numbers, RequestTypes
<1>5. r \in Own(j)
  BY <1>1 DEF Own
<1>6. testcase[j] # "none" /\ judge[j] \in {"judging", "stopped"} /\ assigned[j] # NoNode
  BY <1>2, <1>5 DEF Phase, Unstarted, Started
<1>7. Own(j)' = Own(j) \ {r}
  BY <1>1 DEF Own
<1>8. /\ Coming(j)' = Coming(j) - (IF st.state \in Verdict THEN 1 ELSE 0)
      /\ st.state \in Verdict => Coming(j) > 0
  <2> DEFINE V == {x \in Own(j) : x[2].state \in Verdict}
             W == {x \in Own(j)' : x[2].state \in Verdict}
  <2>1. IsFiniteSet(V)
    <3>1. V \subseteq reports
      BY DEF Own
    <3> QED
      BY <1>2, <3>1, FS_Subset
  <2>2. Coming(j) = Cardinality(V)
    BY DEF Coming
  <2>3. Coming(j)' = Cardinality(W)
    BY DEF Coming, Own, Verdict, Passing, Failure
  <2>4. W = V \ {r} /\ (r \in V <=> st.state \in Verdict)
    BY <1>1, <1>5, <1>7
  <2> HIDE DEF V, W
  <2>5. V = {} => st.state \notin Verdict
    BY <2>4
  <2>6. Cardinality(V) = 0 => V = {}
    BY <2>1, FS_EmptySet
  <2>7. Cardinality(V \ {r}) = IF r \in V THEN Cardinality(V) - 1 ELSE Cardinality(V)
    BY <2>1, FS_RemoveElement
  <2> QED
    BY <1>4, <2>2, <2>3, <2>4, <2>5, <2>6, <2>7
<1>9. ASSUME st.state \in Verdict
       PROVE  /\ Coming(j) = 1 /\ OnWay(j) = 0 /\ Unread(j) = 0 /\ Updates(j) = 0
              /\ pops[j] = 0 /\ Fails(j) = 0 /\ read[j] = Passed(j) + 1
              /\ st \in VerdictsOn(read[j])
              /\ read[j] <= Tests(j) + 1 /\ judge[j] = "judging"
  <2>1. /\ Underway(j) <= 1 /\ read[j] = Passed(j) + Fails(j) + Coming(j)
        /\ Fails(j) > 0 => Coming(j) = 0
        /\ read[j] <= Tests(j) + 1
    BY <1>2 DEF Turn
  <2>2. /\ Coming(j) = 1 /\ OnWay(j) = 0 /\ Unread(j) = 0 /\ Updates(j) = 0 /\ pops[j] = 0
    <3>1. OnWay(j) + Unread(j) + Coming(j) + Updates(j) + pops[j] <= 1
      BY <2>1 DEF Underway
    <3>2. Coming(j) > 0
      BY <1>8, <1>9
    <3>3. Unread(j) \in Nat
      BY <1>2
    <3> QED
      BY <1>4, <3>1, <3>2, <3>3
  <2>3. Fails(j) = 0
    BY <1>4, <2>1, <2>2
  <2>4. read[j] = Passed(j) + 1 /\ Passed(j) # Tests(j) + 1
    BY <1>4, <2>1, <2>2, <2>3
  <2>5. st \in VerdictsOn(read[j])
    BY <1>2, <1>1, <1>5, <1>9 DEF Answered
  <2>6. judge[j] = "judging"
    BY <1>2, <1>6, <2>3, <2>4 DEF Phase, Complete
  <2> QED
    BY <2>1, <2>2, <2>3, <2>4, <2>5, <2>6
<1>10. /\ told' \in [Judge -> Seq(StateSet)]
       /\ \A k \in Judge : k # j => told'[k] = told[k]
       /\ Passed(j)' = Passed(j) + (IF st.state \in Passing THEN 1 ELSE 0)
       /\ Fails(j)' = Fails(j) + (IF st.state \in Failure THEN 1 ELSE 0)
       /\ Ordered(j)'
  <2>1. st.state \in Passing =>
          st = IF Passed(j) = 0 THEN State("CompleteCompile", NoTest)
                                ELSE State("Result", Passed(j))
    <3>1. SUFFICES ASSUME st.state \in Passing
                   PROVE  st = IF Passed(j) = 0 THEN State("CompleteCompile", NoTest)
                                                ELSE State("Result", Passed(j))
      OBVIOUS
    <3>2. PICK i \in Nat : i = Passed(j) + 1 /\ st \in VerdictsOn(i)
      BY <1>3, <1>4, <1>9, <3>1
    <3>3. i - 1 = Passed(j)
      BY <1>4, <3>2
    <3>4. i = 1 <=> Passed(j) = 0
      BY <1>4, <3>2
    <3>5. st.state \notin {"CompileError", "GeneralError"}
      BY <3>1 DEF Passing
    <3> QED
      BY <3>2, <3>3, <3>4, <3>5 DEF VerdictsOn, State
  <2>2. st.state \in Verdict => Fails(j) = 0
    BY <1>9
  <2>3. told' = [told EXCEPT ![j] = Append(@, st)]
    OBVIOUS
  <2> QED
    BY <1>2, <2>1, <2>2, <2>3, Telling
<1> QED
  BY <1>6, <1>8, <1>9, <1>10

LEMMA ReportJInv ==
  ASSUME JInv, NEW j \in Judge, Report(j)
  PROVE  JInv'
<1>1. PICK r \in reports :
        /\ r[1] = j /\ reports' = reports \ {r}
        /\ told' = [told EXCEPT ![j] = Append(@, r[2])]
        /\ JudgeGets(j, Update(r[2]))
        /\ UNCHANGED <<judge, read, testcaseVars, connVars, envVars, handed>>
  BY DEF Report
<1>2. /\ TypeOK /\ IsFiniteSet(reports) /\ Turn(j) /\ Scripted(j) /\ Answered(j)
      /\ Ordered(j) /\ Cursor(j) /\ Phase(j) /\ Heard(j) /\ Unread(j) \in Nat
  BY Known
<1>3. PICK st \in StateSet : st = r[2]
  BY <1>2 DEF TypeOK
<1>4. /\ Passing \subseteq Verdict /\ Failure \subseteq Verdict
      /\ Passing \cap Failure = {}
      /\ st.state \in Verdict <=> st.state \in Passing \/ st.state \in Failure
  BY <1>2, Kinds DEF Verdict
<1>5. /\ OnWay(j) \in Nat /\ Coming(j) \in Nat /\ Updates(j) \in Nat
      /\ Passed(j) \in Nat /\ Fails(j) \in Nat /\ read[j] \in Nat /\ pops[j] \in Nat
      /\ Len(handed[j]) \in Nat /\ Tests(j) \in Nat
  BY <1>2, Numbers, RequestTypes
<1>6. /\ Own(j)' = Own(j) \ {r}
      /\ \A k \in Judge : k # j => Own(k)' = Own(k)
      /\ IsFiniteSet(reports)' /\ reports' \subseteq Judge \X StateSet
  <2>1. IsFiniteSet(reports')
    BY <1>1, <1>2, FS_Subset
  <2> QED
    BY <1>1, <1>2, <2>1 DEF Own, TypeOK
<1>7. /\ testcase[j] # "none" /\ judge[j] \in {"judging", "stopped"}
      /\ assigned[j] # NoNode
      /\ Coming(j)' = Coming(j) - (IF st.state \in Verdict THEN 1 ELSE 0)
      /\ st.state \in Verdict =>
           /\ Coming(j) = 1 /\ OnWay(j) = 0 /\ Unread(j) = 0 /\ Updates(j) = 0
           /\ pops[j] = 0 /\ Fails(j) = 0 /\ read[j] = Passed(j) + 1
           /\ read[j] <= Tests(j) + 1 /\ judge[j] = "judging"
      /\ told' \in [Judge -> Seq(StateSet)]
      /\ \A k \in Judge : k # j => told'[k] = told[k]
      /\ Passed(j)' = Passed(j) + (IF st.state \in Passing THEN 1 ELSE 0)
      /\ Fails(j)' = Fails(j) + (IF st.state \in Failure THEN 1 ELSE 0)
      /\ Ordered(j)'
  <2>1. told' = [told EXCEPT ![j] = Append(@, st)]
    BY <1>1, <1>3
  <2> QED
    BY <1>1, <1>3, <2>1, Reported
<1>8. ASSUME st.state \in Verdict
       PROVE  /\ Coming(j) = 1 /\ OnWay(j) = 0 /\ Unread(j) = 0 /\ Updates(j) = 0
              /\ pops[j] = 0 /\ Fails(j) = 0 /\ judge[j] = "judging"
              /\ Passed(j) # Tests(j) + 1
  BY <1>5, <1>7, <1>8
<1>9. /\ Update(st) \in JudgeMessage /\ Update(st).msg = "JudgeStateUpdate"
       /\ Update(st).of = st /\ (Update(st) \in VerdictUpdate <=> st.state \in Verdict)
  BY JudgeMessages
<1>10. /\ judge_box' \in [Judge -> Seq(JudgeMessage)]
       /\ \A k \in Judge : k # j => judge_box'[k] = judge_box[k]
       /\ Content(judge_box'[j]) \subseteq Content(judge_box[j]) \cup {Update(st)}
       /\ Updates(j)' = Updates(j) + (IF st.state \in Verdict THEN 1 ELSE 0)
  <2>1. JudgeGets(j, Update(st))
    BY <1>1, <1>3
  <2>2. st.state \in Verdict => Alive(j)
    BY <1>8 DEF Alive
  <2>3. CASE Alive(j)
    BY <1>2, <1>9, <2>1, <2>3, Gets
  <2>4. CASE ~Alive(j)
    <3>1. Content(judge_box'[j]) = Content(judge_box[j])
      BY <1>2, <1>9, <2>1, <2>4, Gets
    <3>2. Updates(j)' = Updates(j) + (IF st.state \in Verdict THEN 1 ELSE 0)
      BY <1>2, <1>5, <1>9, <2>1, <2>2, <2>4, Gets
    <3> QED
      BY <1>2, <1>9, <2>1, <2>4, <3>1, <3>2, Gets
  <2> QED
    BY <2>3, <2>4
<1>11. TypeOK'
  BY <1>1, <1>2, <1>6, <1>7, <1>10
  DEF TypeOK, testcaseVars, connVars, envVars, StateSet, JudgeMessage,
      Packet, ConnectionMessage, Failure, EndJudge
<1>12. /\ Still
       /\ \A k \in Judge : OnWay(k)' = OnWay(k) /\ Out(k)' = Out(k)
  BY <1>1, NothingSent DEF connVars, envVars
<1>13. \A k \in Judge : k # j => Aside(k)
  BY <1>1, <1>6, <1>7, <1>10, <1>12 DEF Aside, testcaseVars, connVars, envVars
<1>14. /\ Given(j)' = Given(j) /\ Tests(j)' = Tests(j) /\ Unread(j)' = Unread(j)
       /\ OnWay(j)' = OnWay(j) /\ Out(j)' = Out(j)
  BY <1>1, <1>12 DEF connVars, envVars, Given, OnWay, Tests, Unread
<1>15. Coming(j)' \in Nat /\ Updates(j)' \in Nat /\ Underway(j)' = Underway(j)
  <2>1. pops'[j] = pops[j]
    BY <1>1 DEF testcaseVars
  <2>2. /\ Coming(j)' \in Nat /\ Updates(j)' \in Nat
        /\ Coming(j)' + Updates(j)' = Coming(j) + Updates(j)
    BY <1>5, <1>7, <1>10
  <2>3. Underway(j)' = OnWay(j) + Unread(j) + Coming(j)' + Updates(j)' + pops[j]
    BY <1>14, <2>1 DEF Underway
  <2>4. Unread(j) \in Nat
    BY <1>2
  <2>5. Underway(j) = OnWay(j) + Unread(j) + Coming(j) + Updates(j) + pops[j]
    BY DEF Underway
  <2>6. PICK a \in Nat, b \in Nat, c \in Nat, d \in Nat, e \in Nat :
          a = OnWay(j) /\ b = Unread(j) /\ c = Coming(j) /\ d = Updates(j) /\ e = pops[j]
    BY <1>5, <2>4
  <2>7. PICK x \in Nat, y \in Nat : x = Coming(j)' /\ y = Updates(j)'
    BY <2>2
  <2>8. x + y = c + d
    BY <2>2, <2>6, <2>7
  <2>9. a + b + x + y + e = a + b + c + d + e
    BY <2>8
  <2>10. Underway(j)' = a + b + x + y + e
    BY <2>3, <2>6, <2>7
  <2>11. Underway(j) = a + b + c + d + e
    BY <2>5, <2>6
  <2> QED
    BY <2>2, <2>9, <2>10, <2>11
<1>16. Turn(j)'
  <2>1. read'[j] = Passed(j)' + Fails(j)' + Coming(j)'
    <3>1. /\ read[j] = Passed(j) + Fails(j) + Coming(j) /\ read'[j] = read[j]
          /\ st.state \in Passing => st.state \notin Failure
      BY <1>1, <1>2, <1>4 DEF Turn
    <3> QED
      BY <1>4, <1>5, <1>7, <3>1
  <2>2. Fails(j)' > 0 =>
          OnWay(j)' = 0 /\ Unread(j)' = 0 /\ Coming(j)' = 0 /\ pops'[j] = 0
    <3>1. pops'[j] = pops[j]
      BY <1>1 DEF testcaseVars
    <3>2. CASE st.state \in Verdict
      <4>1. /\ OnWay(j) = 0 /\ Unread(j) = 0 /\ pops[j] = 0 /\ Coming(j) = 1
        BY <1>8, <3>2
      <4> QED
        BY <1>7, <1>14, <3>1, <3>2, <4>1
    <3>3. CASE st.state \notin Verdict
      <4>1. Fails(j)' = Fails(j) /\ Coming(j)' = Coming(j)
        BY <1>4, <1>5, <1>7, <3>3
      <4> QED
        BY <1>2, <1>14, <3>1, <4>1 DEF Turn
    <3> QED
      BY <3>2, <3>3
  <2> QED
    BY <1>1, <1>2, <1>14, <1>15, <2>1, <2>2 DEF Turn, testcaseVars
<1>17. Scripted(j)'
  BY <1>1, <1>2, <1>14 DEF Scripted, PacketAt, envVars
<1>18. Answered(j)'
  BY <1>1, <1>2, <1>6 DEF Answered, VerdictsOn, State
<1>19. Cursor(j)'
  BY <1>1, <1>2, <1>14, <1>15 DEF Cursor, connVars, testcaseVars
<1>20. st.state \notin Verdict => Fails(j)' = Fails(j) /\ Complete(j)' = Complete(j)
  BY <1>1, <1>4, <1>5, <1>7, <1>14 DEF Complete, connVars
<1>21. Phase(j)'
  <2>1. /\ judge'[j] = judge[j] /\ testcase'[j] = testcase[j] /\ assigned'[j] = assigned[j]
    BY <1>1 DEF testcaseVars, envVars
  <2>2. judge[j] = "stopped" => Fails(j)' > 0 \/ Complete(j)'
    BY <1>2, <1>8, <1>20 DEF Phase
  <2> QED
    BY <1>7, <2>1, <2>2 DEF Phase, Started
<1>22. Heard(j)'
  <2>1. /\ testcase'[j] = testcase[j]
        /\ st.state \in Failure => Fails(j)' > 0
        /\ st.state \in Passing => Fails(j)' = 0
    BY <1>1, <1>4, <1>5, <1>8, <1>7 DEF testcaseVars
  <2>2. ASSUME NEW m \in Content(judge_box[j])
        PROVE  /\ m.msg = "Dispatch" => testcase[j] = "none"
               /\ m.msg = "EndJudge" => testcase[j] = "stopped" /\ Complete(j)'
               /\ m.msg = "JudgeStateUpdate" =>
                    /\ m.of.state \in Failure => Fails(j)' > 0
                    /\ m.of.state \in Passing => Fails(j)' = 0
    <3>1. CASE st.state \in Verdict
      <4>1. m.msg # "EndJudge"
        BY <1>2, <1>8, <3>1 DEF Heard, Complete
      <4>2. m \in JudgeMessage /\ m \notin VerdictUpdate
        <5>1. judge_box[j] \in Seq(JudgeMessage)
          BY <1>2 DEF TypeOK
        <5>2. Cardinality(At(judge_box[j], VerdictUpdate)) = 0
          BY <1>8, <3>1 DEF Updates
        <5> QED
          BY <5>1, <5>2, AtNone, ContentOfSeq
      <4>3. m.msg = "JudgeStateUpdate" => m.of.state \notin Verdict
        BY <4>2, JudgeMessages
      <4> QED
        BY <1>2, <1>4, <4>1, <4>3 DEF Heard
    <3>2. CASE st.state \notin Verdict
      BY <1>2, <1>20, <3>2 DEF Heard
    <3> QED
      BY <3>1, <3>2
  <2>3. ASSUME NEW m \in Content(judge_box'[j])
        PROVE  /\ m.msg = "Dispatch" => testcase'[j] = "none"
               /\ m.msg = "EndJudge" => testcase'[j] = "stopped" /\ Complete(j)'
               /\ m.msg = "JudgeStateUpdate" =>
                    /\ testcase'[j] # "none"
                    /\ m.of.state \in Failure => Fails(j)' > 0
                    /\ m.of.state \in Passing => Fails(j)' = 0
    <3>1. CASE m = Update(st)
      BY <1>7, <1>9, <2>1, <3>1
    <3>2. CASE m \in Content(judge_box[j])
      BY <1>7, <2>1, <2>2, <3>2
    <3> QED
      BY <1>10, <3>1, <3>2
  <2>4. Content(judge_box[j])' = Content(judge_box'[j])
    BY DEF Content
  <2>5. \A m : (m.of.state \in Failure)' = (m.of.state \in Failure)
    BY DEF Failure
  <2> QED
    BY <2>3, <2>4 DEF Heard, Passing, Failure
<1> QED
  BY <1>6, <1>7, <1>11, <1>12, <1>13, <1>16, <1>17, <1>18, <1>19, <1>21, <1>22, OneStep
  DEF JudgementInv

-----------------------------------------------------------------------------
(* The inductive invariant.                                                *)

LEMMA InitJInv == Init => JInv
<1> SUFFICES ASSUME Init PROVE JInv
  OBVIOUS
<1>1. /\ <<>> \in Seq(JudgeMessage) /\ <<>> \in Seq(ConnectionMessage)
      /\ <<>> \in Seq(Packet) /\ <<>> \in Seq(StateSet)
  OBVIOUS
<1>2. Len(<<>>) = 0 /\ DOMAIN <<>> = {}
  OBVIOUS
<1>3. IsFiniteSet({}) /\ Cardinality({}) = 0
  BY FS_EmptySet
<1>4. TypeOK /\ IsFiniteSet(reports)
  BY <1>1, <1>3, BoundAssumption DEF Init, TypeOK, NoTest
<1>5. ASSUME NEW j \in Judge PROVE JudgementInv(j)
  <2>1. /\ judge[j] = "waiting" /\ judge_box[j] = <<>> /\ testcase[j] = "none"
        /\ cur[j] = 0 /\ pops[j] = 0 /\ conn_box = <<>> /\ assigned[j] = NoNode
        /\ handed[j] = <<>> /\ read[j] = 0 /\ reports = {} /\ told[j] = <<>>
    BY DEF Init, NoTest
  <2>2. /\ OnWay(j) = 0 /\ Out(j) = {} /\ Own(j) = {} /\ Coming(j) = 0 /\ Unread(j) = 0
    <3>1. Sends(j) = {} /\ Out(j) = {} /\ Own(j) = {}
      BY <1>2, <2>1 DEF Sends, Out, Own, Content
    <3>2. Coming(j) = 0
      BY <1>3, <3>1 DEF Coming
    <3> QED
      BY <1>2, <1>3, <2>1, <3>1, <3>2 DEF OnWay, Unread
  <2>3. \A X : ToldAt(j, X) = {}
    BY <1>2, <2>1 DEF ToldAt
  <2>4. Content(judge_box[j]) = {} /\ Updates(j) = 0 /\ Len(judge_box[j]) = 0
    <3>1. At(judge_box[j], VerdictUpdate) = {}
      BY <1>2, <2>1 DEF At
    <3> QED
      BY <1>2, <1>3, <2>1, <3>1 DEF Content, Updates
  <2>5. Passed(j) = 0 /\ Fails(j) = 0 /\ Given(j) = 0 /\ Tests(j) \in Nat
    <3>1. Passed(j) = 0 /\ Fails(j) = 0
      BY <1>3, <2>3 DEF Passed, Fails
    <3>2. Given(j) = Len(handed[j]) + OnWay(j)
      BY DEF Given, OnWay
    <3> QED
      BY <1>2, <1>4, <2>1, <2>2, <3>1, <3>2, RequestTypes
  <2>6. Turn(j)
    BY <1>2, <2>1, <2>2, <2>4, <2>5 DEF Turn, Underway
  <2>7. Scripted(j) /\ Answered(j)
    BY <1>2, <2>1, <2>2, <2>5 DEF Scripted, Answered
  <2>8. Ordered(j) /\ Cursor(j)
    BY <2>1, <2>3, <2>5 DEF Ordered, Cursor
  <2>9. Phase(j) /\ Heard(j)
    BY <2>1, <2>2, <2>4 DEF Phase, Unstarted, Heard
  <2> QED
    BY <2>6, <2>7, <2>8, <2>9 DEF JudgementInv
<1>6. ASSUME NEW n \in Node PROVE Counted(n) /\ Greeted(n)
  <2>1. n \in connections /\ downs[n] = 0 /\ answered[n] = 0 /\ conn_box = <<>>
    BY DEF Init
  <2>2. Count(conn_box, Delete(n)) = 0 /\ Count(conn_box, Answer(n)) = 0
    <3>1. At(conn_box, {Delete(n)}) = {} /\ At(conn_box, {Answer(n)}) = {}
      BY <1>2, <2>1 DEF At
    <3> QED
      BY <1>3, <3>1 DEF Count
  <2> QED
    BY <2>1, <2>2 DEF Counted, Greeted
<1>7. Explained /\ Lost
  BY DEF Init, Explained, Lost
<1> QED
  BY <1>4, <1>5, <1>6, <1>7 DEF JInv

LEMMA StutterJInv ==
  ASSUME JInv, UNCHANGED vars
  PROVE  JInv'
<1>1. /\ UNCHANGED <<judgeVars, testcaseVars, connVars, slaveVars, envVars, handed, told>>
      /\ UNCHANGED conn_box
  BY DEF vars, connVars
<1>2. /\ \A j \in Judge : OnWay(j)' = OnWay(j) /\ Out(j)' = Out(j)
      /\ \A x : Count(conn_box, x)' = Count(conn_box, x)
  BY <1>1, BoxKept
<1>3. \A j \in Judge : JudgementInv(j)'
  <2>1. \A j \in Judge : Aside(j)
    BY <1>1, <1>2
    DEF Aside, Own, judgeVars, testcaseVars, connVars, slaveVars, envVars
  <2> QED
    BY <2>1, AsideKeeps DEF JInv
<1>4. TypeOK' /\ IsFiniteSet(reports)'
  BY <1>1
  DEF JInv, TypeOK, judgeVars, testcaseVars, connVars, slaveVars, envVars, StateSet,
      JudgeMessage, Packet, ConnectionMessage, Failure, EndJudge
<1>5. \A n \in Node : Counted(n)' /\ Greeted(n)'
  BY <1>1, <1>2 DEF JInv, Counted, Greeted, connVars, envVars
<1>6. Explained' /\ Lost'
  BY <1>1 DEF JInv, Explained, Lost, connVars, envVars
<1> QED
  BY <1>3, <1>4, <1>5, <1>6 DEF JInv

LEMMA StepJInv ==
  ASSUME JInv, [Next]_vars
  PROVE  JInv'
<1>1. CASE UNCHANGED vars
  BY <1>1, StutterJInv
<1>2. CASE \E j \in Judge, n \in Node : Dispatch(j, n)
  BY <1>2, DispatchJInv
<1>3. CASE \E n \in Node : Handshake(n) \/ NodeDown(n) \/ NodeBack(n)
  BY <1>3, HandshakeJInv, NodeDownJInv, NodeBackJInv
<1>4. CASE \E j \in Judge : JudgeStep(j)
  BY <1>4, HandleDispatchJInv, DispatchPanicsJInv, HandleUpdateJInv, HandleEndJudgeJInv
  DEF JudgeStep
<1>5. CASE \E j \in Judge : TestcaseStep(j)
  BY <1>5, PopTestJInv, PopFailsJInv, PopEndJInv, TestcaseDroppedJInv DEF TestcaseStep
<1>6. CASE \E j \in Judge : SlaveStep(j)
  BY <1>6, CompileJInv, RunTestJInv DEF SlaveStep
<1>7. CASE \E j \in Judge : Report(j)
  BY <1>7, ReportJInv
<1>8. CASE ConnectionStep
  BY <1>8, HandleNewStreamJInv, HandleSendJInv, HandleAnswerJInv, HandleDeleteJInv,
     ConnectionPanicsJInv
  DEF ConnectionStep
<1> QED
  BY <1>1, <1>2, <1>3, <1>4, <1>5, <1>6, <1>7, <1>8 DEF Next

(* JInv is an invariant of HandlerService, the actors of every judgement,  *)
(* ConnectionService and the slaves: a judgement has one thing under way.  *)
THEOREM JudgementInductive == Spec => []JInv
BY InitJInv, StepJInv, PTL DEF Spec

(* It implies the types of the actors' states and mailboxes, and that a    *)
(* JudgeService that is judging has started its TestcaseService,           *)
THEOREM JudgementTypes == Spec => []TypeOK
<1>1. JInv => TypeOK
  BY DEF JInv
<1> QED
  BY <1>1, JudgementInductive, PTL

(* that the TestcaseService of a judgement sends its slave the program,    *)
(* each test case in turn and the end, each after the verdict on the last, *)
THEOREM InLockStep == Spec => []LockStep
<1>1. JInv => LockStep
  <2> SUFFICES ASSUME JInv, NEW j \in Judge
               PROVE  /\ Given(j) <= Len(Script(j)) /\ Given(j) <= 1 + Passed(j)
                      /\ \A i \in DOMAIN handed[j] : handed[j][i] = Script(j)[i]
                      /\ \A i \in Sends(j) :
                           conn_box[i].packet = Script(j)[Len(handed[j]) + 1]
    BY DEF LockStep
  <2>1. /\ TypeOK /\ IsFiniteSet(reports) /\ Turn(j) /\ Scripted(j) /\ Unread(j) \in Nat
    BY Known
  <2>2. /\ OnWay(j) \in Nat /\ Coming(j) \in Nat /\ Updates(j) \in Nat
        /\ Passed(j) \in Nat /\ Fails(j) \in Nat /\ read[j] \in Nat /\ pops[j] \in Nat
        /\ Len(handed[j]) \in Nat /\ Tests(j) \in Nat
        /\ Given(j) = Len(handed[j]) + OnWay(j)
    BY <2>1, Numbers, RequestTypes
  <2>3. /\ Len(Script(j)) = Tests(j) + 2
        /\ \A i \in 1 .. Tests(j) + 2 : Script(j)[i] = PacketAt(j, i)
    BY <2>1, ScriptPackets
  <2>4. Given(j) <= 1 + Passed(j)
    <3>1. Len(handed[j]) = Unread(j) + read[j]
      BY <2>2 DEF Unread
    <3>2. OnWay(j) + Unread(j) + Coming(j) + Fails(j) <= 1
      <4>1. OnWay(j) + Unread(j) + Coming(j) + Updates(j) + pops[j] <= 1
        BY <2>1 DEF Turn, Underway
      <4>2. Fails(j) > 0 => OnWay(j) = 0 /\ Unread(j) = 0 /\ Coming(j) = 0
        BY <2>1 DEF Turn
      <4>3. Fails(j) <= 1
        <5>1. ToldAt(j, Failure) = {} \/ \E i : ToldAt(j, Failure) = {i}
          <6>1. \A i, k \in ToldAt(j, Failure) : i <= k
            BY <2>1, Known, Kinds DEF Ordered, ToldAt
          <6>2. ToldAt(j, Failure) \subseteq Nat
            <7>1. told[j] \in Seq(StateSet)
              BY <2>1 DEF TypeOK
            <7> QED
              BY <7>1 DEF ToldAt
          <6>3. \A i, k \in ToldAt(j, Failure) : i = k
            BY <6>1, <6>2
          <6> QED
            BY <6>3
        <5> QED
          BY <5>1, FS_EmptySet, FS_Singleton DEF Fails
      <4> QED
        BY <2>1, <2>2, <4>1, <4>2, <4>3
    <3>3. read[j] = Passed(j) + Fails(j) + Coming(j)
      BY <2>1 DEF Turn
    <3>4. PICK o, u, c, f, p \in Nat : /\ o = OnWay(j) /\ u = Unread(j) /\ c = Coming(j)
                                     /\ f = Fails(j) /\ p = Passed(j)
      BY <2>1, <2>2
    <3>5. Given(j) = (u + (p + f + c)) + o
      BY <2>2, <3>1, <3>3, <3>4
    <3>6. o + u + c + f <= 1
      BY <3>2, <3>4
    <3>7. (u + (p + f + c)) + o <= 1 + p
      BY <3>6
    <3> QED
      BY <3>4, <3>5, <3>7
  <2>5. ASSUME NEW i \in DOMAIN handed[j] PROVE handed[j][i] = Script(j)[i]
    <3>1. handed[j] \in Seq(Packet) /\ Given(j) <= Tests(j) + 2
      BY <2>1 DEF TypeOK, Scripted
    <3>2. i \in 1 .. Tests(j) + 2
      BY <2>2, <3>1
    <3> QED
      BY <2>1, <2>3, <3>2 DEF Scripted
  <2>6. ASSUME NEW i \in Sends(j)
        PROVE  conn_box[i].packet = Script(j)[Len(handed[j]) + 1]
    <3>1. conn_box[i] \in Out(j)
      BY DEF Sends, Out, Content
    <3>2. conn_box[i].packet = PacketAt(j, Len(handed[j]) + 1)
      BY <2>1, <3>1 DEF Scripted
    <3>3. OnWay(j) # 0
      BY <3>1, Known
    <3>4. Len(handed[j]) + 1 \in 1 .. Tests(j) + 2
      <4>1. Given(j) <= Tests(j) + 2
        BY <2>1 DEF Scripted
      <4> QED
        BY <2>2, <3>3, <4>1
    <3> QED
      BY <2>3, <3>2, <3>4
  <2> QED
    BY <2>1, <2>3, <2>4, <2>5, <2>6 DEF Scripted
<1> QED
  BY <1>1, JudgementInductive, PTL

(* that the client is told the verdicts in the order of the test cases,    *)
THEOREM VerdictsOrdered == Spec => []VerdictsInOrder
<1>1. JInv => VerdictsInOrder
  <2> SUFFICES ASSUME JInv, NEW j \in Judge
               PROVE  Passed(j) <= Tests(j) + 1 /\ Ordered(j)
    BY DEF VerdictsInOrder, Ordered, Verdict
  <2>1. /\ TypeOK /\ IsFiniteSet(reports) /\ Turn(j) /\ Ordered(j)
    BY Known
  <2>2. /\ Coming(j) \in Nat /\ Passed(j) \in Nat /\ Fails(j) \in Nat /\ Tests(j) \in Nat
        /\ read[j] \in Nat
    BY <2>1, Numbers, RequestTypes
  <2>3. read[j] = Passed(j) + Fails(j) + Coming(j) /\ read[j] <= Tests(j) + 1
    BY <2>1 DEF Turn
  <2> QED
    BY <2>1, <2>2, <2>3
<1> QED
  BY <1>1, JudgementInductive, PTL

(* that a JudgeService that stops leaves nothing to do and to report,      *)
THEOREM StopsWhenSettled == Spec => []StopsSettled
<1>1. JInv => StopsSettled
  <2> SUFFICES ASSUME JInv, NEW j \in Judge, judge[j] = "stopped"
               PROVE  /\ Failed(j) \/ Passed(j) = Tests(j) + 1
                      /\ \A i \in DOMAIN handed[j] : i > read[j] => handed[j][i] = TestCaseEnd
                      /\ \A i \in Sends(j) : conn_box[i].packet = TestCaseEnd
                      /\ \A r \in reports : r[1] = j => r[2].state = "DoCompile"
    BY DEF StopsSettled
  <2>1. /\ TypeOK /\ IsFiniteSet(reports) /\ Turn(j) /\ Scripted(j) /\ Phase(j)
        /\ OnWay(j) = 0 => Out(j) = {}
        /\ Unread(j) \in Nat
    BY Known
  <2>2. /\ OnWay(j) \in Nat /\ Coming(j) \in Nat /\ Passed(j) \in Nat /\ Fails(j) \in Nat
        /\ read[j] \in Nat /\ Len(handed[j]) \in Nat /\ Tests(j) \in Nat
        /\ Given(j) = Len(handed[j]) + OnWay(j)
    BY <2>1, Numbers, RequestTypes
  <2>3. /\ read[j] <= Tests(j) + 1 /\ read[j] = Passed(j) + Fails(j) + Coming(j)
        /\ Fails(j) > 0 => OnWay(j) = 0 /\ Unread(j) = 0 /\ Coming(j) = 0
        /\ Fails(j) > 0 \/ Passed(j) = Tests(j) + 1
    BY <2>1 DEF Turn, Phase, Complete
  <2>4. Coming(j) = 0
    BY <2>2, <2>3
  <2>5. Failed(j) \/ Passed(j) = Tests(j) + 1
    <3>1. ToldAt(j, Failure) = {} => Fails(j) = 0
      BY FS_EmptySet DEF Fails
    <3> QED
      BY <2>2, <2>3, <3>1 DEF Failed
  <2>6. \A i \in Nat : i > read[j] /\ i <= Tests(j) + 2 /\ Fails(j) = 0 =>
          PacketAt(j, i) = TestCaseEnd
    <3>1. ASSUME NEW i \in Nat, i > read[j], i <= Tests(j) + 2, Fails(j) = 0
          PROVE  i = Tests(j) + 2 /\ i # 1
      BY <2>2, <2>3, <3>1
    <3> QED
      BY <3>1 DEF PacketAt
  <2>7. ASSUME NEW i \in DOMAIN handed[j], i > read[j]
        PROVE  handed[j][i] = TestCaseEnd
    <3>1. handed[j] \in Seq(Packet) /\ Given(j) <= Tests(j) + 2
      BY <2>1 DEF TypeOK, Scripted
    <3>2. i \in Nat /\ i <= Len(handed[j])
      BY <3>1
    <3>3. i <= Tests(j) + 2 /\ Unread(j) # 0
      BY <2>2, <2>7, <3>1, <3>2 DEF Unread
    <3>4. Fails(j) = 0
      BY <2>2, <2>3, <3>3
    <3> QED
      BY <2>1, <2>6, <2>7, <3>2, <3>3, <3>4 DEF Scripted
  <2>8. ASSUME NEW i \in Sends(j) PROVE conn_box[i].packet = TestCaseEnd
    <3>1. conn_box[i] \in Out(j)
      BY DEF Sends, Out, Content
    <3>2. conn_box[i].packet = PacketAt(j, Len(handed[j]) + 1)
      BY <2>1, <3>1 DEF Scripted
    <3>3. OnWay(j) # 0
      BY <2>1, <3>1
    <3>4. Fails(j) = 0
      BY <2>2, <2>3, <3>3
    <3>5. Given(j) <= Tests(j) + 2 /\ read[j] <= Len(handed[j])
      BY <2>1 DEF Scripted, Turn
    <3>6. /\ Len(handed[j]) + 1 \in Nat /\ Len(handed[j]) + 1 > read[j]
          /\ Len(handed[j]) + 1 <= Tests(j) + 2
      BY <2>2, <3>3, <3>5
    <3> QED
      BY <2>6, <3>2, <3>4, <3>6
  <2>9. ASSUME NEW r \in reports, r[1] = j PROVE r[2].state = "DoCompile"
    <3>1. {x \in Own(j) : x[2].state \in Verdict} \subseteq reports
      BY DEF Own
    <3>2. IsFiniteSet({x \in Own(j) : x[2].state \in Verdict})
      BY <2>1, <3>1, FS_Subset
    <3>3. {x \in Own(j) : x[2].state \in Verdict} = {}
      BY <2>4, <3>2, FS_EmptySet DEF Coming
    <3>4. r[2].state \notin Verdict
      BY <2>9, <3>3 DEF Own
    <3>5. r[2] \in StateSet
      BY <2>1 DEF TypeOK
    <3> QED
      BY <3>4, <3>5 DEF StateSet, Verdict, Passing
  <2> QED
    BY <2>5, <2>7, <2>8, <2>9
<1> QED
  BY <1>1, JudgementInductive, PTL

(* and what an actor can have died of.                                     *)
THEOREM PanicsAreExplained == Spec => []PanicsExplained
<1>1. JInv => PanicsExplained
  BY DEF JInv, JudgementInv, Phase, Explained, PanicsExplained
<1> QED
  BY <1>1, JudgementInductive, PTL

-----------------------------------------------------------------------------
(* Judgement implements Judging: each step is a step of one judgement      *)
(* there, the cut, or none.                                                *)

\* What Judging sees of judgement j stays as it is.
AsBefore(j) ==
  /\ Tests(j)' = Tests(j) /\ Given(j)' = Given(j) /\ Passed(j)' = Passed(j)
  /\ Failed(j)' = Failed(j) /\ PhaseOf(j)' = PhaseOf(j)

LEMMA NoStepSeen ==
  ASSUME conn_up' = conn_up, \A k \in Judge : AsBefore(k)
  PROVE  UNCHANGED Promise!jvars
BY DEF AsBefore, Promise!jvars

\* One judgement takes a step.
LEMMA GiveSeen ==
  ASSUME NEW j \in Judge, \A k \in Judge : k # j => AsBefore(k),
         conn_up, conn_up' = conn_up, PhaseOf(j) = "open", ~Failed(j),
         Given(j) = Passed(j), Given(j) < Tests(j) + 2,
         Tests(j)' = Tests(j), Given(j)' = Given(j) + 1, Passed(j)' = Passed(j),
         Failed(j)' = Failed(j), PhaseOf(j)' = PhaseOf(j)
  PROVE  Promise!Give(j)
BY DEF AsBefore, Promise!Give

LEMMA PassSeen ==
  ASSUME NEW j \in Judge, \A k \in Judge : k # j => AsBefore(k),
         conn_up' = conn_up, PhaseOf(j) = "open", ~Failed(j),
         Passed(j) < Given(j), Passed(j) <= Tests(j),
         Tests(j)' = Tests(j), Given(j)' = Given(j), Passed(j)' = Passed(j) + 1,
         Failed(j)' = Failed(j), PhaseOf(j)' = PhaseOf(j)
  PROVE  Promise!Pass(j)
BY DEF AsBefore, Promise!Pass, Promise!AtWork

LEMMA FailSeen ==
  ASSUME NEW j \in Judge, \A k \in Judge : k # j => AsBefore(k),
         conn_up' = conn_up, PhaseOf(j) = "open", ~Failed(j),
         Passed(j) < Given(j), Passed(j) <= Tests(j),
         Tests(j)' = Tests(j), Given(j)' = Given(j), Passed(j)' = Passed(j),
         Failed(j)', PhaseOf(j)' = PhaseOf(j)
  PROVE  Promise!Fail(j)
BY DEF AsBefore, Promise!Fail, Promise!AtWork

LEMMA SettleSeen ==
  ASSUME NEW j \in Judge, \A k \in Judge : k # j => AsBefore(k),
         conn_up' = conn_up, PhaseOf(j) = "open", PhaseOf(j)' = "settled",
         Failed(j) \/ (Passed(j) = Tests(j) + 1 /\ (Given(j) = Tests(j) + 2 \/ ~conn_up)),
         Tests(j)' = Tests(j), Given(j)' = Given(j), Passed(j)' = Passed(j),
         Failed(j)' = Failed(j)
  PROVE  Promise!Settle(j)
BY DEF AsBefore, Promise!Settle

LEMMA RejectSeen ==
  ASSUME NEW j \in Judge, \A k \in Judge : k # j => AsBefore(k),
         conn_up' = conn_up, PhaseOf(j) = "open", PhaseOf(j)' = "refused", Given(j) = 0,
         Tests(j)' = Tests(j), Given(j)' = Given(j), Passed(j)' = Passed(j),
         Failed(j)' = Failed(j)
  PROVE  Promise!Reject(j)
BY DEF AsBefore, Promise!Reject

\* What Judging sees is in a few variables.
LEMMA Unseen ==
  ASSUME NEW j \in Judge, request' = request, told'[j] = told[j],
         handed'[j] = handed[j], OnWay(j)' = OnWay(j), PhaseOf(j)' = PhaseOf(j)
  PROVE  AsBefore(j)
<1>1. \A X : ToldAt(j, X)' = ToldAt(j, X)
  BY DEF ToldAt
<1>2. Passed(j)' = Passed(j) /\ Failed(j)' = Failed(j)
  BY <1>1 DEF Passed, Failed
<1>3. Given(j)' = Given(j) /\ Tests(j)' = Tests(j)
  BY DEF Given, OnWay, Tests
<1> QED
  BY <1>2, <1>3 DEF AsBefore

LEMMA OpenIfAlive ==
  ASSUME NEW j \in Judge, Alive(j)
  PROVE  PhaseOf(j) = "open"
BY DEF Alive, PhaseOf

LEMMA FailedIfTold ==
  ASSUME TypeOK, NEW j \in Judge
  PROVE  Failed(j) <=> Fails(j) # 0
<1>1. ToldAt(j, Failure) \subseteq 1 .. Len(told[j]) /\ Len(told[j]) \in Nat
  BY DEF TypeOK, ToldAt
<1>2. IsFiniteSet(ToldAt(j, Failure))
  BY <1>1, Positions
<1> QED
  BY <1>2, FS_EmptySet DEF Failed, Fails

(* The program is given, if there is still a way to the slave.             *)
LEMMA HandleDispatchGives ==
  ASSUME JInv, NEW j \in Judge, HandleDispatch(j)
  PROVE  Promise!Give(j) \/ UNCHANGED Promise!jvars
<1>1. /\ Incoming(j, "Dispatch") /\ judge' = [judge EXCEPT ![j] = "judging"]
      /\ ToConnection(Send(j, GetJudge))
      /\ UNCHANGED <<cur, pops, connections, conn_up, slaveVars, envVars, handed, told>>
  BY DEF HandleDispatch
<1>2. /\ TypeOK /\ IsFiniteSet(reports) /\ Phase(j) /\ Heard(j)
      /\ told[j] = <<>> => Passed(j) = 0 /\ Fails(j) = 0
  BY Known
<1>3. Alive(j) /\ Unstarted(j) /\ assigned[j] # NoNode
  <2>1. /\ Alive(j) /\ judge_box[j] # <<>> /\ Head(judge_box[j]) \in Content(judge_box[j])
        /\ Head(judge_box[j]).msg = "Dispatch"
    BY <1>1, <1>2, AtHead
  <2> QED
    BY <1>2, <2>1 DEF Phase, Heard
<1>4. /\ \A k \in Judge : k # j => OnWay(k)' = OnWay(k)
      /\ OnWay(j)' = IF conn_up THEN OnWay(j) + 1 ELSE OnWay(j)
  BY <1>1, <1>2, <1>3, Packets, PacketSent DEF envVars
<1>5. /\ PhaseOf(j) = "open" /\ PhaseOf(j)' = "open"
      /\ \A k \in Judge : k # j => PhaseOf(k)' = PhaseOf(k)
  <2>1. judge'[j] = "judging" /\ \A k \in Judge : k # j => judge'[k] = judge[k]
    BY <1>1, <1>2 DEF TypeOK
  <2> QED
    BY <1>3, <2>1, OpenIfAlive DEF PhaseOf, Alive
<1>6. \A k \in Judge : k # j => AsBefore(k)
  BY <1>1, <1>4, <1>5, Unseen DEF envVars
<1>7. CASE conn_up
  <2>1. Passed(j) = 0 /\ ~Failed(j) /\ Given(j) = 0 /\ Given(j)' = 1 /\ Tests(j) \in Nat
    <3>1. Len(handed[j]) = 0 /\ OnWay(j) = 0 /\ OnWay(j)' = 1
      BY <1>3, <1>4, <1>7 DEF Unstarted
    <3>2. Given(j) = Len(handed[j]) + OnWay(j) /\ Given(j)' = Len(handed'[j]) + OnWay(j)'
      BY DEF Given, OnWay
    <3> QED
      BY <1>1, <1>2, <1>3, <3>1, <3>2, FailedIfTold, RequestTypes DEF Unstarted
  <2>2. Tests(j)' = Tests(j) /\ Passed(j)' = Passed(j) /\ Failed(j)' = Failed(j)
    BY <1>1, ToldKept DEF envVars, Tests, Failed, ToldAt
  <2> QED
    BY <1>1, <1>5, <1>6, <1>7, <2>1, <2>2, GiveSeen
<1>8. CASE ~conn_up
  BY <1>1, <1>4, <1>5, <1>6, <1>8, Unseen, NoStepSeen DEF envVars
<1> QED
  BY <1>7, <1>8

(* The next test case, or the end, is given after all before it is passed. *)
LEMMA PopGives ==
  ASSUME JInv, NEW j \in Judge, PopTest(j) \/ PopEnd(j)
  PROVE  Promise!Give(j) \/ UNCHANGED Promise!jvars
<1>1. /\ Popping(j)
      /\ UNCHANGED <<judge, connections, conn_up, slaveVars, envVars, handed, told>>
      /\ \E pkt \in Packet : ToConnection(Send(j, pkt))
  <2>1. CASE PopEnd(j)
    BY <2>1, Packets DEF PopEnd
  <2>2. CASE PopTest(j)
    <3>1. Popping(j) /\ ToConnection(Send(j, TestCase(NextOf(j)))) /\ NextOf(j) # NoTest
      BY <2>2 DEF PopTest
    <3>2. NextOf(j) \in Nat
      BY <3>1, Popped
    <3> QED
      BY <2>2, <3>1, <3>2, Packets DEF PopTest, judgeVars
  <2> QED
    BY <2>1, <2>2
<1>2. /\ OnWay(j) = 0 /\ Fails(j) = 0 /\ Passed(j) = cur[j] + 1 /\ Len(handed[j]) = cur[j] + 1
      /\ cur[j] \in Nat /\ Tests(j) \in Nat /\ cur[j] <= Tests(j)
      /\ judge[j] = "judging" /\ assigned[j] # NoNode
  BY <1>1, Popped
<1>3. TypeOK
  BY DEF JInv
<1>4. /\ \A k \in Judge : k # j => OnWay(k)' = OnWay(k)
      /\ OnWay(j)' = IF conn_up THEN OnWay(j) + 1 ELSE OnWay(j)
  <2>1. PICK pkt \in Packet : ToConnection(Send(j, pkt))
    BY <1>1
  <2> QED
    BY <1>1, <1>2, <1>3, <2>1, PacketSent DEF envVars
<1>5. PhaseOf(j) = "open" /\ \A k \in Judge : PhaseOf(k)' = PhaseOf(k)
  BY <1>1, <1>2 DEF PhaseOf, Alive
<1>6. \A k \in Judge : k # j => AsBefore(k)
  BY <1>1, <1>4, <1>5, Unseen DEF envVars
<1>7. CASE conn_up
  <2>1. /\ Given(j) = Passed(j) /\ Given(j) < Tests(j) + 2 /\ Given(j)' = Given(j) + 1
    <3>1. Given(j) = Len(handed[j]) + OnWay(j) /\ Given(j)' = Len(handed'[j]) + OnWay(j)'
      BY DEF Given, OnWay
    <3>2. Len(handed'[j]) = cur[j] + 1 /\ OnWay(j)' = 1
      BY <1>1, <1>2, <1>4, <1>7
    <3> QED
      BY <1>2, <3>1, <3>2
  <2>2. Tests(j)' = Tests(j) /\ Passed(j)' = Passed(j) /\ Failed(j)' = Failed(j)
    BY <1>1, ToldKept DEF envVars, Tests, Failed, ToldAt
  <2>3. ~Failed(j)
    BY <1>2, <1>3, FailedIfTold
  <2> QED
    BY <1>1, <1>5, <1>6, <1>7, <2>1, <2>2, <2>3, GiveSeen
<1>8. CASE ~conn_up
  BY <1>1, <1>4, <1>5, <1>6, <1>8, Unseen, NoStepSeen DEF envVars
<1> QED
  BY <1>7, <1>8

(* A request that cannot be served is refused before anything is given.    *)
LEMMA DispatchPanicsRejects ==
  ASSUME JInv, NEW j \in Judge, UnevenPanics(j) \/ NovelPanics(j)
  PROVE  Promise!Reject(j)
<1>1. /\ Incoming(j, "Dispatch") /\ JudgeDies(j, "panicked")
      /\ UNCHANGED <<testcaseVars, connVars, slaveVars, envVars, handed, told>>
  BY DEF UnevenPanics, NovelPanics
<1>2. TypeOK /\ IsFiniteSet(reports) /\ Phase(j) /\ Heard(j)
  BY Known
<1>3. Alive(j) /\ Unstarted(j)
  <2>1. /\ Alive(j) /\ Head(judge_box[j]) \in Content(judge_box[j])
        /\ Head(judge_box[j]).msg = "Dispatch"
    BY <1>1, <1>2, AtHead
  <2> QED
    BY <1>2, <2>1 DEF Phase, Heard
<1>4. /\ PhaseOf(j) = "open" /\ PhaseOf(j)' = "refused"
      /\ \A k \in Judge : k # j => PhaseOf(k)' = PhaseOf(k)
  <2>1. judge'[j] = "panicked" /\ \A k \in Judge : k # j => judge'[k] = judge[k]
    BY <1>1, <1>2, Death
  <2> QED
    BY <1>3, <2>1, OpenIfAlive DEF PhaseOf, Alive
<1>5. \A k \in Judge : OnWay(k)' = OnWay(k)
  BY <1>1, BoxKept DEF connVars
<1>6. \A k \in Judge : k # j => AsBefore(k)
  BY <1>1, <1>4, <1>5, Unseen DEF envVars
<1>7. Given(j) = 0 /\ Given(j)' = Given(j)
  <2>1. Len(handed[j]) = 0 /\ OnWay(j) = 0
    BY <1>3 DEF Unstarted
  <2>2. Given(j) = Len(handed[j]) + OnWay(j) /\ Given(j)' = Len(handed'[j]) + OnWay(j)'
    BY DEF Given, OnWay
  <2> QED
    BY <1>1, <1>5, <2>1, <2>2
<1>8. Tests(j)' = Tests(j) /\ Passed(j)' = Passed(j) /\ Failed(j)' = Failed(j)
  BY <1>1, ToldKept DEF envVars, Tests, Failed, ToldAt
<1> QED
  BY <1>1, <1>4, <1>6, <1>7, <1>8, RejectSeen DEF connVars

(* A JudgeService halts when it hears of a failure or of the end.          *)
LEMMA HaltsSettle ==
  ASSUME JInv, NEW j \in Judge, JudgeDies(j, "stopped"), Alive(j),
         Fails(j) > 0 \/ Complete(j),
         UNCHANGED <<connVars, request, handed, told>>
  PROVE  Promise!Settle(j)
<1>1. TypeOK /\ IsFiniteSet(reports)
  BY Known
<1>2. /\ PhaseOf(j) = "open" /\ PhaseOf(j)' = "settled"
      /\ \A k \in Judge : k # j => PhaseOf(k)' = PhaseOf(k)
  <2>1. judge'[j] = "stopped" /\ \A k \in Judge : k # j => judge'[k] = judge[k]
    BY <1>1, Death
  <2> QED
    BY <2>1, OpenIfAlive DEF PhaseOf, Alive
<1>3. \A k \in Judge : OnWay(k)' = OnWay(k)
  BY BoxKept DEF connVars
<1>4. \A k \in Judge : k # j => AsBefore(k)
  BY <1>2, <1>3, Unseen
<1>5. /\ Tests(j)' = Tests(j) /\ Passed(j)' = Passed(j) /\ Failed(j)' = Failed(j)
      /\ Given(j)' = Given(j)
  BY <1>3, ToldKept DEF Tests, Failed, ToldAt, Given, OnWay
<1>6. Failed(j) \/ (Passed(j) = Tests(j) + 1 /\ (Given(j) = Tests(j) + 2 \/ ~conn_up))
  BY <1>1, FailedIfTold DEF Complete
<1> QED
  BY <1>2, <1>4, <1>5, <1>6, SettleSeen DEF connVars

LEMMA HandleUpdateSettles ==
  ASSUME JInv, NEW j \in Judge, HandleUpdate(j)
  PROVE  Promise!Settle(j) \/ UNCHANGED Promise!jvars
<1> DEFINE m == Head(judge_box[j])
<1>1. /\ Incoming(j, "JudgeStateUpdate")
      /\ IF m.of.state \in Failure THEN JudgeDies(j, "stopped")
         ELSE IF m.of.state \in Asking /\ testcase[j] = "none" THEN JudgeDies(j, "panicked")
         ELSE JudgeTakes(j) /\ UNCHANGED judge
      /\ UNCHANGED <<testcase, cur, connVars, slaveVars, envVars, handed, told>>
  BY DEF HandleUpdate
<1>2. TypeOK /\ IsFiniteSet(reports) /\ Heard(j)
  BY Known
<1>3. Alive(j) /\ m \in Content(judge_box[j]) /\ m.msg = "JudgeStateUpdate"
  BY <1>1, <1>2, AtHead
<1>4. testcase[j] # "none" /\ (m.of.state \in Failure => Fails(j) > 0)
  BY <1>2, <1>3 DEF Heard
<1>5. CASE m.of.state \in Failure
  BY <1>1, <1>3, <1>4, <1>5, HaltsSettle DEF envVars
<1>6. CASE m.of.state \notin Failure
  <2>1. \A k \in Judge : PhaseOf(k)' = PhaseOf(k)
    BY <1>1, <1>4, <1>6 DEF PhaseOf, Alive
  <2>2. \A k \in Judge : OnWay(k)' = OnWay(k)
    BY <1>1, BoxKept DEF connVars
  <2>3. \A k \in Judge : AsBefore(k)
    BY <1>1, <2>1, <2>2, Unseen DEF envVars
  <2> QED
    BY <1>1, <2>3, NoStepSeen DEF connVars
<1> QED
  BY <1>5, <1>6

LEMMA HandleEndJudgeSettles ==
  ASSUME JInv, NEW j \in Judge, HandleEndJudge(j)
  PROVE  Promise!Settle(j)
<1>1. /\ Incoming(j, "EndJudge") /\ JudgeDies(j, "stopped")
      /\ UNCHANGED <<testcaseVars, connVars, slaveVars, envVars, handed, told>>
  BY DEF HandleEndJudge
<1>2. TypeOK /\ IsFiniteSet(reports) /\ Heard(j)
  BY Known
<1>3. /\ Alive(j) /\ Head(judge_box[j]) \in Content(judge_box[j])
      /\ Head(judge_box[j]).msg = "EndJudge"
  BY <1>1, <1>2, AtHead
<1>4. Complete(j)
  BY <1>2, <1>3 DEF Heard
<1> QED
  BY <1>1, <1>3, <1>4, HaltsSettle DEF envVars

(* The client is told of a verdict: the slave has passed, or failed in,    *)
(* what it was given last.                                                 *)
LEMMA ReportSeen ==
  ASSUME JInv, NEW j \in Judge, Report(j)
  PROVE  Promise!Pass(j) \/ Promise!Fail(j) \/ UNCHANGED Promise!jvars
<1>1. PICK r \in reports :
        /\ r[1] = j /\ reports' = reports \ {r}
        /\ told' = [told EXCEPT ![j] = Append(@, r[2])]
        /\ UNCHANGED <<judge, read, testcaseVars, connVars, envVars, handed>>
  BY DEF Report
<1>2. TypeOK /\ IsFiniteSet(reports) /\ Unread(j) \in Nat
  BY Known
<1>3. PICK st \in StateSet : st = r[2]
  BY <1>2 DEF TypeOK
<1>4. /\ st.state \in Verdict =>
           /\ OnWay(j) = 0 /\ Unread(j) = 0 /\ Fails(j) = 0 /\ read[j] = Passed(j) + 1
           /\ read[j] <= Tests(j) + 1 /\ judge[j] = "judging"
      /\ \A k \in Judge : k # j => told'[k] = told[k]
      /\ told' \in [Judge -> Seq(StateSet)]
      /\ Passed(j)' = Passed(j) + (IF st.state \in Passing THEN 1 ELSE 0)
      /\ Fails(j)' = Fails(j) + (IF st.state \in Failure THEN 1 ELSE 0)
  <2>1. told' = [told EXCEPT ![j] = Append(@, st)]
    BY <1>1, <1>3
  <2> QED
    BY <1>1, <1>3, <2>1, Reported
<1>5. /\ Passed(j) \in Nat /\ Fails(j) \in Nat /\ read[j] \in Nat /\ Tests(j) \in Nat
      /\ Len(handed[j]) \in Nat /\ Given(j) = Len(handed[j]) + OnWay(j)
  BY <1>2, Numbers, RequestTypes
<1>6. /\ \A k \in Judge : PhaseOf(k)' = PhaseOf(k) /\ OnWay(k)' = OnWay(k)
      /\ Given(j)' = Given(j) /\ Tests(j)' = Tests(j) /\ conn_up' = conn_up
      /\ request' = request
  <2>1. \A k \in Judge : OnWay(k)' = OnWay(k)
    BY <1>1, BoxKept DEF connVars
  <2> QED
    BY <1>1, <2>1 DEF PhaseOf, Alive, connVars, envVars, Given, OnWay, Tests
<1>7. \A k \in Judge : k # j => AsBefore(k)
  BY <1>1, <1>4, <1>6, Unseen
<1>8. Failed(j)' <=> Fails(j)' # 0
  <2>1. \A i \in DOMAIN told'[j] : i \in 1 .. Len(told'[j])
    <3>1. told'[j] \in Seq(StateSet)
      BY <1>4
    <3> QED
      BY <3>1
  <2>2. ToldAt(j, Failure)' = {i \in DOMAIN told'[j] : told'[j][i].state \in Failure}
    BY DEF ToldAt, Failure
  <2>3. Len(told'[j]) \in Nat
    BY <1>4
  <2>4. IsFiniteSet(ToldAt(j, Failure)')
    BY <2>1, <2>2, <2>3, Positions
  <2>5. Cardinality(ToldAt(j, Failure)') = 0 <=> ToldAt(j, Failure)' = {}
    BY <2>4, FS_EmptySet
  <2> QED
    BY <2>5 DEF Failed, Fails
<1>9. CASE st.state \in Verdict
  <2>1. /\ PhaseOf(j) = "open" /\ ~Failed(j) /\ Passed(j) <= Tests(j)
        /\ Passed(j) < Given(j)
    <3>1. Given(j) = read[j]
      <4>1. Len(handed[j]) - read[j] = 0 /\ OnWay(j) = 0
        BY <1>4, <1>9 DEF Unread
      <4> QED
        BY <1>5, <4>1
    <3> QED
      BY <1>2, <1>4, <1>5, <1>9, <3>1, FailedIfTold DEF PhaseOf, Alive
  <2>2. CASE st.state \in Passing
    <3>1. st.state \notin Failure
      BY <1>2, <2>2, Kinds
    <3>2. Passed(j)' = Passed(j) + 1 /\ Failed(j)' = Failed(j)
      <4>1. Passed(j)' = Passed(j) + 1 /\ Fails(j)' = Fails(j)
        BY <1>4, <1>5, <2>2, <3>1
      <4>2. Fails(j)' = 0
        BY <1>4, <1>9, <4>1
      <4> QED
        BY <1>8, <2>1, <4>1, <4>2 DEF Failed
    <3> QED
      BY <1>6, <1>7, <2>1, <3>2, PassSeen
  <2>3. CASE st.state \notin Passing
    <3>1. st.state \in Failure
      BY <1>9, <2>3 DEF Verdict
    <3>2. Passed(j)' = Passed(j) /\ Failed(j)'
      BY <1>4, <1>5, <1>8, <1>9, <2>3, <3>1
    <3> QED
      BY <1>6, <1>7, <2>1, <3>2, FailSeen
  <2> QED
    BY <2>2, <2>3
<1>10. CASE st.state \notin Verdict
  <2>1. Passed(j)' = Passed(j) /\ Fails(j)' = Fails(j)
    BY <1>4, <1>5, <1>10 DEF Verdict
  <2>2. Failed(j)' = Failed(j)
    BY <1>2, <1>8, <2>1, FailedIfTold DEF Failed
  <2>3. AsBefore(j)
    BY <1>6, <2>1, <2>2 DEF AsBefore
  <2> QED
    BY <1>6, <1>7, <2>3, NoStepSeen
<1> QED
  BY <1>9, <1>10

(* What the connection service hands to a stream was given before.         *)
LEMMA ConnectionUnseen ==
  ASSUME JInv, HandleNewStream \/ HandleAnswer \/ HandleDelete \/ HandleSend
  PROVE  UNCHANGED Promise!jvars
<1>1. /\ UNCHANGED <<conn_up, judge, request, told>>
      /\ \A k \in Judge : PhaseOf(k)' = PhaseOf(k)
  BY DEF HandleNewStream, HandleAnswer, HandleDelete, HandleSend, ConnectionTakes, judgeVars,
         envVars, PhaseOf, Alive
<1>2. CASE HandleNewStream \/ HandleAnswer \/ HandleDelete
  <2>1. PICK op \in {"NewStream", "Answer", "DeleteStream"} :
          ConnectionTakes(op) /\ handed' = handed
    BY <1>2 DEF HandleNewStream, HandleAnswer, HandleDelete
  <2>2. \A k \in Judge : OnWay(k)' = OnWay(k)
    BY <2>1, TakesHead
  <2> QED
    BY <1>1, <2>1, <2>2, Unseen, NoStepSeen
<1>3. CASE HandleSend
  <2>1. /\ ConnectionTakes("Send")
        /\ handed' = [handed EXCEPT ![Head(conn_box).judge] = Append(@, Head(conn_box).packet)]
    BY <1>3 DEF HandleSend
  <2>2. Head(conn_box).judge \in Judge /\ Head(conn_box).packet \in Packet
    BY <2>1, TakesHead
  <2> PICK j \in Judge : j = Head(conn_box).judge
    BY <2>2
  <2> PICK pkt \in Packet : pkt = Head(conn_box).packet
    BY <2>2
  <2>3. /\ \A k \in Judge : k # j => OnWay(k)' = OnWay(k)
        /\ OnWay(j)' \in Nat /\ OnWay(j) = OnWay(j)' + 1
    BY <2>1, TakesHead
  <2>4. handed \in [Judge -> Seq(Packet)] /\ handed[j] \in Seq(Packet)
    BY DEF JInv, TypeOK
  <2>5. /\ handed'[j] = Append(handed[j], pkt)
        /\ \A k \in Judge : k # j => handed'[k] = handed[k]
    BY <2>1, <2>4
  <2>6. \A k \in Judge : k # j => AsBefore(k)
    BY <1>1, <2>3, <2>5, Unseen
  <2>7. Given(j)' = Given(j)
    <3>1. Len(Append(handed[j], pkt)) = Len(handed[j]) + 1 /\ Len(handed[j]) \in Nat
      BY <2>4
    <3>2. Len(handed'[j]) = Len(handed[j]) + 1
      BY <2>5, <3>1, Zenon
    <3>3. Given(j) = Len(handed[j]) + OnWay(j) /\ Given(j)' = Len(handed'[j]) + OnWay(j)'
      BY DEF Given, OnWay
    <3> QED
      BY <2>3, <3>1, <3>2, <3>3
  <2>8. AsBefore(j)
    <3>1. Tests(j)' = Tests(j) /\ Passed(j)' = Passed(j) /\ Failed(j)' = Failed(j)
      BY <1>1, ToldKept DEF Tests, Failed, ToldAt
    <3> QED
      BY <1>1, <2>7, <3>1 DEF AsBefore
  <2> QED
    BY <1>1, <2>6, <2>8, NoStepSeen
<1> QED
  BY <1>2, <1>3

(* When it dies, what was on its way is lost; a judgement of which nothing *)
(* was on its way keeps what it was given, another has passed all before.  *)
LEMMA ConnectionPanicsCuts ==
  ASSUME JInv, ConnectionPanics
  PROVE  Promise!Cut
<1>1. /\ conn_up /\ conn_up' = FALSE /\ conn_box' = <<>>
      /\ UNCHANGED <<connections, judgeVars, testcaseVars, slaveVars, envVars, handed, told>>
  BY DEF ConnectionPanics
<1> DEFINE arrived == [k \in Judge |-> OnWay(k) = 0]
<1>2. ASSUME NEW j \in Judge
      PROVE  /\ Tests(j)' = Tests(j) /\ Passed(j)' = Passed(j) /\ Failed(j)' = Failed(j)
             /\ PhaseOf(j)' = PhaseOf(j)
             /\ Given(j)' = IF OnWay(j) = 0 THEN Given(j) ELSE Passed(j)
  <2>1. /\ TypeOK /\ IsFiniteSet(reports) /\ Turn(j) /\ Unread(j) \in Nat
    BY Known
  <2>2. /\ OnWay(j) \in Nat /\ Coming(j) \in Nat /\ Updates(j) \in Nat
        /\ Passed(j) \in Nat /\ Fails(j) \in Nat /\ read[j] \in Nat /\ pops[j] \in Nat
        /\ Len(handed[j]) \in Nat /\ Given(j) = Len(handed[j]) + OnWay(j)
    BY <2>1, Numbers
  <2>3. Given(j)' = Len(handed[j])
    <3>1. DOMAIN conn_box' = {}
      <4>1. DOMAIN <<>> = {}
        OBVIOUS
      <4> QED
        BY <1>1, <4>1
    <3>2. Sends(j)' = {}
      BY <3>1 DEF Sends
    <3>3. Given(j)' = Len(handed'[j]) + Cardinality(Sends(j)')
      BY DEF Given
    <3> QED
      BY <1>1, <2>2, <3>2, <3>3, FS_EmptySet
  <2>4. OnWay(j) # 0 => Passed(j) = Len(handed[j])
    <3>1. OnWay(j) + Unread(j) + Coming(j) + Updates(j) + pops[j] <= 1
      BY <2>1 DEF Turn, Underway
    <3>2. \A a, b, c, d, e \in Nat : a # 0 /\ a + b + c + d + e <= 1 => b = 0 /\ c = 0
      OBVIOUS
    <3>3. OnWay(j) # 0 => Unread(j) = 0 /\ Coming(j) = 0
      BY <2>1, <2>2, <3>1, <3>2
    <3>4. OnWay(j) # 0 => Fails(j) = 0
      BY <2>1, <2>2 DEF Turn
    <3>5. read[j] = Passed(j) + Fails(j) + Coming(j)
      BY <2>1 DEF Turn
    <3> QED
      BY <2>2, <3>3, <3>4, <3>5 DEF Unread
  <2>5. Tests(j)' = Tests(j) /\ Passed(j)' = Passed(j) /\ Failed(j)' = Failed(j)
    BY <1>1, ToldKept DEF envVars, Tests, Failed, ToldAt
  <2>6. PhaseOf(j)' = PhaseOf(j)
    BY <1>1 DEF PhaseOf, Alive, judgeVars
  <2> QED
    BY <2>2, <2>3, <2>4, <2>5, <2>6
<1>3. arrived \in [Judge -> BOOLEAN]
  OBVIOUS
<1>4. [j \in Judge |-> Given(j)]' =
        [j \in Judge |-> IF arrived[j] THEN [k \in Judge |-> Given(k)][j]
                                       ELSE [k \in Judge |-> Passed(k)][j]]
  BY <1>2
<1>5. /\ [j \in Judge |-> Tests(j)]' = [j \in Judge |-> Tests(j)]
      /\ [j \in Judge |-> Passed(j)]' = [j \in Judge |-> Passed(j)]
      /\ {j \in Judge : Failed(j)}' = {j \in Judge : Failed(j)}
      /\ [j \in Judge |-> PhaseOf(j)]' = [j \in Judge |-> PhaseOf(j)]
  BY <1>2
<1> HIDE DEF arrived
<1> QED
  BY <1>1, <1>3, <1>4, <1>5 DEF Promise!Cut

\* The other steps are none there.
LEMMA OthersUnseen ==
  ASSUME JInv,
         \/ \E j \in Judge, n \in Node : Dispatch(j, n)
         \/ \E n \in Node : Handshake(n) \/ NodeDown(n) \/ NodeBack(n)
         \/ \E j \in Judge : PopFails(j) \/ TestcaseDropped(j) \/ SlaveStep(j)
         \/ UNCHANGED vars
  PROVE  UNCHANGED Promise!jvars
<1>1. UNCHANGED <<judge, conn_up, request, handed, told>>
  BY DEF Dispatch, Handshake, NodeDown, NodeBack, PopFails, TestcaseDropped, SlaveStep, Compile,
         RunTest, Reads, vars, judgeVars, connVars, envVars
<1>2. ASSUME NEW k \in Judge PROVE OnWay(k)' = OnWay(k)
  <2>1. CASE UNCHANGED conn_box
    BY <2>1, BoxKept
  <2>2. CASE \E n \in Node :
               ToConnection(Answer(n)) \/ ToConnection(Delete(n)) \/ ToConnection(NewStream(n))
    <3>1. PICK m \in ConnectionMessage : m.op # "Send" /\ ToConnection(m)
      BY <2>2, Others
    <3> QED
      BY <3>1, Posted DEF JInv
  <2> QED
    BY <2>1, <2>2
    DEF Dispatch, Handshake, NodeDown, NodeBack, PopFails, TestcaseDropped, SlaveStep, Compile,
        RunTest, Reads, vars, connVars
<1>3. \A k \in Judge : AsBefore(k)
  BY <1>1, <1>2, Unseen DEF PhaseOf, Alive
<1> QED
  BY <1>1, <1>3, NoStepSeen

LEMMA StepImplementsJudging ==
  ASSUME JInv, [Next]_vars
  PROVE  [Promise!Next]_(Promise!jvars)
<1>1. CASE \/ \E j \in Judge, n \in Node : Dispatch(j, n)
           \/ \E n \in Node : Handshake(n) \/ NodeDown(n) \/ NodeBack(n)
           \/ UNCHANGED vars
  BY <1>1, OthersUnseen
<1>2. CASE \E j \in Judge : JudgeStep(j)
  BY <1>2, HandleDispatchGives, DispatchPanicsRejects, HandleUpdateSettles,
     HandleEndJudgeSettles
  DEF JudgeStep, Promise!Next
<1>3. CASE \E j \in Judge : TestcaseStep(j)
  BY <1>3, PopGives, OthersUnseen DEF TestcaseStep, Promise!Next
<1>4. CASE \E j \in Judge : SlaveStep(j)
  BY <1>4, OthersUnseen
<1>5. CASE \E j \in Judge : Report(j)
  BY <1>5, ReportSeen DEF Promise!Next
<1>6. CASE ConnectionStep
  BY <1>6, ConnectionUnseen, ConnectionPanicsCuts DEF ConnectionStep, Promise!Next
<1> QED
  BY <1>1, <1>2, <1>3, <1>4, <1>5, <1>6 DEF Next

LEMMA InitImplementsJudging == Init => Promise!Init
<1> SUFFICES ASSUME Init PROVE Promise!Init
  OBVIOUS
<1>1. JInv
  BY InitJInv
<1>2. ASSUME NEW j \in Judge
      PROVE  /\ Tests(j) \in Nat /\ Given(j) = 0 /\ Passed(j) = 0 /\ ~Failed(j)
             /\ PhaseOf(j) = "open"
  <2>1. /\ judge[j] = "waiting" /\ told[j] = <<>> /\ testcase[j] = "none"
        /\ conn_up
    BY DEF Init
  <2>2. /\ TypeOK /\ IsFiniteSet(reports) /\ Phase(j) /\ Passed(j) = 0 /\ Fails(j) = 0
    BY <1>1, <2>1, Known
  <2>3. Len(handed[j]) = 0 /\ OnWay(j) = 0
    BY <2>1, <2>2 DEF Phase, Unstarted
  <2>4. Given(j) = Len(handed[j]) + OnWay(j)
    BY DEF Given, OnWay
  <2> QED
    BY <2>1, <2>2, <2>3, <2>4, RequestTypes, FailedIfTold DEF PhaseOf, Alive
<1>3. conn_up = TRUE
  BY DEF Init
<1> QED
  BY <1>2, <1>3 DEF Promise!Init

(* Judgement implements Judging, for all judgements, requests and nodes:   *)
(* JudgeService and slave take turns however the messages of the actors    *)
(* interleave, a judgement settles on a failure or when all is passed, and *)
(* after the connection service has died nothing more is given.            *)
THEOREM JudgementImplements == Spec => ImplementsJudging
<1>1. JInv /\ [Next]_vars => [Promise!Next]_(Promise!jvars)
  BY StepImplementsJudging
<1> QED
  BY <1>1, InitImplementsJudging, JudgementInductive, PTL
  DEF Spec, Promise!Spec, ImplementsJudging
=============================================================================
