------------------------- MODULE SchedulerRefinement -------------------------
(***************************************************************************)
(* The scheduler implements Dispatching, for every set of nodes,           *)
(* judgements and times: each step of Scheduler is, under the mapping of   *)
(* MCScheduler, a step of Dispatching or leaves all its variables alone.   *)
(* And the placement that Rebalance specifies exists, is unique and is the *)
(* one its loop computes.                                                  *)
(***************************************************************************)
EXTENDS MCScheduler, SchedulerSteps

(* The mapped variables, in the words of SchedulerSteps.                   *)
LEMMA Mapping ==
  /\ Waiting = JudgesOf(nodes) /\ Waiting' = JudgesOf(nodes')
  /\ DOMAIN nodes \ {NODE_ZERO} = Real(nodes)
  /\ (DOMAIN nodes \ {NODE_ZERO})' = Real(nodes')
  /\ [n \in Node |-> IF n \in DOMAIN pending THEN pending[n][1] ELSE 0] = Busy(pending)
  /\ [n \in Node |-> IF n \in DOMAIN pending THEN pending[n][1] ELSE 0]' = Busy(pending')
BY DEF Waiting, JudgesOf, Real, Busy

(* Free, HandOut and Drop of Dispatching under the mapping.                *)
FreeNow(busy) == {n \in shared_key' : busy[n] = 0}

HandsOut(pool, busy, free) ==
  \E S \in SUBSET free : \E pick \in Promise!Injection(S, pool) :
    /\ JudgesOf(nodes') = pool \ Promise!Range(pick)
    /\ Busy(pending') = [n \in Node |-> IF n \in S THEN pick[n] ELSE busy[n]]
    /\ dispatched' = dispatched \cup {<<pick[n], n>> : n \in S}

DropsAll(busy) ==
  /\ Real(nodes') # {} /\ shared_key' = {}
  /\ JudgesOf(nodes') = {}
  /\ Busy(pending') = busy
  /\ dispatched' = dispatched

(* A second half that hands judgements over is a HandOut, of the prepared  *)
(* judgements to the nodes that are free by then.                          *)
LEMMA HandoverHandsOut ==
  ASSUME IInv, IInv', NEW h, NEW o, NEW free, NEW busy, Prepared(h, o),
         Handover(h, o, free), busy = Busy(o)
  PROVE  /\ Real(nodes') = Real(h)
         /\ HandsOut(JudgesOf(h), busy, free \cap FreeNow(busy))
<1>1. PICK f, served, top :
        served \subseteq free /\ Moved(h, f) /\ Hands(f, o, served, top)
  BY DEF Handover
<1> DEFINE pick == [n \in served |-> top[n].judge]
<1>2. Real(nodes') = Real(h)
  BY <1>1 DEF Hands, Moved, Real
<1>3. served \subseteq Node /\ served \subseteq DOMAIN h /\ DOMAIN o = DOMAIN h
  BY <1>1 DEF Hands, Moved, Real, IInv, Histories, Prepared, Typed
<1>4. served \subseteq free \cap FreeNow(busy)
  <2>1. \A n \in served : busy[n] = 0
    BY <1>1, <1>3 DEF Hands, Busy, None
  <2> QED
    BY <1>1, <2>1 DEF Hands, FreeNow
<1>5. /\ dispatched' = dispatched \cup {<<pick[n], n>> : n \in served}
      /\ \A n \in served : <<pick[n], n>> \in dispatched'
  BY <1>1 DEF Hands
<1>6. \A n \in DOMAIN f : \A e \in f[n] : e.judge \in JudgesOf(h)
  <2>1. DOMAIN f = DOMAIN h /\ NODE_ZERO \in DOMAIN h
    BY <1>1 DEF Moved, Prepared, Typed
  <2>2. \A n \in DOMAIN f : \A e \in f[n] :
          e \in h[n] \/ \E a \in h[NODE_ZERO] : a.judge = e.judge
    BY <1>1, <2>1 DEF Moved
  <2> QED
    BY <2>1, <2>2 DEF JudgesOf
<1>7. pick \in Promise!Injection(served, JudgesOf(h))
  <2>1. \A n \in served : pick[n] \in JudgesOf(h)
    BY <1>1, <1>6 DEF Hands, IsTop, Real
  <2>2. \A m, n \in served : pick[m] = pick[n] => m = n
    <3>1. \A c, d \in dispatched' : c[1] = d[1] => c[2] = d[2]
      BY DEF IInv, Placed
    <3> HIDE DEF pick
    <3> QED
      BY <1>5, <3>1
  <2> QED
    BY <2>1, <2>2 DEF Promise!Injection, Promise!IsInjective
<1>8. JudgesOf(nodes') = JudgesOf(h) \ Promise!Range(pick)
  <2>1. ASSUME NEW n \in DOMAIN nodes', NEW e \in nodes'[n]
        PROVE  e.judge \in JudgesOf(h) \ Promise!Range(pick)
    <3>1. e.judge \in JudgesOf(h)
      <4>1. n \in DOMAIN f /\ e \in f[n]
        BY <1>1, <2>1 DEF Hands
      <4> QED
        BY <1>6, <4>1
    <3>2. \A d \in dispatched' : d[1] # e.judge
      BY <2>1 DEF IInv, Placed
    <3> HIDE DEF pick
    <3>3. \A m \in served : pick[m] # e.judge
      BY <1>5, <3>2
    <3>4. DOMAIN pick = served
      BY DEF pick
    <3> QED
      BY <3>1, <3>3, <3>4 DEF Promise!Range
  <2>2. JudgesOf(nodes') \subseteq JudgesOf(h) \ Promise!Range(pick)
    BY <2>1 DEF JudgesOf
  <2>3. JudgesOf(h) \subseteq JudgesOf(nodes') \cup Sent'
    BY <1>1, NothingDisappears
  <2>4. \A j \in JudgesOf(h) : \A d \in dispatched : d[1] # j
    BY DEF Prepared, Apart, JudgesOf
  <2>5. \A j \in JudgesOf(h) : j \in Sent' => j \in Promise!Range(pick)
    BY <1>5, <2>4 DEF Sent, Promise!Range
  <2> QED
    BY <2>2, <2>3, <2>5
<1>9. Busy(pending') = [n \in Node |-> IF n \in served THEN pick[n] ELSE busy[n]]
  <2>1. DOMAIN pending' = DOMAIN h
    BY <1>1 DEF Hands, Moved
  <2>2. \A n \in served : pending'[n][1] = pick[n]
    BY <1>1 DEF Hands
  <2>3. \A n \in DOMAIN h \ served : pending'[n] = o[n]
    BY <1>1 DEF Hands, Moved
  <2> HIDE DEF pick
  <2>4. \A n \in Node : (IF n \in DOMAIN pending' THEN pending'[n][1] ELSE 0)
                          = IF n \in served THEN pick[n] ELSE busy[n]
    BY <1>3, <2>1, <2>2, <2>3 DEF Busy
  <2> QED
    BY <2>4 DEF Busy
<1> HIDE DEF pick
<1>10. HandsOut(JudgesOf(h), busy, free \cap FreeNow(busy))
  BY <1>4, <1>5, <1>7, <1>8, <1>9 DEF HandsOut
<1> QED
  BY <1>2, <1>10

(* A second half that drops the queue of NODE_ZERO is a Drop.              *)
LEMMA DropsDrops ==
  ASSUME IInv', NEW h, NEW o, NEW busy, Drops(h, o), busy = Busy(o)
  PROVE  Real(nodes') = Real(h) /\ DropsAll(busy)
<1>1. Real(nodes') = Real(h) /\ Real(nodes') # {}
  BY DEF Drops, Real
<1>2. shared_key' = {} /\ dispatched' = dispatched
  BY DEF Drops
<1>3. JudgesOf(nodes') = {}
  <2>1. \A n \in DOMAIN nodes' \ {NODE_ZERO} : nodes'[n] = {}
    BY <1>2 DEF IInv, Keyed
  <2>2. nodes'[NODE_ZERO] = {}
    BY DEF Drops
  <2> QED
    BY <2>1, <2>2 DEF JudgesOf
<1>4. Busy(pending') = busy
  BY DEF Drops
<1> QED
  BY <1>1, <1>2, <1>3, <1>4 DEF DropsAll

(* More free nodes allow the same hand-outs.                               *)
LEMMA MoreFree ==
  ASSUME NEW pool, NEW busy, NEW A, NEW B, A \subseteq B, HandsOut(pool, busy, A)
  PROVE  HandsOut(pool, busy, B)
BY DEF HandsOut

(* A second half after which what was asked for is what was asked before.  *)
LEMMA TransfersSame ==
  ASSUME IInv, IInv', NEW h, NEW o, NEW free, NEW busy, Prepared(h, o),
         Transfers(h, o, free), busy = Busy(o), submitted' = submitted
  PROVE  /\ Real(nodes') = Real(h)
         /\ \/ HandsOut(Waiting, busy, FreeNow(busy))
            \/ DropsAll(busy)
<1>1. JudgesOf(h) = Waiting
  BY Mapping DEF Prepared, SameWork
<1>2. CASE Handover(h, o, free)
  <2>1. /\ Real(nodes') = Real(h)
        /\ HandsOut(Waiting, busy, free \cap FreeNow(busy))
    BY <1>1, <1>2, HandoverHandsOut
  <2> QED
    BY <2>1, MoreFree
<1>3. CASE Drops(h, o)
  BY <1>3, DropsDrops
<1> QED
  BY <1>2, <1>3 DEF Transfers

-----------------------------------------------------------------------------
(* Each action of Scheduler and the one of Dispatching it implements.      *)

(* register implements Join.                                               *)
LEMMA RegisterJoins ==
  ASSUME IInv, IInv', NEW n \in Node, Register(n)
  PROVE  Promise!Join(n)
<1>1. PICK h, o : /\ Prepared(h, o) /\ Transfers(h, o, Real(h))
                  /\ Real(h) = Real(nodes) \cup {n} /\ Busy(o) = Busy(pending)
  BY RegisterSteps
<1>2. n \notin Real(nodes) /\ submitted' = submitted /\ shared_key' = shared_key
  BY DEF Register, Real
<1>3. /\ Real(nodes') = Real(nodes) \cup {n}
      /\ \/ HandsOut(Waiting, Busy(pending), FreeNow(Busy(pending)))
         \/ DropsAll(Busy(pending))
  BY <1>1, <1>2, TransfersSame
<1> QED
  BY <1>2, <1>3, Mapping
  DEF Promise!Join, Promise!HandOut, Promise!Free, Promise!Drop, DropsAll, HandsOut, FreeNow

(* promote implements Establish.                                           *)
LEMMA PromoteEstablishes ==
  ASSUME IInv, NEW n \in Node, Promote(n)
  PROVE  Promise!Establish(n)
<1>1. n \in Real(nodes)
  BY StateBefore DEF Promote
<1> QED
  BY <1>1, Mapping DEF Promote, Promise!Establish

(* touch implements Finish, for a node that is busy and for one that is    *)
(* not.                                                                    *)
LEMMA TouchFinishes ==
  ASSUME IInv, IInv', NEW n \in Node, Touch(n)
  PROVE  Promise!Finish(n)
<1> DEFINE busy == [Busy(pending) EXCEPT ![n] = 0]
<1>1. PICK o : /\ Prepared(nodes, o) /\ Handover(nodes, o, {n})
               /\ n \in Real(nodes) /\ Busy(o) = busy
  BY TouchSteps
<1>2. submitted' = submitted /\ shared_key' = shared_key
  BY DEF Touch
<1> HIDE DEF busy
<1>3. /\ Real(nodes') = Real(nodes)
      /\ HandsOut(Waiting, busy, {n} \cap FreeNow(busy))
  BY <1>1, Mapping, HandoverHandsOut
<1> QED
  BY <1>1, <1>2, <1>3, Mapping
  DEF Promise!Finish, Promise!HandOut, Promise!Free, HandsOut, FreeNow, busy

(* unregister implements Leave.                                            *)
LEMMA UnregisterLeaves ==
  ASSUME IInv, IInv', NEW n \in Node, Unregister(n)
  PROVE  Promise!Leave(n)
<1> DEFINE busy == [Busy(pending) EXCEPT ![n] = 0]
<1>1. PICK h, o : /\ Prepared(h, o) /\ Transfers(h, o, Real(h))
                  /\ n \in Real(nodes) /\ Real(h) = Real(nodes) \ {n}
                  /\ Busy(o) = busy
  BY UnregisterSteps
<1>2. submitted' = submitted /\ shared_key' = shared_key \ {n}
  BY DEF Unregister
<1> HIDE DEF busy
<1>3. /\ Real(nodes') = Real(nodes) \ {n}
      /\ \/ HandsOut(Waiting, busy, FreeNow(busy))
         \/ DropsAll(busy)
  BY <1>1, <1>2, TransfersSame
<1> QED
  BY <1>1, <1>2, <1>3, Mapping
  DEF Promise!Leave, Promise!HandOut, Promise!Free, Promise!Drop, DropsAll, HandsOut,
      FreeNow, busy

(* push implements Ask.                                                    *)
LEMMA PushAsks ==
  ASSUME IInv, IInv', NEW j \in Judge, NEW t \in TotalTime, NEW w \in Weight, Push(j, t, w)
  PROVE  Promise!Ask(j)
<1> DEFINE busy == Busy(pending)
<1>1. PICK h : /\ Prepared(h, pending) /\ Handover(h, pending, Real(h))
               /\ Real(h) = Real(nodes)
  BY PushSteps
<1>2. /\ j \notin submitted /\ submitted' = submitted \cup {j}
      /\ shared_key' = shared_key
  BY DEF Push
<1>3. JudgesOf(h) = Waiting \cup {j}
  BY <1>1, <1>2, Mapping DEF Prepared, SameWork
<1>4. /\ Real(nodes') = Real(h)
      /\ HandsOut(JudgesOf(h), busy, Real(h) \cap FreeNow(busy))
  BY <1>1, HandoverHandsOut
<1> HIDE DEF busy
<1>5. HandsOut(Waiting \cup {j}, busy, FreeNow(busy))
  BY <1>3, <1>4, MoreFree
<1> QED
  BY <1>1, <1>2, <1>4, <1>5, Mapping
  DEF Promise!Ask, Promise!HandOut, Promise!Free, HandsOut, FreeNow, busy

(* A rebalance on its own implements Balance.                              *)
LEMMA RebalanceBalances ==
  ASSUME IInv, IInv', ForceRebalance
  PROVE  Promise!Balance
<1>1. Prepared(nodes, pending) /\ Transfers(nodes, pending, Real(nodes))
  BY ForceRebalanceSteps
<1>2. submitted' = submitted /\ shared_key' = shared_key
  BY DEF ForceRebalance
<1>3. /\ Real(nodes') = Real(nodes)
      /\ \/ HandsOut(Waiting, Busy(pending), FreeNow(Busy(pending)))
         \/ DropsAll(Busy(pending))
  BY <1>1, <1>2, TransfersSame
<1> QED
  BY <1>2, <1>3, Mapping
  DEF Promise!Balance, Promise!HandOut, Promise!Free, Promise!Drop, DropsAll, HandsOut, FreeNow

(* Every step implements a step or a stutter.                              *)
LEMMA StepImplements ==
  ASSUME IInv, IInv', [Next]_vars
  PROVE  [Promise!Next]_(Promise!dvars)
<1>1. CASE \E n \in Node : Register(n)
  BY <1>1, RegisterJoins DEF Promise!Next
<1>2. CASE \E n \in Node : Promote(n)
  BY <1>2, PromoteEstablishes DEF Promise!Next
<1>3. CASE \E n \in Node : Touch(n)
  BY <1>3, TouchFinishes DEF Promise!Next
<1>4. CASE (\E n \in Node : TouchMissing(n)) \/ UNCHANGED vars
  <2>1. UNCHANGED <<nodes, shared_key, pending, dispatched, submitted>>
    BY <1>4 DEF TouchMissing, vars
  <2> QED
    BY <2>1, Mapping DEF Promise!dvars
<1>5. CASE \E n \in Node : Unregister(n)
  BY <1>5, UnregisterLeaves DEF Promise!Next
<1>6. CASE \E j \in Judge, t \in TotalTime, w \in Weight : Push(j, t, w)
  BY <1>6, PushAsks DEF Promise!Next
<1>7. CASE ForceRebalance
  BY <1>7, RebalanceBalances DEF Promise!Next
<1> QED
  BY <1>1, <1>2, <1>3, <1>4, <1>5, <1>6, <1>7 DEF Next

(* The scheduler starts as Dispatching does.                               *)
LEMMA InitImplements == Init => Promise!Init
<1> SUFFICES ASSUME Init PROVE Promise!Init
  OBVIOUS
<1>1. Waiting = {} /\ Real(nodes) = {}
  BY DEF Init, Waiting, Real
<1>2. Busy(pending) = [n \in Node |-> 0]
  BY DEF Init, Busy, None
<1> QED
  BY <1>1, <1>2, Mapping DEF Init, Promise!Init

(* The scheduler implements Dispatching: whatever nodes and clients do, a  *)
(* judgement is handed out at most once and to a free node whose handshake *)
(* is established, a node that is done gets the next judgement itself, and *)
(* what waits is dropped only when nodes have joined and none is ready.    *)
THEOREM SchedulerImplements == Spec => ImplementsDispatching
<1>1. IInv /\ IInv' /\ [Next]_vars => [Promise!Next]_(Promise!dvars)
  BY StepImplements
<1> QED
  BY <1>1, InitImplements, Inductive, PTL DEF Spec, Promise!Spec, ImplementsDispatching

-----------------------------------------------------------------------------
(* The placement of rebalance is the one its loop computes.                *)

(* A finite set has a smallest subset of each kind there is,               *)
LEMMA SmallestSubset ==
  ASSUME NEW S, IsFiniteSet(S), NEW T, T \subseteq SUBSET S, T # {}
  PROVE  \E A \in T : \A B \in T : B \subseteq A => B = A
<1> DEFINE R == StrictSubsetOrdering(S)
<1>1. FiniteSubsetsOf(S) = SUBSET S
  BY FS_FiniteSubsetsOfFinite
<1>2. IsWellFoundedOn(R, SUBSET S)
  BY <1>1, FS_StrictSubsetOrderingWellFounded
<1> HIDE DEF R
<1>3. PICK A \in T : \A B \in T : <<B, A>> \notin R
  BY <1>2, WFMin
<1>4. \A B \in T : <<B, A>> \notin R => ~(B \subseteq A /\ B # A)
  BY DEF R, StrictSubsetOrdering
<1> QED
  BY <1>3, <1>4

(* and a last member, in an order that tells all members apart.            *)
LEMMA LastExists ==
  ASSUME NEW S, IsFiniteSet(S), S # {}, NEW R,
         \A a, b \in S : a # b => <<a, b>> \in R \/ <<b, a>> \in R,
         \A a, b, c \in S : <<a, b>> \in R /\ <<b, c>> \in R => <<a, c>> \in R
  PROVE  \E e \in S : \A f \in S \ {e} : <<f, e>> \in R
<1> DEFINE HasLast(A) == \E e \in A : \A f \in A \ {e} : <<f, e>> \in R
           T == {A \in SUBSET S : A # {} /\ ~HasLast(A)}
<1>1. SUFFICES ASSUME T # {} PROVE FALSE
  OBVIOUS
<1>2. PICK A \in T : \A B \in T : B \subseteq A => B = A
  <2>1. T \subseteq SUBSET S
    OBVIOUS
  <2> HIDE DEF T
  <2> QED
    BY <1>1, <2>1, SmallestSubset
<1>3. PICK a \in A : TRUE
  BY <1>2
<1>4. A \ {a} \notin T
  <2>1. A \ {a} \subseteq A /\ A \ {a} # A
    BY <1>3
  <2> HIDE DEF T
  <2> QED
    BY <1>2, <2>1
<1>5. CASE A \ {a} = {}
  <2>1. HasLast(A)
    BY <1>3, <1>5
  <2> QED
    BY <1>2, <2>1
<1>6. CASE HasLast(A \ {a})
  <2>1. PICK e \in A \ {a} : \A f \in (A \ {a}) \ {e} : <<f, e>> \in R
    BY <1>6
  <2>2. a \in S /\ e \in S /\ A \subseteq S /\ a # e
    BY <1>2, <1>3, <2>1
  <2>3. CASE <<a, e>> \in R
    <3>1. \A f \in A \ {e} : <<f, e>> \in R
      BY <2>1, <2>3
    <3>2. HasLast(A)
      BY <2>1, <3>1
    <3> QED
      BY <1>2, <3>2
  <2>4. CASE <<e, a>> \in R
    <3>1. \A f \in A \ {a} : <<f, a>> \in R
      BY <2>1, <2>2, <2>4
    <3>2. HasLast(A)
      BY <1>3, <3>1
    <3> QED
      BY <1>2, <3>2
  <2> QED
    BY <2>2, <2>3, <2>4
<1> QED
  BY <1>2, <1>3, <1>4, <1>5, <1>6

(* So a finite set of naturals has a least number.                         *)
LEMMA LeastOfFinite ==
  ASSUME NEW B, IsFiniteSet(B), B # {}, B \subseteq Nat
  PROVE  \E k \in B : \A m \in B : k <= m
<1> DEFINE R == {x \in B \X B : x[1] > x[2]}
<1>1. \A a, b \in B : <<a, b>> \in R <=> a > b
  OBVIOUS
<1> HIDE DEF R
<1>2. /\ \A a, b \in B : a # b => <<a, b>> \in R \/ <<b, a>> \in R
      /\ \A a, b, c \in B : <<a, b>> \in R /\ <<b, c>> \in R => <<a, c>> \in R
  BY <1>1
<1>3. PICK k \in B : \A m \in B \ {k} : <<m, k>> \in R
  BY <1>2, LastExists
<1>4. \A m \in B : m = k \/ m > k
  BY <1>1, <1>3
<1> QED
  BY <1>4

(* And so has any set of naturals.                                         *)
LEMMA LeastNumber ==
  ASSUME NEW S, S \subseteq Nat, S # {}
  PROVE  \E k \in S : \A m \in S : k <= m
<1>1. PICK n \in S : TRUE
  OBVIOUS
<1> DEFINE B == {m \in S : m <= n}
<1>2. IsFiniteSet(B) /\ B # {} /\ B \subseteq Nat
  <2>1. n \in Nat /\ n <= n
    BY <1>1
  <2>2. n \in B
    BY <1>1, <2>1
  <2>4. B \subseteq 0 .. n
    <3>1. \A m \in B : m \in Nat /\ m <= n
      OBVIOUS
    <3> HIDE DEF B
    <3> QED
      BY <2>1, <3>1
  <2>3. IsFiniteSet(0 .. n)
    BY <2>1, FS_Interval
  <2> QED
    BY <2>2, <2>3, <2>4, FS_Subset
<1>3. PICK k \in B : \A m \in B : k <= m
  <2> HIDE DEF B
  <2> QED
    BY <1>2, LeastOfFinite
<1>4. \A m \in S : m \in B \/ m > n
  BY <1>1
<1>5. k \in Nat /\ k <= n /\ k \in S
  OBVIOUS
<1> QED
  BY <1>1, <1>3, <1>4, <1>5

-----------------------------------------------------------------------------
(* The order of the heap and that of the index.                            *)

(* Before tells all entries apart,                                         *)
LEMMA BeforeOrders ==
  /\ \A e \in EntrySet : ~Before(e, e)
  /\ \A e, f \in EntrySet : e # f => Before(e, f) \/ Before(f, e)
  /\ \A e, f, g \in EntrySet : Before(e, f) /\ Before(f, g) => Before(e, g)
<1>1. \A e, f \in EntrySet :
        e.deadline = f.deadline /\ e.time = f.time /\ e.judge = f.judge => e = f
  BY DEF EntrySet
<1>2. \A e \in EntrySet : e.deadline \in Nat /\ e.time \in Nat /\ e.judge \in Nat
  BY JudgeAssumption DEF EntrySet
<1>3. \A e \in EntrySet : ~Before(e, e)
  BY <1>2 DEF Before
<1>4. ASSUME NEW e \in EntrySet, NEW f \in EntrySet, e # f
      PROVE  Before(e, f) \/ Before(f, e)
  BY <1>1, <1>2, <1>4 DEF Before
<1>5. ASSUME NEW e \in EntrySet, NEW f \in EntrySet, NEW g \in EntrySet,
             Before(e, f), Before(f, g)
      PROVE  Before(e, g)
  BY <1>2, <1>5 DEF Before
<1> QED
  BY <1>3, <1>4, <1>5

\* The queue of NODE_ZERO is a finite set of entries,
Heap(h) == IsFiniteSet(h) /\ h \subseteq EntrySet

(* so a heap has an entry that is popped last, and one that is popped      *)
(* first.                                                                  *)
LEMMA HeapEnds ==
  ASSUME NEW h, Heap(h), h # {}
  PROVE  /\ \E e \in h : \A f \in h \ {e} : Before(f, e)
         /\ \E e \in h : \A f \in h \ {e} : Before(e, f)
<1> DEFINE R == {x \in h \X h : Before(x[1], x[2])}
           Q == {x \in h \X h : Before(x[2], x[1])}
<1>1. \A e, f \in h : /\ <<e, f>> \in R <=> Before(e, f)
                      /\ <<e, f>> \in Q <=> Before(f, e)
  OBVIOUS
<1>2. /\ \A a, b \in h : a # b => Before(a, b) \/ Before(b, a)
      /\ \A a, b, c \in h : Before(a, b) /\ Before(b, c) => Before(a, c)
  BY BeforeOrders DEF Heap
<1> HIDE DEF R, Q
<1>3. IsFiniteSet(h)
  BY DEF Heap
<1>4. \E e \in h : \A f \in h \ {e} : <<f, e>> \in R
  <2>1. /\ \A a, b \in h : a # b => <<a, b>> \in R \/ <<b, a>> \in R
        /\ \A a, b, c \in h : <<a, b>> \in R /\ <<b, c>> \in R => <<a, c>> \in R
    BY <1>1, <1>2
  <2> QED
    BY <1>3, <2>1, LastExists
<1>5. \E e \in h : \A f \in h \ {e} : <<f, e>> \in Q
  <2>1. /\ \A a, b \in h : a # b => <<a, b>> \in Q \/ <<b, a>> \in Q
        /\ \A a, b, c \in h : <<a, b>> \in Q /\ <<b, c>> \in Q => <<a, c>> \in Q
    BY <1>1, <1>2
  <2> QED
    BY <1>3, <2>1, LastExists
<1> QED
  BY <1>1, <1>4, <1>5

\* An index has one size for each of its nodes.
Index(i) ==
  /\ i # {} /\ i \subseteq Nat \X Nat
  /\ \A p, q \in i : p[2] = q[2] => p = q

(* Its least element, the node with the least work, exists and is one.     *)
LEMMA LeastExists ==
  ASSUME NEW i, Index(i)
  PROVE  /\ \E p \in i : IsLeast(p, i)
         /\ \A p, q : IsLeast(p, i) /\ IsLeast(q, i) => p = q
<1>1. \A p \in i : p = <<p[1], p[2]>> /\ p[1] \in Nat /\ p[2] \in Nat
  BY DEF Index
<1> DEFINE S == {p[1] : p \in i}
<1>2. PICK s \in S : \A m \in S : s <= m
  <2>1. S \subseteq Nat /\ S # {}
    BY <1>1 DEF Index
  <2> HIDE DEF S
  <2> QED
    BY <2>1, LeastNumber
<1> DEFINE N == {p[2] : p \in {q \in i : q[1] = s}}
<1>3. PICK n \in N : \A m \in N : n <= m
  <2>1. N \subseteq Nat /\ N # {}
    BY <1>1, <1>2
  <2> HIDE DEF N
  <2> QED
    BY <2>1, LeastNumber
<1>4. PICK p \in i : p[1] = s /\ p[2] = n
  BY <1>3
<1>5. IsLeast(p, i)
  <2> SUFFICES ASSUME NEW q \in i \ {p}
               PROVE  p[1] < q[1] \/ (p[1] = q[1] /\ p[2] < q[2])
    BY DEF IsLeast
  <2>1. s <= q[1] /\ (q[1] = s => n <= q[2])
    BY <1>2, <1>3
  <2>2. q[2] # p[2]
    BY DEF Index
  <2> QED
    BY <1>1, <1>4, <2>1, <2>2
<1>6. ASSUME NEW q, NEW r, IsLeast(q, i), IsLeast(r, i)
      PROVE  q = r
  <2>1. /\ q \in i /\ r \in i
        /\ q # r => /\ q[1] < r[1] \/ (q[1] = r[1] /\ q[2] < r[2])
                    /\ r[1] < q[1] \/ (r[1] = q[1] /\ r[2] < q[2])
    BY <1>6 DEF IsLeast
  <2> QED
    BY <1>1, <2>1
<1> QED
  BY <1>4, <1>5, <1>6

(* The sizes of an index are those of its elements.                        *)
LEMMA LeastOf ==
  ASSUME NEW i, Index(i)
  PROVE  /\ \A p \in i : /\ p[1] \in Nat /\ p[2] \in Nat /\ p = <<p[1], p[2]>>
                         /\ SizeOf(i, p[2]) = p[1]
         /\ \A n \in Ready(i) : /\ <<SizeOf(i, n), n>> \in i
                                /\ SizeOf(i, n) \in Nat
         /\ \A n \in Ready(i) :
              IsLeast(<<SizeOf(i, n), n>>, i) <=>
                \A m \in Ready(i) \ {n} :
                  \/ SizeOf(i, n) < SizeOf(i, m)
                  \/ SizeOf(i, n) = SizeOf(i, m) /\ n < m
<1>1. \A p \in i : p[1] \in Nat /\ p[2] \in Nat /\ p = <<p[1], p[2]>>
  BY DEF Index
<1>2. ASSUME NEW p \in i PROVE SizeOf(i, p[2]) = p[1]
  <2>1. \A q \in i : q[2] = p[2] => q = p
    BY DEF Index
  <2> QED
    BY <2>1 DEF SizeOf
<1>3. ASSUME NEW n \in Ready(i)
      PROVE  <<SizeOf(i, n), n>> \in i /\ SizeOf(i, n) \in Nat
  <2>1. PICK p \in i : p[2] = n
    BY DEF Ready
  <2> QED
    BY <1>1, <1>2, <2>1
<1>4. ASSUME NEW n \in Ready(i)
      PROVE  IsLeast(<<SizeOf(i, n), n>>, i) <=>
                \A m \in Ready(i) \ {n} :
                  \/ SizeOf(i, n) < SizeOf(i, m)
                  \/ SizeOf(i, n) = SizeOf(i, m) /\ n < m
  <2> DEFINE p == <<SizeOf(i, n), n>>
             Less(k, m) == \/ SizeOf(i, n) < k
                           \/ SizeOf(i, n) = k /\ n < m
  <2>1. p \in i /\ p[1] = SizeOf(i, n) /\ p[2] = n
    BY <1>3
  <2>2. IsLeast(p, i) <=> \A q \in i \ {p} : Less(q[1], q[2])
    BY <2>1 DEF IsLeast
  <2> HIDE DEF Less
  <2>3. \A m \in Ready(i) \ {n} : <<SizeOf(i, m), m>> \in i \ {p}
    BY <1>3
  <2>4. \A q \in i \ {p} : q[2] \in Ready(i) \ {n} /\ q[1] = SizeOf(i, q[2])
    <3>1. \A q \in i : q[2] = p[2] => q = p
      BY <2>1 DEF Index
    <3> QED
      BY <1>2, <2>1, <3>1 DEF Ready
  <2>5. ASSUME \A q \in i \ {p} : Less(q[1], q[2])
        PROVE  \A m \in Ready(i) \ {n} : Less(SizeOf(i, m), m)
    <3> TAKE m \in Ready(i) \ {n}
    <3> DEFINE q == <<SizeOf(i, m), m>>
    <3>1. q \in i \ {p} /\ q[1] = SizeOf(i, m) /\ q[2] = m
      BY <2>3
    <3>2. Less(q[1], q[2])
      BY <2>5, <3>1
    <3> QED
      BY <3>1, <3>2
  <2>6. ASSUME \A m \in Ready(i) \ {n} : Less(SizeOf(i, m), m)
        PROVE  \A q \in i \ {p} : Less(q[1], q[2])
    BY <2>4, <2>6
  <2>7. IsLeast(p, i) <=> \A m \in Ready(i) \ {n} : Less(SizeOf(i, m), m)
    BY <2>2, <2>5, <2>6
  <2> QED
    BY <2>7 DEF Less
<1> QED
  BY <1>1, <1>2, <1>3, <1>4

\* The index after the entries S have gone where `to` says.
Filled(to, S, i) ==
  {<<p[1] + TimeOf({f \in S : to[f] = p[2]}), p[2]>> : p \in i}

(* It is an index of the same nodes, and the size of each has grown by     *)
(* what it was given.                                                      *)
LEMMA FilledIs ==
  ASSUME NEW S, Heap(S), NEW i, Index(i), NEW to
  PROVE  /\ Index(Filled(to, S, i)) /\ Ready(Filled(to, S, i)) = Ready(i)
         /\ \A n \in Ready(i) :
              /\ SizeOf(Filled(to, S, i), n)
                   = SizeOf(i, n) + TimeOf({f \in S : to[f] = n})
              /\ TimeOf({f \in S : to[f] = n}) \in Nat
<1> DEFINE T(n) == TimeOf({f \in S : to[f] = n})
           F    == {<<p[1] + T(p[2]), p[2]>> : p \in i}
<1>1. \A n : T(n) \in Nat
  <2> TAKE n
  <2>1. {f \in S : to[f] = n} \subseteq S
    OBVIOUS
  <2>2. Timed({f \in S : to[f] = n})
    BY <2>1, FS_Subset DEF Heap, EntrySet, Timed
  <2> QED
    BY <2>2, CellsFinite
<1>2. F = Filled(to, S, i)
  BY DEF Filled
<1> HIDE DEF T
<1>3. \A p \in i : p[1] \in Nat /\ p[2] \in Nat
  BY DEF Index
<1>4. \A p, q \in i : p[2] = q[2] => p = q
  BY DEF Index
<1>5. F # {} /\ F \subseteq Nat \X Nat
  <2>1. i # {}
    BY DEF Index
  <2>2. \A p \in i : p[1] + T(p[2]) \in Nat
    BY <1>1, <1>3
  <2>3. PICK p \in i : TRUE
    BY <2>1
  <2>4. <<p[1] + T(p[2]), p[2]>> \in F
    BY <2>3
  <2>5. \A x \in F : x \in Nat \X Nat
    BY <1>3, <2>2
  <2> QED
    BY <2>4, <2>5
<1>6. \A x, y \in F : x[2] = y[2] => x = y
  <2> TAKE x, y \in F
  <2>1. PICK p \in i : x = <<p[1] + T(p[2]), p[2]>>
    OBVIOUS
  <2>2. PICK q \in i : y = <<q[1] + T(q[2]), q[2]>>
    OBVIOUS
  <2> QED
    BY <1>4, <2>1, <2>2
<1>7. Index(F)
  BY <1>5, <1>6 DEF Index
<1>8. Ready(F) = Ready(i)
  <2>1. \A x \in F : \E p \in i : x[2] = p[2]
    OBVIOUS
  <2>2. ASSUME NEW p \in i PROVE \E x \in F : x[2] = p[2]
    <3>1. <<p[1] + T(p[2]), p[2]>> \in F
      OBVIOUS
    <3> QED
      BY <3>1
  <2> QED
    BY <2>1, <2>2 DEF Ready
<1>9. ASSUME NEW n \in Ready(i) PROVE SizeOf(F, n) = SizeOf(i, n) + T(n)
  <2>1. <<SizeOf(i, n), n>> \in i
    BY LeastOf
  <2> DEFINE y == <<SizeOf(i, n) + T(n), n>>
  <2>2. y \in F /\ y[1] = SizeOf(i, n) + T(n) /\ y[2] = n
    BY <2>1
  <2> HIDE DEF F, y
  <2>3. SizeOf(F, y[2]) = y[1]
    BY <1>7, <2>2, LeastOf
  <2> QED
    BY <2>2, <2>3
<1> QED
  BY <1>1, <1>2, <1>7, <1>8, <1>9 DEF T

-----------------------------------------------------------------------------
(* One round of the loop.  The entries before the last one are placed as   *)
(* if it were not there, and it goes to the least element of the index     *)
(* they leave.                                                             *)
LEMMA LastPlaced ==
  ASSUME NEW h, Heap(h), NEW e \in h, \A f \in h \ {e} : Before(f, e),
         NEW i, Index(i), NEW to \in [h -> Ready(i)],
         NEW t \in [h \ {e} -> Ready(i)], \A f \in h \ {e} : t[f] = to[f]
  PROVE  IsPlacement(to, h, i) <=>
           /\ IsPlacement(t, h \ {e}, i)
           /\ \E p : IsLeast(p, Filled(t, h \ {e}, i)) /\ to[e] = p[2]
<1> DEFINE D == h \ {e}
           F == Filled(t, D, i)
           Size(g, n) == SizeOf(i, n)
                           + TimeOf({f \in h : Before(f, g) /\ to[f] = n})
           At(g) == \A n \in Ready(i) \ {to[g]} :
                      \/ Size(g, to[g]) < Size(g, n)
                      \/ Size(g, to[g]) = Size(g, n) /\ to[g] < n
           SizeD(g, n) == SizeOf(i, n)
                            + TimeOf({f \in D : Before(f, g) /\ t[f] = n})
           AtD(g) == \A n \in Ready(i) \ {t[g]} :
                       \/ SizeD(g, t[g]) < SizeD(g, n)
                       \/ SizeD(g, t[g]) = SizeD(g, n) /\ t[g] < n
<1>1. IsPlacement(to, h, i) <=> \A g \in h : At(g)
  BY DEF IsPlacement
<1>2. IsPlacement(t, D, i) <=> \A g \in D : AtD(g)
  BY DEF IsPlacement
<1>3. \A g \in D : ~Before(e, g)
  <2>1. /\ \A g \in EntrySet : ~Before(g, g)
        /\ \A a, b, c \in EntrySet : Before(a, b) /\ Before(b, c) => Before(a, c)
    BY BeforeOrders
  <2>2. \A g \in D : Before(g, e) /\ g \in EntrySet
    BY DEF Heap
  <2>3. e \in EntrySet
    BY DEF Heap
  <2> QED
    BY <2>1, <2>2, <2>3
<1>4. ~Before(e, e)
  BY BeforeOrders DEF Heap
<1>5. ASSUME NEW g \in D, NEW n
      PROVE  {f \in h : Before(f, g) /\ to[f] = n} = {f \in D : Before(f, g) /\ t[f] = n}
  BY <1>3
<1>6. \A n : {f \in h : Before(f, e) /\ to[f] = n} = {f \in D : t[f] = n}
  BY <1>4
<1>7. ASSUME NEW g \in D PROVE At(g) <=> AtD(g)
  <2>1. to[g] = t[g]
    OBVIOUS
  <2>2. \A n : Size(g, n) = SizeD(g, n)
    BY <1>5
  <2> HIDE DEF Size, SizeD
  <2> QED
    BY <2>1, <2>2
<1>8. Heap(D)
  BY FS_Subset DEF Heap
<1>9. Index(F) /\ Ready(F) = Ready(i)
  <2> HIDE DEF D
  <2> QED
    BY <1>8, FilledIs
<1>10. \A n \in Ready(i) : Size(e, n) = SizeOf(F, n)
  <2>1. \A n \in Ready(i) : SizeOf(F, n) = SizeOf(i, n) + TimeOf({f \in D : t[f] = n})
    <3> HIDE DEF D
    <3> QED
      BY <1>8, FilledIs
  <2> QED
    BY <1>6, <2>1
<1>11. to[e] \in Ready(i)
  OBVIOUS
<1>12. At(e) <=> IsLeast(<<SizeOf(F, to[e]), to[e]>>, F)
  <2>1. IsLeast(<<SizeOf(F, to[e]), to[e]>>, F) <=>
          \A m \in Ready(F) \ {to[e]} :
            \/ SizeOf(F, to[e]) < SizeOf(F, m)
            \/ SizeOf(F, to[e]) = SizeOf(F, m) /\ to[e] < m
    <3> HIDE DEF F
    <3> QED
      BY <1>9, <1>11, LeastOf
  <2> HIDE DEF F, Size
  <2> QED
    BY <1>9, <1>10, <1>11, <2>1
<1>13. IsLeast(<<SizeOf(F, to[e]), to[e]>>, F) <=>
         \E p : IsLeast(p, F) /\ to[e] = p[2]
  <2> HIDE DEF F
  <2>1. ASSUME NEW p, IsLeast(p, F), to[e] = p[2]
        PROVE  p = <<SizeOf(F, to[e]), to[e]>>
    <3>1. p \in F
      BY <2>1 DEF IsLeast
    <3> QED
      BY <1>9, <2>1, <3>1, LeastOf
  <2> QED
    BY <2>1
<1> HIDE DEF At, AtD, D, F
<1>14. (\A g \in h : At(g)) <=> (\A g \in D : At(g)) /\ At(e)
  BY DEF D
<1> QED
  BY <1>1, <1>2, <1>7, <1>12, <1>13, <1>14 DEF D, F

(* Putting the last entry there takes the least element out of the index   *)
(* and puts it back with its new size.                                     *)
LEMMA FilledNext ==
  ASSUME NEW h, Heap(h), NEW e \in h, NEW i, Index(i), NEW t,
         DOMAIN t = h \ {e}, NEW p, p \in Filled(t, h \ {e}, i)
  PROVE  Filled(Insert(t, e, p[2]), h, i)
           = (Filled(t, h \ {e}, i) \ {p}) \cup {<<p[1] + e.time, p[2]>>}
<1> DEFINE D == h \ {e}
           u == Insert(t, e, p[2])
           Of(n) == {f \in D : t[f] = n}
<1>1. h = D \cup {e} /\ e \notin D
  OBVIOUS
<1>2. u[e] = p[2] /\ \A f \in D : u[f] = t[f]
  BY <1>1 DEF Insert
<1>3. \A n : n # p[2] => {f \in h : u[f] = n} = Of(n)
  BY <1>1, <1>2
<1>4. {f \in h : u[f] = p[2]} = Of(p[2]) \cup {e}
  BY <1>1, <1>2
<1>5. PICK q \in i : p = <<q[1] + TimeOf(Of(q[2])), q[2]>>
  BY DEF Filled
<1>6. /\ TimeOf(Of(p[2]) \cup {e}) = TimeOf(Of(p[2])) + e.time
      /\ TimeOf(Of(p[2])) \in Nat
  <2>1. Of(p[2]) \subseteq h /\ e \notin Of(p[2])
    OBVIOUS
  <2>2. Timed(Of(p[2])) /\ e.time \in Nat
    BY <2>1, FS_Subset DEF Heap, EntrySet, Timed
  <2> QED
    BY <2>1, <2>2, TimeOfJoin, CellsFinite
<1>7. \A r \in i : r[1] \in Nat /\ (r[2] = q[2] => r = q)
  BY DEF Index
<1>8. e.time \in Nat
  BY DEF Heap, EntrySet
<1> DEFINE New(r) == <<r[1] + TimeOf({f \in h : u[f] = r[2]}), r[2]>>
           Old(r) == <<r[1] + TimeOf(Of(r[2])), r[2]>>
           y == <<p[1] + e.time, p[2]>>
<1>9. New(q) = y
  <2>1. p[1] = q[1] + TimeOf(Of(q[2])) /\ p[2] = q[2]
    BY <1>5
  <2>2. TimeOf({f \in h : u[f] = q[2]}) = TimeOf(Of(q[2])) + e.time
    BY <1>4, <1>6, <2>1
  <2>3. PICK k \in Nat : k = TimeOf(Of(q[2]))
    BY <1>6, <2>1
  <2>4. PICK l \in Nat : l = q[1]
    BY <1>7
  <2>5. l + (k + e.time) = (l + k) + e.time
    BY <1>8
  <2> QED
    BY <2>1, <2>2, <2>3, <2>4, <2>5
<1>10. \A r \in i : r # q => New(r) = Old(r) /\ Old(r) # p
  BY <1>3, <1>5, <1>7
<1>11. Old(q) = p
  BY <1>5
<1>12. Filled(u, h, i) = {New(r) : r \in i}
  BY DEF Filled
<1>13. Filled(t, D, i) = {Old(r) : r \in i}
  BY DEF Filled
<1> HIDE DEF New, Old, y, u, D
<1>14. {New(r) : r \in i} = ({Old(r) : r \in i} \ {p}) \cup {y}
  BY <1>9, <1>10, <1>11
<1> QED
  BY <1>12, <1>13, <1>14 DEF u, D, y

-----------------------------------------------------------------------------
(* So every heap has one placement, and the loop arrives at it.            *)
Placements(S, i) == {to \in [S -> Ready(i)] : IsPlacement(to, S, i)}

(* Placing the last entry makes the placement of the others the placement  *)
(* of all.                                                                 *)
LEMMA OneMore ==
  ASSUME NEW h, Heap(h), NEW e \in h, \A f \in h \ {e} : Before(f, e),
         NEW i, Index(i), NEW t, Placements(h \ {e}, i) = {t},
         NEW p, IsLeast(p, Filled(t, h \ {e}, i))
  PROVE  Placements(h, i) = {Insert(t, e, p[2])}
<1> DEFINE D == h \ {e}
           u == Insert(t, e, p[2])
<1>1. t \in [D -> Ready(i)] /\ IsPlacement(t, D, i)
  BY DEF Placements
<1>2. Heap(D)
  BY FS_Subset DEF Heap
<1>3. Index(Filled(t, D, i)) /\ Ready(Filled(t, D, i)) = Ready(i)
  <2> HIDE DEF D
  <2> QED
    BY <1>2, FilledIs
<1>4. p[2] \in Ready(i)
  BY <1>3 DEF IsLeast, Ready
<1>5. u \in [h -> Ready(i)] /\ u[e] = p[2] /\ \A f \in D : t[f] = u[f]
  BY <1>1, <1>4 DEF Insert
<1>6. u \in Placements(h, i)
  <2>1. IsPlacement(u, h, i) <=>
           /\ IsPlacement(t, D, i)
           /\ \E q : IsLeast(q, Filled(t, D, i)) /\ u[e] = q[2]
    <3> HIDE DEF u
    <3> QED
      BY <1>1, <1>5, LastPlaced
  <2> HIDE DEF u
  <2> QED
    BY <1>1, <1>5, <2>1 DEF Placements
<1>7. ASSUME NEW v \in Placements(h, i) PROVE v = u
  <2> DEFINE s == [f \in D |-> v[f]]
  <2>1. v \in [h -> Ready(i)] /\ IsPlacement(v, h, i)
    BY DEF Placements
  <2>2. s \in [D -> Ready(i)] /\ \A f \in D : s[f] = v[f]
    BY <2>1
  <2>3. IsPlacement(v, h, i) <=>
           /\ IsPlacement(s, D, i)
           /\ \E q : IsLeast(q, Filled(s, D, i)) /\ v[e] = q[2]
    <3> HIDE DEF s
    <3> QED
      BY <2>1, <2>2, LastPlaced
  <2> HIDE DEF s
  <2>4. s = t
    BY <2>1, <2>2, <2>3 DEF Placements
  <2>5. v[e] = p[2]
    <3>1. PICK q : IsLeast(q, Filled(t, D, i)) /\ v[e] = q[2]
      BY <2>1, <2>3, <2>4
    <3>2. IsLeast(p, Filled(t, D, i))
      OBVIOUS
    <3>3. q = p
      <4> HIDE DEF D
      <4> QED
        BY <1>3, <3>1, <3>2, LeastExists
    <3> QED
      BY <3>1, <3>3
  <2>6. \A f \in h : v[f] = u[f]
    BY <1>5, <2>2, <2>4, <2>5
  <2> HIDE DEF u
  <2> QED
    BY <1>5, <2>1, <2>6
<1> HIDE DEF u
<1> QED
  BY <1>6, <1>7 DEF u

(* The last entry of a heap is the one LastOf takes.                       *)
LEMMA LastIs ==
  ASSUME NEW S, Heap(S), S # {}
  PROVE  LastOf(S) \in S /\ \A f \in S \ {LastOf(S)} : Before(f, LastOf(S))
BY HeapEnds DEF LastOf

(* Without entries there is nothing to place.                              *)
LEMMA NothingToPlace ==
  ASSUME NEW i, Index(i)
  PROVE  Placements({}, i) = {<<>>} /\ Filled(<<>>, {}, i) = i
<1>1. <<>> \in [{} -> Ready(i)]
  OBVIOUS
<1>2. \A t \in [{} -> Ready(i)] : t = <<>>
  OBVIOUS
<1>3. Placements({}, i) = {<<>>}
  BY <1>1, <1>2 DEF Placements, IsPlacement
<1> DEFINE t == <<>>
<1>4. \A n : {f \in {} : t[f] = n} = {}
  OBVIOUS
<1>5. \A p \in i : p[1] \in Nat /\ p = <<p[1], p[2]>>
  BY LeastOf
<1>6. \A p \in i : <<p[1] + TimeOf({f \in {} : t[f] = p[2]}), p[2]>> = p
  <2>1. \A n : TimeOf({f \in {} : t[f] = n}) = 0
    BY <1>4, TimeOfEmpty
  <2> QED
    BY <1>5, <2>1
<1>7. Filled(t, {}, i) = i
  BY <1>6 DEF Filled
<1> QED
  BY <1>3, <1>7

(* So every part of a heap has exactly one placement.                      *)
LEMMA OnePlacement ==
  ASSUME NEW h, Heap(h), NEW i, Index(i)
  PROVE  \A S \in SUBSET h : \E t : Placements(S, i) = {t}
<1> DEFINE T == {S \in SUBSET h : ~\E t : Placements(S, i) = {t}}
<1>1. SUFFICES ASSUME T # {} PROVE FALSE
  OBVIOUS
<1>2. PICK S \in T : \A B \in T : B \subseteq S => B = S
  <2>1. T \subseteq SUBSET h /\ IsFiniteSet(h)
    BY DEF Heap
  <2> HIDE DEF T
  <2> QED
    BY <1>1, <2>1, SmallestSubset
<1>3. S # {}
  BY NothingToPlace
<1>4. Heap(S)
  BY FS_Subset DEF Heap
<1>5. PICK e \in S : \A f \in S \ {e} : Before(f, e)
  BY <1>3, <1>4, HeapEnds
<1>6. S \ {e} \notin T
  <2>1. S \ {e} \subseteq S /\ S \ {e} # S
    OBVIOUS
  <2> HIDE DEF T
  <2> QED
    BY <1>2, <2>1
<1>7. PICK t : Placements(S \ {e}, i) = {t}
  BY <1>6
<1>8. Heap(S \ {e})
  BY <1>4, FS_Subset DEF Heap
<1>9. PICK p : IsLeast(p, Filled(t, S \ {e}, i))
  <2>1. Index(Filled(t, S \ {e}, i))
    BY <1>8, FilledIs
  <2> QED
    BY <2>1, LeastExists
<1>10. Placements(S, i) = {Insert(t, e, p[2])}
  BY <1>4, <1>5, <1>7, <1>9, OneMore
<1> QED
  BY <1>2, <1>10

(* A round takes the placement of the entries before, and the index they   *)
(* leave, to those with the last entry.                                    *)
LEMMA RoundPlaces ==
  ASSUME NEW h, Heap(h), NEW e \in h, \A f \in h \ {e} : Before(f, e),
         NEW i, Index(i), NEW t, Placements(h \ {e}, i) = {t}
  PROVE  \E u : /\ Placements(h, i) = {u}
                /\ PlaceNext([index |-> Filled(t, h \ {e}, i), to |-> t], e)
                     = [index |-> Filled(u, h, i), to |-> u]
<1> DEFINE x == Filled(t, h \ {e}, i)
           p == CHOOSE q \in x : IsLeast(q, x)
           u == Insert(t, e, p[2])
<1>1. Heap(h \ {e})
  BY FS_Subset DEF Heap
<1>2. Index(x)
  BY <1>1, FilledIs
<1>3. \E q \in x : IsLeast(q, x)
  <2> HIDE DEF x
  <2> QED
    BY <1>2, LeastExists
<1>4. p \in x /\ IsLeast(p, x)
  BY <1>3
<1>5. DOMAIN t = h \ {e}
  BY DEF Placements
<1>6. PlaceNext([index |-> x, to |-> t], e)
        = [index |-> (x \ {p}) \cup {<<p[1] + e.time, p[2]>>}, to |-> u]
  <2> HIDE DEF x
  <2> QED
    BY DEF PlaceNext
<1> HIDE DEF p
<1>7. Placements(h, i) = {u}
  BY <1>4, OneMore
<1>8. Filled(u, h, i) = (x \ {p}) \cup {<<p[1] + e.time, p[2]>>}
  <2>1. \A q : q \in x => Filled(Insert(t, e, q[2]), h, i)
                           = (x \ {q}) \cup {<<q[1] + e.time, q[2]>>}
    BY <1>5, FilledNext
  <2> HIDE DEF x
  <2> QED
    BY <1>4, <2>1
<1> HIDE DEF x, u
<1>9. PlaceNext([index |-> x, to |-> t], e) = [index |-> Filled(u, h, i), to |-> u]
  BY <1>6, <1>8
<1> QED
  BY <1>7, <1>9 DEF x

\* The loop after the entries S: the only placement of S, and its index.
Placing(S, i) ==
  LET t == CHOOSE t : Placements(S, i) = {t}
  IN  [index |-> Filled(t, S, i), to |-> t]

(* It starts with the index as it is and nothing placed,                   *)
LEMMA PlacingStarts ==
  ASSUME NEW i, Index(i)
  PROVE  Placing({}, i) = [index |-> i, to |-> <<>>]
<1>1. \A t : Placements({}, i) = {t} <=> t = <<>>
  BY NothingToPlace
<1> DEFINE t == CHOOSE t : Placements({}, i) = {t}
<1>2. t = <<>>
  BY <1>1
<1>3. Placing({}, i) = [index |-> Filled(t, {}, i), to |-> t]
  BY DEF Placing
<1> HIDE DEF t
<1> QED
  BY <1>2, <1>3, NothingToPlace

(* knows the placement wherever there is only one,                         *)
LEMMA PlacingIs ==
  ASSUME NEW S, NEW i, NEW t, Placements(S, i) = {t}
  PROVE  Placing(S, i) = [index |-> Filled(t, S, i), to |-> t]
<1> DEFINE u == CHOOSE u : Placements(S, i) = {u}
<1>1. u = t
  OBVIOUS
<1>2. Placing(S, i) = [index |-> Filled(u, S, i), to |-> u]
  BY DEF Placing
<1> HIDE DEF u
<1> QED
  BY <1>1, <1>2

(* and continues as the loop does, entry after entry.                      *)
LEMMA PlacingContinues ==
  ASSUME NEW h, Heap(h), NEW i, Index(i), NEW S \in SUBSET h, S # {}
  PROVE  Placing(S, i) = PlaceNext(Placing(S \ {LastOf(S)}, i), LastOf(S))
<1> DEFINE e == LastOf(S)
<1>1. Heap(S)
  BY FS_Subset DEF Heap
<1>2. e \in S /\ \A f \in S \ {e} : Before(f, e)
  BY <1>1, LastIs
<1> HIDE DEF e
<1>3. PICK t : Placements(S \ {e}, i) = {t}
  <2>1. S \ {e} \in SUBSET h
    OBVIOUS
  <2> QED
    BY <2>1, OnePlacement
<1>4. PICK u : /\ Placements(S, i) = {u}
               /\ PlaceNext([index |-> Filled(t, S \ {e}, i), to |-> t], e)
                    = [index |-> Filled(u, S, i), to |-> u]
  BY <1>1, <1>2, <1>3, RoundPlaces
<1>5. Placing(S \ {e}, i) = [index |-> Filled(t, S \ {e}, i), to |-> t]
  BY <1>3, PlacingIs
<1>6. Placing(S, i) = [index |-> Filled(u, S, i), to |-> u]
  BY <1>4, PlacingIs
<1> QED
  BY <1>4, <1>5, <1>6 DEF e

(* The rounds of the loop go through these.                                *)
LEMMA RoundsPlace ==
  ASSUME NEW h, Heap(h), NEW i, Index(i)
  PROVE  \A S \in SUBSET h : Rounds(h, i)[S] = Placing(S, i)
<1> DEFINE g == [S \in SUBSET h |-> Placing(S, i)]
<1>1. g = [S \in SUBSET h |->
             IF S = {} THEN [index |-> i, to |-> <<>>]
             ELSE PlaceNext(g[S \ {LastOf(S)}], LastOf(S))]
  <2>1. ASSUME NEW S \in SUBSET h
        PROVE  Placing(S, i) = IF S = {} THEN [index |-> i, to |-> <<>>]
                               ELSE PlaceNext(g[S \ {LastOf(S)}], LastOf(S))
    <3>1. CASE S = {}
      BY <3>1, PlacingStarts
    <3>2. CASE S # {}
      <4>1. S \ {LastOf(S)} \in SUBSET h
        OBVIOUS
      <4>2. g[S \ {LastOf(S)}] = Placing(S \ {LastOf(S)}, i)
        BY <4>1
      <4>3. Placing(S, i) = PlaceNext(Placing(S \ {LastOf(S)}, i), LastOf(S))
        BY <3>2, PlacingContinues
      <4> HIDE DEF g
      <4> QED
        BY <3>2, <4>2, <4>3
    <3> QED
      BY <3>1, <3>2
  <2> QED
    BY <2>1
<1> HIDE DEF g
<1>2. \E f : f = [S \in SUBSET h |->
                   IF S = {} THEN [index |-> i, to |-> <<>>]
                   ELSE PlaceNext(f[S \ {LastOf(S)}], LastOf(S))]
  BY <1>1
<1> DEFINE r == Rounds(h, i)
<1>3. r = [S \in SUBSET h |->
             IF S = {} THEN [index |-> i, to |-> <<>>]
             ELSE PlaceNext(r[S \ {LastOf(S)}], LastOf(S))]
  BY <1>2 DEF Rounds
<1> HIDE DEF r
<1> DEFINE T == {S \in SUBSET h : r[S] # Placing(S, i)}
<1>4. SUFFICES ASSUME T # {} PROVE FALSE
  BY DEF r
<1>5. PICK S \in T : \A B \in T : B \subseteq S => B = S
  <2>1. T \subseteq SUBSET h /\ IsFiniteSet(h)
    BY DEF Heap
  <2> HIDE DEF T
  <2> QED
    BY <1>4, <2>1, SmallestSubset
<1>6. S \in SUBSET h /\ r[S] # Placing(S, i)
  OBVIOUS
<1>7. S # {}
  <2>1. ASSUME S = {} PROVE r[S] = [index |-> i, to |-> <<>>]
    BY <1>3, <1>6, <2>1
  <2> QED
    BY <1>6, <2>1, PlacingStarts
<1>8. LastOf(S) \in S
  <2>1. Heap(S)
    BY <1>6, FS_Subset DEF Heap
  <2> QED
    BY <1>7, <2>1, LastIs
<1>9. S \ {LastOf(S)} \notin T
  <2>1. S \ {LastOf(S)} \subseteq S /\ S \ {LastOf(S)} # S
    BY <1>8
  <2> HIDE DEF T
  <2> QED
    BY <1>5, <2>1
<1>10. r[S \ {LastOf(S)}] = Placing(S \ {LastOf(S)}, i)
  BY <1>6, <1>9
<1>11. r[S] = PlaceNext(r[S \ {LastOf(S)}], LastOf(S))
  BY <1>3, <1>6, <1>7
<1>12. Placing(S, i) = PlaceNext(Placing(S \ {LastOf(S)}, i), LastOf(S))
  BY <1>6, <1>7, PlacingContinues
<1> QED
  BY <1>6, <1>10, <1>11, <1>12

(* The placement of a heap and the index it leaves are what the loop       *)
(* returns.                                                                *)
LEMMA LoopPlaces ==
  ASSUME NEW h, Heap(h), NEW i, Index(i)
  PROVE  /\ Placements(h, i) = {Loop(h, i).to}
         /\ Loop(h, i).index = Filled(Loop(h, i).to, h, i)
<1>1. PICK t : Placements(h, i) = {t}
  BY OnePlacement
<1>2. Placing(h, i) = [index |-> Filled(t, h, i), to |-> t]
  BY <1>1, PlacingIs
<1>3. Loop(h, i) = Placing(h, i)
  BY RoundsPlace DEF Loop
<1> QED
  BY <1>1, <1>2, <1>3

(* In every reachable state there is exactly one placement of what waits,  *)
(* and the loop of rebalance arrives at it and at the index it leaves: the *)
(* relation by which Rebalance gives every entry a node is the function    *)
(* the code computes, whatever the number of nodes and entries.            *)
THEOREM PlacementsAreLoops == Spec => []PlacementIsLoop
<1>1. IInv => PlacementIsLoop
  <2> DEFINE heap == nodes[NODE_ZERO]
             loop == Loop(heap, nodes_by_sz)
  <2> SUFFICES ASSUME IInv, nodes_by_sz # {}
               PROVE  /\ Placements(heap, nodes_by_sz) = {loop.to}
                      /\ loop.index = Filled(loop.to, heap, nodes_by_sz)
    BY DEF PlacementIsLoop, Placements, Filled
  <2>1. Heap(heap)
    BY DEF IInv, Shape, Heap
  <2>2. Index(nodes_by_sz)
    BY NodeAssumption DEF IInv, Shape, Indexed, Index
  <2> HIDE DEF heap
  <2> QED
    BY <2>1, <2>2, LoopPlaces
<1> QED
  BY <1>1, Inductive, PTL
=============================================================================
