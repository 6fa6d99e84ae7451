--------------------------- MODULE SchedulerBounds ---------------------------
(***************************************************************************)
(* Theorems about Scheduler that relate a state to earlier ones: what is   *)
(* lost, what overtakes what, and how far the sums of times can grow.      *)
(***************************************************************************)
EXTENDS SchedulerSteps

-----------------------------------------------------------------------------
(* A step loses a judgement only when it leaves nodes registered of which  *)
(* none is ready: rebalance drops the queue of NODE_ZERO then and only     *)
(* then.                                                                   *)
LEMMA LossOnlyStep ==
  ASSUME IInv, [Next]_vars
  PROVE  Lost' \subseteq Lost \/ (shared_key' = {} /\ DOMAIN nodes' # {NODE_ZERO})
<1>1. CASE Quiet
  BY <1>1 DEF Quiet, Lost, Waiting, Sent
<1>2. CASE \E h, o, free : Prepared(h, o) /\ Transfers(h, o, free)
  <2>1. PICK h, o, free : Prepared(h, o) /\ Transfers(h, o, free)
    BY <1>2
  <2>2. CASE \E f, served, top : Moved(h, f) /\ Hands(f, o, served, top)
    <3>1. PICK f, served, top : Moved(h, f) /\ Hands(f, o, served, top)
      BY <2>2
    <3>2. JudgesOf(h) \subseteq JudgesOf(nodes') \cup Sent'
      BY <3>1, NothingDisappears
    <3>3. JudgesOf(h) = JudgesOf(nodes) \cup (submitted' \ submitted)
      BY <2>1 DEF Prepared, SameWork
    <3>4. Sent \subseteq Sent'
      BY <3>1 DEF Hands, Sent
    <3>5. Waiting = JudgesOf(nodes) /\ Waiting' = JudgesOf(nodes')
      BY DEF Waiting, JudgesOf
    <3> QED
      BY <3>2, <3>3, <3>4, <3>5 DEF Lost
  <2>3. CASE Drops(h, o)
    BY <2>3 DEF Drops, Real
  <2> QED
    BY <2>1, <2>2, <2>3 DEF Transfers, Handover
<1> QED
  BY <1>1, <1>2, StepTransfers

(* As long as one node is ready, nodes may come and go and no judgement    *)
(* that waits is lost.                                                     *)
THEOREM LossNeedsNoReadyNode == Spec => LossOnlyWithoutReadyNode
<1>1. IInv /\ [Next]_vars
        => [Lost' \subseteq Lost \/ (shared_key' = {} /\ DOMAIN nodes' # {NODE_ZERO})]_vars
  BY LossOnlyStep
<1> QED
  BY <1>1, Inductive, PTL DEF Spec, LossOnlyWithoutReadyNode

-----------------------------------------------------------------------------
(* What joins the queue of a node that stays is not due before now.        *)
LEMMA JoinsLater ==
  ASSUME NEW h, NEW o, NEW f, Prepared(h, o), Moved(h, f),
         NEW n \in Real(h) \cap DOMAIN nodes, node_time[n] \in Nat,
         NEW x \in f[n], x \notin nodes[n]
  PROVE  x.deadline >= node_time[n]
<1>1. CASE x \in h[n]
  BY <1>1 DEF Prepared, Clocked
<1>2. CASE x \notin h[n]
  <2>1. n \in DOMAIN h /\ n # NODE_ZERO
    BY DEF Real
  <2>2. /\ x.deadline = node_time'[n] + x.time
        /\ \E a \in h[NODE_ZERO] : a.time = x.time
    BY <1>2, <2>1 DEF Moved
  <2>3. x.time \in Nat
    BY <2>2 DEF Prepared, Typed, EntrySet
  <2>4. node_time'[n] \in Nat /\ node_time'[n] >= node_time[n]
    BY DEF Prepared, Clocked
  <2> QED
    BY <2>2, <2>3, <2>4
<1> QED
  BY <1>1, <1>2

(* In one step: what is overdue at a node stays ahead of what reaches the  *)
(* node, in the queue and in what is sent.                                 *)
LEMMA NoOvertakeStep ==
  ASSUME IInv, [Next]_vars,
         NEW n \in (DOMAIN nodes \cap DOMAIN nodes') \ {NODE_ZERO},
         NEW e \in nodes[n], e.deadline < node_time[n]
  PROVE  /\ \A x \in nodes'[n] \ nodes[n] : Before(e, x)
         /\ e \in nodes'[n] => \A d \in dispatched' \ dispatched :
              d[2] = n => \E x \in nodes[n] : x.judge = d[1]
<1>1. CASE Quiet
  BY <1>1 DEF Quiet
<1>2. CASE \E h, o, free : Prepared(h, o) /\ Transfers(h, o, free)
  <2>1. PICK h, o, free : Prepared(h, o) /\ Transfers(h, o, free)
    BY <1>2
  <2>2. CASE \E f, served, top : Moved(h, f) /\ Hands(f, o, served, top)
    <3>1. PICK f, served, top : Moved(h, f) /\ Hands(f, o, served, top)
      BY <2>2
    <3>2. n \in Real(h) \cap DOMAIN nodes /\ n \in DOMAIN f /\ node_time[n] \in Nat
      BY <3>1, StateBefore DEF Hands, Moved, Real
    <3>3. \A x \in f[n] : x \notin nodes[n] => x.deadline >= node_time[n]
      BY <2>1, <3>1, <3>2, JoinsLater
    <3>4. nodes'[n] \subseteq f[n]
      BY <3>1, <3>2 DEF Hands
    <3>5. e.deadline \in Nat
      BY <3>2, StateBefore DEF Typed, EntrySet
    <3>6. \A x \in f[n] : x.deadline \in Int
      <4>1. \A x \in f[n] : x \in h[n] \/ x.deadline = node_time'[n] + x.time
        BY <3>1, <3>2 DEF Moved
      <4>2. \A x \in f[n] : x \notin h[n] => \E a \in h[NODE_ZERO] : a.time = x.time
        BY <3>1, <3>2 DEF Moved
      <4>3. node_time'[n] \in Nat
        BY <2>1, <3>2 DEF Prepared, Clocked
      <4>4. /\ \A x \in h[n] : x.deadline \in Nat
            /\ \A a \in h[NODE_ZERO] : a.time \in Nat
        BY <2>1, <3>2 DEF Prepared, Typed, EntrySet, Real
      <4> QED
        BY <4>1, <4>2, <4>3, <4>4
    <3>7. ASSUME NEW x \in nodes'[n] \ nodes[n]
          PROVE  Before(e, x)
      <4>1. x.deadline >= node_time[n] /\ x.deadline \in Int
        BY <3>3, <3>4, <3>6, <3>7
      <4>2. e.deadline < x.deadline
        BY <3>2, <3>5, <4>1
      <4> QED
        BY <4>2 DEF Before
    <3>8. ASSUME e \in nodes'[n], NEW d \in dispatched' \ dispatched, d[2] = n
          PROVE  \E x \in nodes[n] : x.judge = d[1]
      <4>1. n \in served /\ d[1] = top[n].judge
        BY <3>1, <3>8 DEF Hands
      <4>2. top[n] \in f[n] /\ e \in f[n] /\ e # top[n]
        BY <3>1, <3>4, <3>8, <4>1 DEF Hands, IsTop
      <4>3. Before(top[n], e)
        BY <3>1, <4>1, <4>2 DEF Hands, IsTop
      <4>4. top[n].deadline <= e.deadline /\ top[n].deadline \in Int
        BY <3>5, <3>6, <4>2, <4>3 DEF Before
      <4>5. ~(top[n].deadline >= node_time[n])
        BY <3>2, <3>5, <4>4
      <4>6. top[n] \in nodes[n]
        BY <3>3, <4>2, <4>5
      <4> QED
        BY <4>1, <4>6
    <3> QED
      BY <3>7, <3>8
  <2>3. CASE Drops(h, o)
    <3>1. n \in Real(h)
      BY <2>3 DEF Drops, Real
    <3>2. dispatched' = dispatched /\ nodes'[n] = h[n]
      BY <2>3, <3>1 DEF Drops
    <3>3. \A x \in h[n] \ nodes[n] : x.deadline >= node_time[n] /\ x.deadline \in Nat
      BY <2>1, <3>1 DEF Prepared, Clocked, Typed, Real, EntrySet
    <3>4. node_time[n] \in Nat /\ e.deadline \in Nat
      BY StateBefore DEF Typed, EntrySet
    <3>5. \A x \in nodes'[n] \ nodes[n] : e.deadline < x.deadline
      BY <3>2, <3>3, <3>4
    <3> QED
      BY <3>2, <3>5 DEF Before
  <2> QED
    BY <2>1, <2>2, <2>3 DEF Transfers, Handover
<1> QED
  BY <1>1, <1>2, StepTransfers

(* The order of the deadlines prevents starvation: once a judgement is     *)
(* overdue at its node, nothing that comes later is served before it.      *)
THEOREM OverdueIsNotOvertaken == Spec => NoOvertakeOnceDue
<1>1. IInv /\ [Next]_vars =>
        [\A n \in (DOMAIN nodes \cap DOMAIN nodes') \ {NODE_ZERO} :
           \A e \in nodes[n] : e.deadline < node_time[n] =>
             /\ \A f \in nodes'[n] \ nodes[n] : Before(e, f)
             /\ e \in nodes'[n] => \A d \in dispatched' \ dispatched :
                  d[2] = n => \E f \in nodes[n] : f.judge = d[1]]_vars
  BY NoOvertakeStep
<1> QED
  BY <1>1, Inductive, PTL DEF Spec, NoOvertakeOnceDue

-----------------------------------------------------------------------------
(* How far the clocks and sizes can grow.  b bounds the time of a single   *)
(* judgement; a clock grows by the time of a judgement that was handed to  *)
(* the node, and no judgement is handed out twice.                         *)

AtMost(b) == \A t \in TotalTime, w \in Weight : t * w <= b

HandedTo(n, handed, pushed) == {j \in pushed : <<j, n>> \in handed}

Short(heaps, b) == \A n \in DOMAIN heaps : \A e \in heaps[n] : e.time <= b

\* The clock of a node and what is outstanding there are work it was handed.
Paced(outstanding, clock, handed, pushed, b) ==
  \A n \in Real(outstanding) :
    clock[n] + outstanding[n][2] <= b * Cardinality(HandedTo(n, handed, pushed))

PacedInv ==
  /\ IsFiniteSet(submitted)
  /\ \A b \in Nat : AtMost(b) =>
       Short(nodes, b) /\ Paced(pending, node_time, dispatched, submitted, b)

(* Multiplication is monotonic. *)
LEMMA ProductGrows ==
  ASSUME NEW b \in Nat, NEW k \in Nat, NEW l \in Nat, k <= l
  PROVE  b * k \in Nat /\ b * k <= b * l
<1> DEFINE d == l - k
<1>1. d \in Nat /\ l = k + d
  OBVIOUS
<1> HIDE DEF d
<1>2. b * (k + d) = b * k + b * d
  BY <1>1
<1>3. b * k \in Nat /\ b * d \in Nat
  BY <1>1
<1> QED
  BY <1>1, <1>2, <1>3

(* What was handed to a node is finitely much and grows.                   *)
LEMMA HandedGrows ==
  ASSUME NEW n, NEW g, NEW h, g \subseteq h, NEW p, NEW q, p \subseteq q, IsFiniteSet(q)
  PROVE  /\ IsFiniteSet(HandedTo(n, g, p)) /\ IsFiniteSet(HandedTo(n, h, q))
         /\ Cardinality(HandedTo(n, g, p)) \in Nat
         /\ Cardinality(HandedTo(n, h, q)) \in Nat
         /\ Cardinality(HandedTo(n, g, p)) <= Cardinality(HandedTo(n, h, q))
<1>1. HandedTo(n, g, p) \subseteq HandedTo(n, h, q) /\ HandedTo(n, h, q) \subseteq q
  BY DEF HandedTo
<1>2. IsFiniteSet(HandedTo(n, h, q))
  BY <1>1, FS_Subset
<1>3. /\ IsFiniteSet(HandedTo(n, g, p))
      /\ Cardinality(HandedTo(n, g, p)) <= Cardinality(HandedTo(n, h, q))
  BY <1>1, <1>2, FS_Subset
<1> QED
  BY <1>2, <1>3, FS_CardinalityType

(* A step keeps the times and the pace within the bound.                   *)
LEMMA PacedStep ==
  ASSUME IInv, IInv', PacedInv, [Next]_vars
  PROVE  PacedInv'
<1>1. submitted \subseteq submitted' /\ IsFiniteSet(submitted')
  BY StepTransfers DEF PacedInv
<1>2. CASE Quiet
  BY <1>2 DEF Quiet, PacedInv, Short, Paced, HandedTo
<1>3. CASE \E h, o, free : Prepared(h, o) /\ Transfers(h, o, free)
  <2>1. PICK h, o, free : Prepared(h, o) /\ Transfers(h, o, free)
    BY <1>3
  <2> SUFFICES ASSUME NEW b \in Nat, AtMost(b)
               PROVE  /\ Short(nodes', b)
                      /\ Paced(pending', node_time', dispatched', submitted', b)
    BY <1>1 DEF PacedInv
  <2>2. Short(nodes, b) /\ Paced(pending, node_time, dispatched, submitted, b)
    BY DEF PacedInv
  <2>3. Short(h, b)
    BY <2>1, <2>2 DEF Prepared, SameWork, Short, AtMost
  <2>4. /\ DOMAIN o = DOMAIN h
        /\ \A n \in DOMAIN h : o[n][2] \in Nat
        /\ \A n \in DOMAIN h : \A e \in h[n] : e.time \in Nat
    BY <2>1 DEF Prepared, Typed, EntrySet, None
  <2>5. ASSUME NEW n \in Real(h)
        PROVE  /\ node_time'[n] \in Nat
               /\ node_time'[n] + o[n][2]
                    <= b * Cardinality(HandedTo(n, dispatched, submitted))
    <3>1. b * Cardinality(HandedTo(n, dispatched, submitted)) \in Nat
      <4>1. Cardinality(HandedTo(n, dispatched, submitted)) \in Nat
        BY <1>1, HandedGrows
      <4> QED
        BY <4>1, ProductGrows
    <3>2. CASE n \in DOMAIN nodes
      <4>1. /\ node_time'[n] \in Nat
            /\ node_time'[n] + o[n][2] = node_time[n] + pending[n][2]
        BY <2>1, <3>2 DEF Prepared, Clocked
      <4>2. n \in Real(pending)
        BY <2>5, <3>2, StateBefore DEF Real, Typed
      <4> QED
        BY <2>2, <4>1, <4>2 DEF Paced
    <3>3. CASE n \notin DOMAIN nodes
      <4>1. node_time'[n] = 0 /\ o[n] = None
        BY <2>1, <3>3 DEF Prepared, Clocked
      <4> QED
        BY <3>1, <4>1 DEF None
    <3> QED
      BY <3>2, <3>3
  <2>6. CASE \E f, served, top : Moved(h, f) /\ Hands(f, o, served, top)
    <3>1. PICK f, served, top : Moved(h, f) /\ Hands(f, o, served, top)
      BY <2>6
    <3>2. \A n \in DOMAIN f : \A e \in f[n] :
            /\ e.time \in Nat /\ e.time <= b
            /\ \E m \in DOMAIN h : \E a \in h[m] : a.judge = e.judge
      <4>1. DOMAIN f = DOMAIN h /\ NODE_ZERO \in DOMAIN h
        BY <2>1, <3>1 DEF Moved, Prepared, Typed
      <4>2. \A n \in DOMAIN f : \A e \in f[n] :
              e \in h[n] \/ \E a \in h[NODE_ZERO] : a.judge = e.judge /\ a.time = e.time
        BY <3>1, <4>1 DEF Moved
      <4> QED
        BY <2>3, <2>4, <4>1, <4>2 DEF Short
    <3>3. Short(nodes', b)
      <4>1. DOMAIN nodes' = DOMAIN f /\ \A n \in DOMAIN f : nodes'[n] \subseteq f[n]
        BY <3>1 DEF Hands
      <4> QED
        BY <3>2, <4>1 DEF Short
    <3>4. Real(pending') = Real(h) /\ dispatched \subseteq dispatched'
      BY <3>1 DEF Hands, Moved, Real
    <3>5. ASSUME NEW n \in Real(h)
          PROVE  node_time'[n] + pending'[n][2]
                   <= b * Cardinality(HandedTo(n, dispatched', submitted'))
      <4> DEFINE G == HandedTo(n, dispatched, submitted)
                 H == HandedTo(n, dispatched', submitted')
      <4>1. /\ IsFiniteSet(G) /\ Cardinality(G) \in Nat
            /\ IsFiniteSet(H) /\ Cardinality(H) \in Nat
            /\ Cardinality(G) <= Cardinality(H)
        BY <1>1, <3>4, HandedGrows
      <4>2. /\ b * Cardinality(G) \in Nat /\ b * Cardinality(H) \in Nat
            /\ b * Cardinality(G) <= b * Cardinality(H)
        BY <4>1, ProductGrows
      <4>3. CASE n \in served
        <5> DEFINE j == top[n].judge
        <5>1. /\ n \in DOMAIN f /\ top[n] \in f[n] /\ o[n] = None
              /\ pending'[n][2] = top[n].time /\ <<j, n>> \in dispatched'
          BY <3>1, <4>3 DEF Hands, IsTop, Real
        <5>2. j \in submitted' /\ j \notin G
          <6>1. PICK m \in DOMAIN h : \E a \in h[m] : a.judge = j
            BY <3>2, <5>1
          <6>2. \A d \in dispatched : d[1] # j
            BY <2>1, <6>1 DEF Prepared, Apart
          <6>3. <<j, n>> \in submitted' \X Node
            BY <5>1 DEF IInv, Histories
          <6> QED
            BY <6>2, <6>3 DEF HandedTo
        <5>3. G \cup {j} \subseteq H
          BY <1>1, <3>4, <5>1, <5>2 DEF HandedTo
        <5>4. IsFiniteSet(G \cup {j}) /\ Cardinality(G \cup {j}) = Cardinality(G) + 1
          BY <4>1, <5>2, FS_AddElement
        <5>5. Cardinality(G) + 1 <= Cardinality(H)
          BY <4>1, <5>3, <5>4, FS_Subset
        <5> HIDE DEF G, H, j
        <5>6. b * (Cardinality(G) + 1) <= b * Cardinality(H)
          BY <4>1, <5>5, ProductGrows
        <5>7. b * (Cardinality(G) + 1) = b * Cardinality(G) + b
          BY <4>1
        <5>8. node_time'[n] + 0 <= b * Cardinality(G) /\ node_time'[n] \in Nat
          BY <2>5, <5>1 DEF G, None
        <5>9. top[n].time \in Nat /\ top[n].time <= b
          BY <3>2, <5>1
        <5> QED
          BY <4>2, <5>1, <5>6, <5>7, <5>8, <5>9 DEF H
      <4>4. CASE n \notin served
        <5>1. pending'[n] = o[n] /\ o[n][2] \in Nat
          BY <2>4, <3>1, <4>4 DEF Hands, Moved, Real
        <5>2. node_time'[n] \in Nat /\ node_time'[n] + o[n][2] <= b * Cardinality(G)
          BY <2>5
        <5> HIDE DEF G, H
        <5> QED
          BY <4>2, <5>1, <5>2 DEF H
      <4> QED
        BY <4>3, <4>4
    <3> QED
      BY <3>3, <3>4, <3>5 DEF Paced
  <2>7. CASE Drops(h, o)
    <3>1. Short(nodes', b)
      <4>1. DOMAIN nodes' = DOMAIN h /\ \A n \in DOMAIN h : nodes'[n] \subseteq h[n]
        BY <2>7 DEF Drops, Real
      <4> QED
        BY <2>3, <4>1 DEF Short
    <3>2. pending' = o /\ Real(o) = Real(h) /\ dispatched' = dispatched
      BY <2>4, <2>7 DEF Drops, Real
    <3>3. ASSUME NEW n \in Real(h)
          PROVE  node_time'[n] + o[n][2]
                   <= b * Cardinality(HandedTo(n, dispatched', submitted'))
      <4> DEFINE G == HandedTo(n, dispatched, submitted)
                 H == HandedTo(n, dispatched', submitted')
      <4>1. /\ Cardinality(G) \in Nat /\ Cardinality(H) \in Nat
            /\ Cardinality(G) <= Cardinality(H)
        BY <1>1, <3>2, HandedGrows
      <4>2. /\ node_time'[n] \in Nat /\ o[n][2] \in Nat
            /\ node_time'[n] + o[n][2] <= b * Cardinality(G)
        BY <2>4, <2>5 DEF Real
      <4> HIDE DEF G, H
      <4>3. /\ b * Cardinality(G) \in Nat /\ b * Cardinality(H) \in Nat
            /\ b * Cardinality(G) <= b * Cardinality(H)
        BY <4>1, ProductGrows
      <4> QED
        BY <4>2, <4>3 DEF H
    <3> QED
      BY <3>1, <3>2, <3>3 DEF Paced
  <2> QED
    BY <2>1, <2>6, <2>7 DEF Transfers, Handover
<1> QED
  BY <1>2, <1>3, StepTransfers

(* At the start nothing is queued, handed out or done.                     *)
LEMMA PacedInit == Init => PacedInv
<1> SUFFICES ASSUME Init PROVE PacedInv
  OBVIOUS
<1>1. IsFiniteSet(submitted)
  BY FS_EmptySet DEF Init
<1>2. \A b \in Nat : Short(nodes, b)
  BY DEF Init, Short
<1>3. \A b \in Nat : Paced(pending, node_time, dispatched, submitted, b)
  BY DEF Init, Paced, Real
<1> QED
  BY <1>1, <1>2, <1>3 DEF PacedInv

(* A queue of finitely many short entries is short.                        *)
LEMMA ShortQueue ==
  ASSUME NEW g, IsFiniteSet(g), NEW b \in Nat, \A e \in g : e.time \in Nat /\ e.time <= b
  PROVE  Cardinality(g) \in Nat /\ TimeOf(g) <= b * Cardinality(g)
<1>1. Cells(g) \subseteq g \X (1 .. b)
  BY DEF Cells
<1>2. IsFiniteSet(1 .. b) /\ Cardinality(1 .. b) = b
  BY FS_Interval
<1>3. /\ IsFiniteSet(g \X (1 .. b))
      /\ Cardinality(g \X (1 .. b)) = Cardinality(g) * Cardinality(1 .. b)
  BY <1>2, FS_Product
<1>4. Cardinality(Cells(g)) <= Cardinality(g \X (1 .. b))
  BY <1>1, <1>3, FS_Subset
<1>5. Cardinality(g) \in Nat
  BY FS_CardinalityType
<1>6. Cardinality(g) * b = b * Cardinality(g)
  BY <1>5
<1>7. TimeOf(g) = Cardinality(Cells(g))
  BY CellsOf
<1> QED
  BY <1>2, <1>3, <1>4, <1>5, <1>6, <1>7

(* A queue holds as many judgements as it has entries.                     *)
LEMMA OneJudgeEach ==
  ASSUME NEW g, IsFiniteSet(g), \A e, f \in g : e.judge = f.judge => e = f
  PROVE  /\ IsFiniteSet({e.judge : e \in g})
         /\ Cardinality({e.judge : e \in g}) = Cardinality(g)
<1> DEFINE J == {e.judge : e \in g}
           F == [e \in g |-> e.judge]
<1>1. F \in [g -> J] /\ \A j \in J : \E e \in g : F[e] = j
  OBVIOUS
<1>2. \A e, f \in g : F[e] = F[f] => e = f
  OBVIOUS
<1> HIDE DEF J, F
<1>3. F \in Bijection(g, J)
  BY <1>1, <1>2, Fun_IsBij
<1>4. F \in Surjection(g, J)
  BY <1>3, Fun_BijectionProperties
<1>5. IsFiniteSet(J)
  BY <1>4, FS_Surjection
<1>6. Cardinality(J) = Cardinality(g)
  BY <1>3, <1>5, FS_Bijection DEF ExistsBijection
<1> QED
  BY <1>5, <1>6 DEF J

(* The judgements handed to a node and those queued there are different,   *)
(* and all of them have been submitted: their times together are bounded.  *)
LEMMA PacedWork ==
  ASSUME IInv, PacedInv, NEW b \in Nat, AtMost(b), NEW n \in Real(nodes)
  PROVE  node_time[n] + nodes_sz[n] <= b * Cardinality(submitted)
<1> DEFINE G == HandedTo(n, dispatched, submitted)
           J == {e.judge : e \in nodes[n]}
<1>1. /\ n \in DOMAIN nodes /\ IsFiniteSet(nodes[n]) /\ node_time[n] \in Nat
      /\ pending[n] \in (Judge \X Nat) \cup {None}
      /\ \A e \in nodes[n] : e.time \in Nat
      /\ Real(pending) = Real(nodes)
  BY DEF IInv, Shape, EntrySet, Real
<1>2. pending[n][2] \in Nat
  BY <1>1 DEF None
<1>3. nodes_sz[n] = pending[n][2] + TimeOf(nodes[n]) /\ TimeOf(nodes[n]) \in Nat
  BY <1>1, ShapeTimed DEF IInv, Accounted, Real
<1>4. node_time[n] + pending[n][2] <= b * Cardinality(G)
  BY <1>1 DEF PacedInv, Paced
<1>5. Cardinality(nodes[n]) \in Nat /\ TimeOf(nodes[n]) <= b * Cardinality(nodes[n])
  BY <1>1, ShortQueue DEF PacedInv, Short
<1>6. IsFiniteSet(J) /\ Cardinality(J) = Cardinality(nodes[n])
  BY <1>1, OneJudgeEach DEF IInv, Placed
<1>7. /\ G \subseteq submitted /\ J \subseteq submitted /\ G \cap J = {}
  <2>1. \A e \in nodes[n] : e.judge \in submitted /\ \A d \in dispatched : d[1] # e.judge
    BY <1>1 DEF IInv, Placed
  <2> QED
    BY <2>1 DEF HandedTo
<1> HIDE DEF G, J
<1>8. IsFiniteSet(submitted) /\ Cardinality(submitted) \in Nat
  BY FS_CardinalityType DEF PacedInv
<1>9. IsFiniteSet(G) /\ Cardinality(G) \in Nat /\ Cardinality(J) \in Nat
  BY <1>6, <1>7, <1>8, FS_Subset, FS_CardinalityType
<1>10. IsFiniteSet(G \cup J) /\ Cardinality(G \cup J) = Cardinality(G) + Cardinality(J)
  <2>1. Cardinality(G \cap J) = 0
    BY <1>7, FS_EmptySet
  <2> QED
    BY <1>6, <1>9, <2>1, FS_Union
<1>11. Cardinality(G) + Cardinality(J) <= Cardinality(submitted)
  BY <1>7, <1>8, <1>10, FS_Subset
<1>12. b * (Cardinality(G) + Cardinality(J)) <= b * Cardinality(submitted)
  BY <1>8, <1>9, <1>11, ProductGrows
<1>13. b * (Cardinality(G) + Cardinality(J)) = b * Cardinality(G) + b * Cardinality(J)
  BY <1>9
<1>14. /\ b * Cardinality(G) \in Nat /\ b * Cardinality(J) \in Nat
       /\ b * Cardinality(submitted) \in Nat
  BY <1>8, <1>9, ProductGrows
<1> QED
  BY <1>1, <1>2, <1>3, <1>4, <1>5, <1>6, <1>12, <1>13, <1>14

(* The clock and the size of a node, and with them every sum and deadline  *)
(* the handlers compute for it, stay within twice the longest time of a    *)
(* request for each request there was.                                     *)
THEOREM WorkIsBounded == Spec => []WorkBounded
<1>1. IInv /\ PacedInv => WorkBounded
  <2> SUFFICES ASSUME IInv, PacedInv, NEW limit \in TotalTime,
                      \A t \in TotalTime : t <= limit, NEW n \in DOMAIN nodes \ {NODE_ZERO}
               PROVE  node_time[n] + nodes_sz[n] <= 2 * limit * Cardinality(submitted)
    BY DEF WorkBounded
  <2> DEFINE b == 2 * limit
  <2>1. b \in Nat
    BY TimeAssumption
  <2>2. AtMost(b)
    BY TimeAssumption DEF AtMost, Weight
  <2> HIDE DEF b
  <2>3. node_time[n] + nodes_sz[n] <= b * Cardinality(submitted)
    BY <2>1, <2>2, PacedWork DEF Real
  <2> QED
    BY <2>3 DEF b
<1>2. IInv /\ IInv' /\ PacedInv /\ [Next]_vars => PacedInv'
  BY PacedStep
<1> QED
  BY <1>1, <1>2, PacedInit, Inductive, PTL DEF Spec
=============================================================================
