---------------------------- MODULE SchedulerSteps ----------------------------
(***************************************************************************)
(* What the handlers of Scheduler have in common, for every set of nodes,  *)
(* judgements and times.  A handler first prepares queues and outstanding  *)
(* judgements from those of the state before; then entries of NODE_ZERO    *)
(* move to ready nodes and some free nodes are served, or, when nodes are  *)
(* registered and none is ready, what waits at NODE_ZERO is dropped.  The  *)
(* modules that extend this one draw their conclusions from the two halves *)
(* and never look at a handler again.                                      *)
(***************************************************************************)
EXTENDS SchedulerProofs

JudgesOf(heaps) == {e.judge : e \in UNION {heaps[n] : n \in DOMAIN heaps}}

Real(heaps) == DOMAIN heaps \ {NODE_ZERO}

-----------------------------------------------------------------------------
(* The first half of a handler: queues h and outstanding judgements o.     *)

Typed(h, o) ==
  /\ NODE_ZERO \in DOMAIN h
  /\ \A n \in DOMAIN h : h[n] \subseteq EntrySet
  /\ o \in [DOMAIN h -> (Judge \X Nat) \cup {None}]

\* No judgement is queued twice, none that is queued has been sent.
Apart(h) ==
  /\ \A m, n \in DOMAIN h : \A e \in h[m], f \in h[n] :
       e.judge = f.judge => m = n /\ e = f
  /\ \A n \in DOMAIN h : \A e \in h[n] : \A d \in dispatched : d[1] # e.judge

\* What is queued was queued before or is the judgement that is pushed.
SameWork(h) ==
  /\ JudgesOf(h) = JudgesOf(nodes) \cup (submitted' \ submitted)
  /\ \A n \in DOMAIN h : \A e \in h[n] :
       \/ \E m \in DOMAIN nodes : \E a \in nodes[m] : a.time = e.time
       \/ \E t \in TotalTime, w \in Weight : e.time = t * w

\* A node that stays keeps its queue, what joins it is due later than now,
\* and the time it has outstanding passes over to its clock as a whole.
Clocked(h, o) ==
  /\ \A n \in Real(h) \cap DOMAIN nodes :
       /\ nodes[n] \subseteq h[n]
       /\ \A e \in h[n] \ nodes[n] : e.deadline >= node_time[n]
       /\ node_time'[n] \in Nat /\ node_time'[n] >= node_time[n]
       /\ node_time'[n] + o[n][2] = node_time[n] + pending[n][2]
  /\ \A n \in Real(h) \ DOMAIN nodes : node_time'[n] = 0 /\ o[n] = None

Prepared(h, o) == Typed(h, o) /\ Apart(h) /\ SameWork(h) /\ Clocked(h, o)

-----------------------------------------------------------------------------
(* The second half: the queues become f, then the nodes of served get the  *)
(* first entry each.                                                       *)

Moved(h, f) ==
  /\ DOMAIN f = DOMAIN h
  /\ \A n \in Real(h) : h[n] \subseteq f[n]
  /\ \A n \in DOMAIN h : \A e \in f[n] :
       \/ e \in h[n]
       \/ /\ n # NODE_ZERO
          /\ \E a \in h[NODE_ZERO] : a.judge = e.judge /\ a.time = e.time
          /\ e.deadline = node_time'[n] + e.time
  /\ \A e \in h[NODE_ZERO] : \E n \in DOMAIN h : \E a \in f[n] : a.judge = e.judge

Hands(f, o, served, top) ==
  /\ served \subseteq Real(f)
  /\ \A n \in served : IsTop(top[n], f[n]) /\ o[n] = None /\ n \in shared_key'
  /\ DOMAIN nodes' = DOMAIN f /\ DOMAIN pending' = DOMAIN f
  /\ \A n \in served : /\ nodes'[n] = f[n] \ {top[n]}
                       /\ pending'[n] = <<top[n].judge, top[n].time>>
  /\ \A n \in DOMAIN f \ served : nodes'[n] = f[n] /\ pending'[n] = o[n]
  /\ dispatched' = dispatched \cup {<<top[n].judge, n>> : n \in served}

Drops(h, o) ==
  /\ DOMAIN nodes' = DOMAIN h /\ nodes'[NODE_ZERO] = {}
  /\ \A n \in Real(h) : nodes'[n] = h[n]
  /\ pending' = o /\ dispatched' = dispatched
  /\ shared_key' = {} /\ Real(h) # {}

Handover(h, o, free) ==
  \E f, served, top : served \subseteq free /\ Moved(h, f) /\ Hands(f, o, served, top)

Transfers(h, o, free) == Handover(h, o, free) \/ Drops(h, o)

-----------------------------------------------------------------------------
(* Serve is a second half, whoever else moved entries before it.           *)
LEMMA ServeHandsOver ==
  ASSUME NEW h, NEW o, NEW f, NEW S, NEW free, Typed(h, o), Moved(h, f),
         S \subseteq free, S \subseteq Real(h),
         \A n \in S : o[n] = None /\ (f[n] # {} => n \in shared_key'),
         Serve(S, f, o)
  PROVE  Handover(h, o, free)
<1> DEFINE served == {n \in S : f[n] # {}}
<1>1. PICK top \in [served -> UNION {f[n] : n \in served}] :
        /\ \A n \in served : IsTop(top[n], f[n])
        /\ nodes' = [n \in DOMAIN f |->
                       IF n \in served THEN f[n] \ {top[n]} ELSE f[n]]
        /\ pending' = [n \in DOMAIN o |->
                         IF n \in served THEN <<top[n].judge, top[n].time>> ELSE o[n]]
        /\ dispatched' = dispatched \cup
                           {<<top[n].judge, n>> : n \in served \cap shared_key'}
  BY DEF Serve
<1>2. /\ served \subseteq Real(f) /\ served \subseteq free
      /\ \A n \in served : o[n] = None /\ n \in shared_key'
      /\ DOMAIN o = DOMAIN f
  BY DEF Moved, Typed, Real
<1> HIDE DEF served
<1>3. served \subseteq DOMAIN f /\ served \cap shared_key' = served
  BY <1>2 DEF Real
<1>4. Hands(f, o, served, top)
  BY <1>1, <1>2, <1>3 DEF Hands
<1> QED
  BY <1>2, <1>4 DEF Handover

(* A queue that nothing has moved into or out of.                          *)
LEMMA UnmovedQueues ==
  ASSUME NEW h, NODE_ZERO \in DOMAIN h
  PROVE  Moved(h, h)
BY DEF Moved, Real

(* rebalance is a second half, on an index that holds the ready nodes.     *)
LEMMA RebalanceTransfers ==
  ASSUME NEW h, NEW o, NEW s, NEW i, Typed(h, o),
         Ready(i) = shared_key', shared_key' \subseteq Real(h),
         Rebalance(h, o, s, i)
  PROVE  Transfers(h, o, Real(h))
<1>1. CASE nodes' = h /\ pending' = o /\ UNCHANGED dispatched
  <2>1. Hands(h, o, {}, <<>>)
    BY <1>1 DEF Hands, Typed
  <2> QED
    BY <2>1, UnmovedQueues DEF Transfers, Handover, Typed
<1>2. CASE /\ Cardinality(DOMAIN h) > 1 /\ i = {}
           /\ nodes' = [h EXCEPT ![NODE_ZERO] = {}] /\ pending' = o
           /\ UNCHANGED dispatched
  <2>1. DOMAIN h # {NODE_ZERO}
    BY <1>2, FS_Singleton
  <2>2. Real(h) # {}
    BY <2>1 DEF Real, Typed
  <2>3. shared_key' = {}
    BY <1>2 DEF Ready
  <2> QED
    BY <1>2, <2>2, <2>3 DEF Transfers, Drops, Real, Typed
<1>3. CASE \E to \in [h[NODE_ZERO] -> Ready(i)] :
             LET given(n) == {e \in h[NODE_ZERO] : to[e] = n}
                 used     == {to[e] : e \in h[NODE_ZERO]}
                 filled   == [n \in DOMAIN h |->
                                IF n = NODE_ZERO THEN {}
                                ELSE h[n] \cup
                                     {Entry(node_time'[n] + e.time, e.time, e.judge)
                                        : e \in given(n)}]
             IN  Serve({n \in used : o[n] = None}, filled, o)
  <2>1. PICK to \in [h[NODE_ZERO] -> Ready(i)] :
          LET given(n) == {e \in h[NODE_ZERO] : to[e] = n}
              used     == {to[e] : e \in h[NODE_ZERO]}
              filled   == [n \in DOMAIN h |->
                             IF n = NODE_ZERO THEN {}
                             ELSE h[n] \cup
                                  {Entry(node_time'[n] + e.time, e.time, e.judge)
                                     : e \in given(n)}]
          IN  Serve({n \in used : o[n] = None}, filled, o)
    BY <1>3
  <2> DEFINE S == {n \in {to[e] : e \in h[NODE_ZERO]} : o[n] = None}
             f == [n \in DOMAIN h |->
                     IF n = NODE_ZERO THEN {}
                     ELSE h[n] \cup
                          {Entry(node_time'[n] + e.time, e.time, e.judge)
                             : e \in {e \in h[NODE_ZERO] : to[e] = n}}]
  <2>2. Serve(S, f, o)
    BY <2>1, Zenon
  <2>3. /\ \A e \in h[NODE_ZERO] : to[e] \in Real(h)
        /\ S \subseteq Real(h) /\ S \subseteq shared_key' /\ \A n \in S : o[n] = None
    OBVIOUS
  <2>4. /\ DOMAIN f = DOMAIN h /\ f[NODE_ZERO] = {}
        /\ \A n \in Real(h) :
             f[n] = h[n] \cup {Entry(node_time'[n] + e.time, e.time, e.judge)
                                 : e \in {e \in h[NODE_ZERO] : to[e] = n}}
    BY DEF Typed, Real
  <2> HIDE DEF f, S
  <2>5. \A n \in DOMAIN h : \A e \in f[n] :
          \/ e \in h[n]
          \/ /\ n # NODE_ZERO
             /\ \E a \in h[NODE_ZERO] : a.judge = e.judge /\ a.time = e.time
             /\ e.deadline = node_time'[n] + e.time
    BY <2>4 DEF Entry, Real
  <2>6. \A e \in h[NODE_ZERO] : \E n \in DOMAIN h : \E a \in f[n] : a.judge = e.judge
    <3> SUFFICES ASSUME NEW e \in h[NODE_ZERO]
                 PROVE  \E n \in DOMAIN h : \E a \in f[n] : a.judge = e.judge
      OBVIOUS
    <3> DEFINE n == to[e]
               a == Entry(node_time'[n] + e.time, e.time, e.judge)
    <3>1. n \in Real(h) /\ n \in DOMAIN h
      BY <2>3 DEF Real
    <3>2. a \in f[n]
      BY <2>4, <3>1
    <3>3. a.judge = e.judge
      BY DEF Entry
    <3> QED
      BY <3>1, <3>2, <3>3
  <2>7. Moved(h, f)
    BY <2>4, <2>5, <2>6 DEF Moved
  <2> QED
    BY <2>2, <2>3, <2>7, ServeHandsOver DEF Transfers
<1> QED
  BY <1>1, <1>2, <1>3 DEF Rebalance

(* What moves and is served is queued or sent afterwards.                  *)
LEMMA NothingDisappears ==
  ASSUME NEW h, NEW o, NEW f, NEW served, NEW top, Moved(h, f), Hands(f, o, served, top)
  PROVE  JudgesOf(h) \subseteq JudgesOf(nodes') \cup Sent'
<1> SUFFICES ASSUME NEW m \in DOMAIN h, NEW x \in h[m]
             PROVE  x.judge \in JudgesOf(nodes') \cup Sent'
  BY DEF JudgesOf
<1>1. PICK n \in DOMAIN f : \E a \in f[n] : a.judge = x.judge
  BY DEF Moved, Real
<1>2. PICK a \in f[n] : a.judge = x.judge
  BY <1>1
<1>3. CASE n \in served /\ a = top[n]
  <2>1. <<a.judge, n>> \in dispatched'
    BY <1>3 DEF Hands
  <2> QED
    BY <1>2, <2>1 DEF Sent
<1>4. CASE ~(n \in served /\ a = top[n])
  <2>1. n \in DOMAIN nodes' /\ a \in nodes'[n]
    BY <1>4 DEF Hands
  <2> QED
    BY <1>2, <2>1 DEF JudgesOf
<1> QED
  BY <1>3, <1>4

-----------------------------------------------------------------------------
(* Each handler but promote is such a first half followed by such a second *)
(* half.                                                                   *)

\* What the nodes are busy with: the judgement each of them has outstanding.
Busy(o) == [n \in Node |-> IF n \in DOMAIN o THEN o[n][1] ELSE 0]

(* What the invariant says of the queues before a handler.                 *)
LEMMA StateBefore ==
  ASSUME IInv
  PROVE  /\ Typed(nodes, pending) /\ Apart(nodes)
         /\ DOMAIN node_time = DOMAIN nodes /\ \A n \in DOMAIN nodes : node_time[n] \in Nat
         /\ Ready(nodes_by_sz) = shared_key /\ shared_key \subseteq Real(nodes)
         /\ Real(nodes) = DOMAIN nodes \cap Node
<1>1. Typed(nodes, pending)
  BY DEF IInv, Shape, Typed
<1>2. Apart(nodes)
  BY DEF IInv, Placed, Apart
<1>3. Ready(nodes_by_sz) = shared_key
  BY IndexedSizes DEF IInv
<1>4. shared_key \subseteq Real(nodes)
  BY DEF IInv, Indexed, Shape, Real
<1>5. Real(nodes) = DOMAIN nodes \cap Node
  BY NodeAssumption DEF IInv, Shape, Real, NODE_ZERO
<1> QED
  BY <1>1, <1>2, <1>3, <1>4, <1>5 DEF IInv, Shape

(* Queues that are left as they are, with time passing over to the clock.  *)
LEMMA SamePrepared ==
  ASSUME IInv, NEW o, submitted' = submitted,
         o \in [DOMAIN nodes -> (Judge \X Nat) \cup {None}],
         \A n \in Real(nodes) : /\ node_time'[n] \in Nat /\ node_time'[n] >= node_time[n]
                                /\ node_time'[n] + o[n][2] = node_time[n] + pending[n][2]
  PROVE  Prepared(nodes, o)
<1>1. Typed(nodes, o) /\ Apart(nodes)
  BY StateBefore DEF Typed
<1>2. SameWork(nodes)
  BY DEF SameWork
<1>3. Clocked(nodes, o)
  BY DEF Clocked, Real
<1> QED
  BY <1>1, <1>2, <1>3 DEF Prepared

(* register: one more queue, empty, with the clock at zero.                *)
LEMMA RegisterSteps ==
  ASSUME IInv, NEW n \in Node, Register(n)
  PROVE  \E h, o : /\ Prepared(h, o) /\ Transfers(h, o, Real(h))
                   /\ Real(h) = Real(nodes) \cup {n} /\ Busy(o) = Busy(pending)
<1> DEFINE h == Insert(nodes, n, {})
           o == Insert(pending, n, None)
           s == Insert(nodes_sz, n, 0)
<1>1. /\ n \notin DOMAIN nodes /\ n # NODE_ZERO /\ NODE_ZERO \in DOMAIN nodes
      /\ DOMAIN pending = DOMAIN nodes /\ DOMAIN node_time = DOMAIN nodes
      /\ submitted' = submitted /\ shared_key' = shared_key
      /\ node_time' = Insert(node_time, n, 0)
      /\ Rebalance(h, o, s, nodes_by_sz)
  BY NodeAssumption DEF Register, IInv, Shape, NODE_ZERO
<1>2. /\ DOMAIN h = DOMAIN nodes \cup {n} /\ h[n] = {}
      /\ DOMAIN o = DOMAIN nodes \cup {n} /\ o[n] = None
      /\ node_time'[n] = 0
      /\ \A m \in DOMAIN nodes : /\ h[m] = nodes[m] /\ o[m] = pending[m]
                                 /\ node_time'[m] = node_time[m]
      /\ o = [m \in DOMAIN h |-> o[m]]
  BY <1>1 DEF Insert
<1> HIDE DEF h, o, s
<1>3. Typed(h, o)
  <2>1. \A m \in DOMAIN h : o[m] \in (Judge \X Nat) \cup {None}
    BY <1>2, StateBefore DEF Typed
  <2>2. \A m \in DOMAIN h : h[m] \subseteq EntrySet
    BY <1>2, StateBefore DEF Typed
  <2> QED
    BY <1>1, <1>2, <2>1, <2>2 DEF Typed
<1>4. Apart(h)
  BY <1>2, StateBefore DEF Apart
<1>5. SameWork(h)
  <2>1. UNION {h[m] : m \in DOMAIN h} = UNION {nodes[m] : m \in DOMAIN nodes}
    BY <1>2
  <2>2. \A m \in DOMAIN h : \A e \in h[m] : m \in DOMAIN nodes /\ e \in nodes[m]
    BY <1>2
  <2> QED
    BY <1>1, <2>1, <2>2 DEF SameWork, JudgesOf
<1>6. Real(h) = Real(nodes) \cup {n}
  BY <1>1, <1>2 DEF Real
<1>7. Clocked(h, o)
  <2>1. \A m \in DOMAIN nodes : node_time[m] \in Nat
    BY StateBefore
  <2> QED
    BY <1>1, <1>2, <1>6, <2>1 DEF Clocked, Real
<1>8. Transfers(h, o, Real(h))
  BY <1>1, <1>3, <1>6, StateBefore, RebalanceTransfers
<1>9. Busy(o) = Busy(pending)
  BY <1>1, <1>2 DEF Busy, None
<1> QED
  BY <1>3, <1>4, <1>5, <1>6, <1>7, <1>8, <1>9 DEF Prepared

(* A rebalance on its own prepares nothing.                                *)
LEMMA ForceRebalanceSteps ==
  ASSUME IInv, ForceRebalance
  PROVE  Prepared(nodes, pending) /\ Transfers(nodes, pending, Real(nodes))
<1>1. /\ submitted' = submitted /\ shared_key' = shared_key /\ node_time' = node_time
      /\ Rebalance(nodes, pending, nodes_sz, nodes_by_sz)
  BY DEF ForceRebalance
<1>2. Typed(nodes, pending) /\ \A n \in Real(nodes) : node_time[n] \in Nat
  BY StateBefore DEF Real
<1>3. Prepared(nodes, pending)
  <2>1. \A n \in Real(nodes) : node_time[n] >= node_time[n]
    BY <1>2
  <2> QED
    BY <1>1, <1>2, <2>1, SamePrepared DEF Typed
<1>4. Transfers(nodes, pending, Real(nodes))
  BY <1>1, <1>2, StateBefore, RebalanceTransfers
<1> QED
  BY <1>3, <1>4

(* touch: what the node has outstanding is done, and only this node is     *)
(* served.                                                                 *)
LEMMA TouchSteps ==
  ASSUME IInv, NEW n \in Node, Touch(n)
  PROVE  \E o : /\ Prepared(nodes, o) /\ Handover(nodes, o, {n})
                /\ n \in Real(nodes) /\ Busy(o) = [Busy(pending) EXCEPT ![n] = 0]
<1> DEFINE o == [pending EXCEPT ![n] = None]
<1>1. /\ n \in DOMAIN nodes /\ n \in Real(nodes)
      /\ submitted' = submitted /\ shared_key' = shared_key
      /\ pending \in [DOMAIN nodes -> (Judge \X Nat) \cup {None}]
      /\ DOMAIN node_time = DOMAIN nodes
  BY StateBefore DEF Touch, Typed
<1>2. /\ DOMAIN o = DOMAIN nodes /\ o[n] = None
      /\ \A m \in DOMAIN nodes \ {n} : o[m] = pending[m]
      /\ o \in [DOMAIN nodes -> (Judge \X Nat) \cup {None}]
  BY <1>1
<1>3. /\ Serve({n}, nodes, o)
      /\ node_time'[n] = node_time[n] + pending[n][2]
      /\ \A m \in DOMAIN nodes \ {n} : node_time'[m] = node_time[m]
  <2>1. CASE pending[n] = None
    <3>1. o = pending
      BY <1>1, <2>1
    <3>2. Serve({n}, nodes, pending) /\ node_time' = node_time
      BY <2>1 DEF Touch, None
    <3>3. node_time[n] \in Nat
      BY <1>1, StateBefore
    <3> QED
      BY <2>1, <3>1, <3>2, <3>3 DEF None
  <2>2. CASE pending[n] # None
    <3>1. pending[n][1] # 0
      BY <1>1, <2>2, JudgeAssumption
    <3> QED
      BY <1>1, <3>1 DEF Touch
  <2> QED
    BY <2>1, <2>2
<1> HIDE DEF o
<1>4. Prepared(nodes, o)
  <2>1. \A m \in Real(nodes) : /\ m \in DOMAIN nodes /\ node_time[m] \in Nat
                               /\ pending[m][2] \in Nat
    BY <1>1, StateBefore DEF Real, None
  <2>2. \A m \in Real(nodes) :
          /\ node_time'[m] \in Nat /\ node_time'[m] >= node_time[m]
          /\ node_time'[m] + o[m][2] = node_time[m] + pending[m][2]
    BY <1>2, <1>3, <2>1 DEF None
  <2> QED
    BY <1>1, <1>2, <2>2, SamePrepared
<1>5. Handover(nodes, o, {n})
  <2>1. \A m \in {n} : o[m] = None /\ (nodes[m] # {} => m \in shared_key')
    BY <1>1, <1>2 DEF IInv, Keyed, Real
  <2>2. Typed(nodes, o) /\ Moved(nodes, nodes)
    BY <1>4, UnmovedQueues DEF Prepared, Typed
  <2> DEFINE S == {n}
  <2>3. S \subseteq Real(nodes) /\ Serve(S, nodes, o)
    BY <1>1, <1>3
  <2> HIDE DEF S
  <2>4. Handover(nodes, o, S)
    BY <2>1, <2>2, <2>3, ServeHandsOver DEF S
  <2> QED
    BY <2>4 DEF S
<1>6. Busy(o) = [Busy(pending) EXCEPT ![n] = 0]
  <2>1. o[n][1] = 0 /\ DOMAIN pending = DOMAIN nodes
    BY <1>1, <1>2 DEF None
  <2>2. \A m \in Node : (IF m \in DOMAIN o THEN o[m][1] ELSE 0)
                          = [Busy(pending) EXCEPT ![n] = 0][m]
    BY <1>1, <1>2, <2>1 DEF Busy
  <2> QED
    BY <2>2 DEF Busy
<1> QED
  BY <1>1, <1>4, <1>5, <1>6

(* unregister: the queue of the node joins that of NODE_ZERO.              *)
LEMMA UnregisterSteps ==
  ASSUME IInv, NEW n \in Node, Unregister(n)
  PROVE  \E h, o : /\ Prepared(h, o) /\ Transfers(h, o, Real(h))
                   /\ n \in Real(nodes) /\ Real(h) = Real(nodes) \ {n}
                   /\ Busy(o) = [Busy(pending) EXCEPT ![n] = 0]
<1> DEFINE Q == Requeued(nodes[n])
           h == [Without(nodes, n) EXCEPT ![NODE_ZERO] = @ \cup Q]
           o == Without(pending, n)
           s == [Without(nodes_sz, n) EXCEPT ![NODE_ZERO] = @ + TimeOf(nodes[n])]
           i == nodes_by_sz \ {<<nodes_sz[n], n>>}
<1>1. /\ n \in DOMAIN nodes /\ n \in Real(nodes) /\ n # NODE_ZERO
      /\ NODE_ZERO \in DOMAIN nodes
      /\ DOMAIN pending = DOMAIN nodes /\ DOMAIN node_time = DOMAIN nodes
      /\ submitted' = submitted /\ shared_key' = shared_key \ {n}
      /\ node_time' = Without(node_time, n)
      /\ Rebalance(h, o, s, i)
  BY StateBefore DEF Unregister, Requeued, Typed, Real
<1>2. /\ DOMAIN h = DOMAIN nodes \ {n} /\ DOMAIN o = DOMAIN nodes \ {n}
      /\ h[NODE_ZERO] = nodes[NODE_ZERO] \cup Q
      /\ \A m \in DOMAIN h \ {NODE_ZERO} : h[m] = nodes[m]
      /\ \A m \in DOMAIN h : o[m] = pending[m] /\ node_time'[m] = node_time[m]
      /\ o = [m \in DOMAIN h |-> o[m]]
  BY <1>1 DEF Without, Restrict
<1>3. \A m \in DOMAIN nodes : nodes[m] \subseteq EntrySet
  BY StateBefore DEF Typed
<1>4. /\ Q \subseteq EntrySet
      /\ \A x \in Q : \E e \in nodes[n] : e.judge = x.judge /\ e.time = x.time
      /\ \A e \in nodes[n] : \E x \in Q : x.judge = e.judge
      /\ \A x, y \in Q : x.judge = y.judge => x = y
  <2>1. \A e, f \in nodes[n] : e.judge = f.judge => e = f
    BY <1>1, StateBefore DEF Apart
  <2>2. \A e \in nodes[n] : e.time \in Nat /\ e.judge \in Judge
    BY <1>1, <1>3 DEF EntrySet
  <2>3. \A e \in nodes[n] : /\ Entry(0, e.time, e.judge) \in EntrySet
                            /\ Entry(0, e.time, e.judge).judge = e.judge
                            /\ Entry(0, e.time, e.judge).time = e.time
    BY <2>2 DEF Entry, EntrySet
  <2>4. /\ \A x \in Q : \E e \in nodes[n] : x = Entry(0, e.time, e.judge)
        /\ \A e \in nodes[n] : Entry(0, e.time, e.judge) \in Q
    BY DEF Requeued
  <2> HIDE DEF Q
  <2> QED
    BY <2>1, <2>3, <2>4
<1> HIDE DEF Q, h, o, s
<1>5. Ready(i) = shared_key' /\ shared_key' \subseteq Real(h)
  <2>1. Ready(i) = shared_key \ {n}
    <3>1. \A p \in nodes_by_sz : p[2] = n => p = <<nodes_sz[n], n>>
      BY DEF IInv, Indexed
    <3>2. i = {p \in nodes_by_sz : p[2] # n}
      BY <3>1
    <3> QED
      BY <3>2, StateBefore DEF Ready
  <2> QED
    BY <1>1, <1>2, <2>1, StateBefore DEF Real
<1> HIDE DEF i
<1>6. Typed(h, o)
  <2>1. \A m \in DOMAIN h : h[m] \subseteq EntrySet
    BY <1>1, <1>2, <1>3, <1>4
  <2>2. \A m \in DOMAIN h : o[m] \in (Judge \X Nat) \cup {None}
    BY <1>1, <1>2, StateBefore DEF Typed
  <2> QED
    BY <1>1, <1>2, <2>1, <2>2 DEF Typed
<1>7. \A m \in DOMAIN h : \A x \in h[m] :
        \/ m \in DOMAIN nodes /\ x \in nodes[m]
        \/ m = NODE_ZERO /\ x \in Q
  BY <1>1, <1>2
<1>8. Apart(h)
  <2>1. Apart(nodes)
    BY StateBefore
  <2>2. ASSUME NEW l \in DOMAIN h, NEW m \in DOMAIN h, NEW x \in h[l], NEW y \in h[m],
               x.judge = y.judge
        PROVE  l = m /\ x = y
    <3>1. CASE l = NODE_ZERO /\ x \in Q /\ m = NODE_ZERO /\ y \in Q
      BY <1>4, <2>2, <3>1
    <3>2. CASE x \in nodes[l] /\ y \in nodes[m]
      BY <1>2, <2>1, <2>2, <3>2 DEF Apart
    <3>3. CASE l = NODE_ZERO /\ x \in Q /\ y \in nodes[m]
      BY <1>1, <1>2, <1>4, <2>1, <2>2, <3>3 DEF Apart
    <3>4. CASE m = NODE_ZERO /\ y \in Q /\ x \in nodes[l]
      BY <1>1, <1>2, <1>4, <2>1, <2>2, <3>4 DEF Apart
    <3> QED
      BY <1>7, <3>1, <3>2, <3>3, <3>4
  <2>3. \A m \in DOMAIN h : \A x \in h[m] : \A d \in dispatched : d[1] # x.judge
    BY <1>1, <1>4, <1>7, <2>1 DEF Apart
  <2> QED
    BY <2>2, <2>3 DEF Apart
<1>9. SameWork(h)
  <2>1. JudgesOf(h) \subseteq JudgesOf(nodes)
    BY <1>1, <1>4, <1>7 DEF JudgesOf
  <2>2. JudgesOf(nodes) \subseteq JudgesOf(h)
    <3> SUFFICES ASSUME NEW m \in DOMAIN nodes, NEW e \in nodes[m]
                 PROVE  \E l \in DOMAIN h : \E x \in h[l] : x.judge = e.judge
      BY DEF JudgesOf
    <3>1. CASE m = n
      BY <1>1, <1>2, <1>4, <3>1
    <3>2. CASE m # n
      BY <1>1, <1>2, <3>2
    <3> QED
      BY <3>1, <3>2
  <2>3. \A m \in DOMAIN h : \A x \in h[m] :
          \E l \in DOMAIN nodes : \E a \in nodes[l] : a.time = x.time
    BY <1>1, <1>4, <1>7
  <2> QED
    BY <1>1, <2>1, <2>2, <2>3 DEF SameWork
<1>10. Real(h) = Real(nodes) \ {n}
  BY <1>1, <1>2 DEF Real
<1>11. Clocked(h, o)
  <2>1. \A m \in DOMAIN nodes : node_time[m] \in Nat
    BY StateBefore
  <2> QED
    BY <1>1, <1>2, <1>10, <2>1 DEF Clocked, Real
<1>12. Transfers(h, o, Real(h))
  BY <1>1, <1>5, <1>6, RebalanceTransfers
<1>13. Busy(o) = [Busy(pending) EXCEPT ![n] = 0]
  BY <1>1, <1>2 DEF Busy
<1> QED
  BY <1>1, <1>6, <1>8, <1>9, <1>10, <1>11, <1>12, <1>13 DEF Prepared

(* A new judgement in the queue of one node is prepared.                   *)
LEMMA JoinPrepared ==
  ASSUME IInv, NEW n \in DOMAIN nodes, NEW x \in EntrySet,
         x.judge \notin submitted, submitted' = submitted \cup {x.judge},
         node_time' = node_time,
         n # NODE_ZERO => x.deadline >= node_time[n],
         \E t \in TotalTime, w \in Weight : x.time = t * w
  PROVE  /\ Prepared(Joined(nodes, n, x), pending)
         /\ Real(Joined(nodes, n, x)) = Real(nodes)
<1> DEFINE h == Joined(nodes, n, x)
<1>1. /\ DOMAIN h = DOMAIN nodes /\ h[n] = nodes[n] \cup {x}
      /\ \A m \in DOMAIN nodes \ {n} : h[m] = nodes[m]
  BY DEF Joined
<1>2. /\ \A m \in DOMAIN nodes : \A e \in nodes[m] : e.judge # x.judge
      /\ \A d \in dispatched : d[1] # x.judge
  BY DEF IInv, Placed, Histories
<1> HIDE DEF h
<1>3. Typed(h, pending)
  BY <1>1, StateBefore DEF Typed
<1>4. Apart(h)
  <2>1. Apart(nodes)
    BY StateBefore
  <2>2. \A m \in DOMAIN h : \A e \in h[m] : e \in nodes[m] \/ (m = n /\ e = x)
    BY <1>1
  <2> QED
    BY <1>1, <1>2, <2>1, <2>2 DEF Apart
<1>5. SameWork(h)
  <2>1. JudgesOf(h) = JudgesOf(nodes) \cup {x.judge}
    <3>1. \A m \in DOMAIN h : \A e \in h[m] : e \in nodes[m] \/ e = x
      BY <1>1
    <3>2. \A m \in DOMAIN nodes : nodes[m] \subseteq h[m]
      BY <1>1
    <3>3. JudgesOf(h) \subseteq JudgesOf(nodes) \cup {x.judge}
      BY <1>1, <3>1 DEF JudgesOf
    <3>4. JudgesOf(nodes) \subseteq JudgesOf(h)
      BY <1>1, <3>2 DEF JudgesOf
    <3>5. x.judge \in JudgesOf(h)
      BY <1>1 DEF JudgesOf
    <3> QED
      BY <3>3, <3>4, <3>5
  <2>2. submitted' \ submitted = {x.judge}
    OBVIOUS
  <2>3. \A m \in DOMAIN h : \A e \in h[m] :
          \/ \E l \in DOMAIN nodes : \E a \in nodes[l] : a.time = e.time
          \/ \E t \in TotalTime, w \in Weight : e.time = t * w
    <3>1. \A m \in DOMAIN h : \A e \in h[m] : e \in nodes[m] \/ e = x
      BY <1>1
    <3> QED
      BY <1>1, <3>1
  <2> QED
    BY <2>1, <2>2, <2>3 DEF SameWork
<1>6. Clocked(h, pending)
  <2>1. \A m \in DOMAIN nodes : node_time'[m] = node_time[m] /\ node_time'[m] \in Nat
    BY StateBefore
  <2>2. \A m \in DOMAIN nodes : nodes[m] \subseteq h[m] /\ h[m] \ nodes[m] \subseteq {x}
    BY <1>1
  <2>3. \A m \in Real(nodes) : \A e \in h[m] \ nodes[m] : e.deadline >= node_time[m]
    BY <1>1, <2>2 DEF Real
  <2>4. Real(h) = Real(nodes) /\ Real(nodes) \subseteq DOMAIN nodes
    BY <1>1 DEF Real
  <2>5. \A m \in Real(nodes) :
          /\ node_time'[m] >= node_time[m]
          /\ node_time'[m] + pending[m][2] = node_time[m] + pending[m][2]
    BY <2>1, <2>4
  <2>6. Real(h) \cap DOMAIN nodes = Real(nodes) /\ Real(h) \ DOMAIN nodes = {}
    BY <2>4
  <2>7. \A m \in Real(nodes) : m \in DOMAIN nodes
    BY <2>4
  <2> QED
    BY <2>1, <2>2, <2>3, <2>5, <2>6, <2>7 DEF Clocked
<1> QED
  BY <1>1, <1>3, <1>4, <1>5, <1>6 DEF Prepared, Real, h

(* push: the judgement joins the queue of NODE_ZERO, or that of a node     *)
(* which is served if it is free.                                          *)
LEMMA PushSteps ==
  ASSUME IInv, NEW j \in Judge, NEW total_time \in TotalTime, NEW weight \in Weight,
         Push(j, total_time, weight)
  PROVE  \E h : /\ Prepared(h, pending) /\ Handover(h, pending, Real(h))
                /\ Real(h) = Real(nodes)
<1> DEFINE time == total_time * weight
<1>1. time \in Nat
  BY TimeAssumption DEF Weight
<1>2. /\ j \notin submitted /\ submitted' = submitted \cup {j}
      /\ shared_key' = shared_key /\ node_time' = node_time
      /\ NODE_ZERO \in DOMAIN nodes
  BY StateBefore DEF Push, Typed
<1>3. \A e : e = Entry(e.deadline, e.time, e.judge) /\ e.judge = j /\ e.time = time
               => \E t \in TotalTime, w \in Weight : e.time = t * w
  OBVIOUS
<1>4. CASE /\ nodes' = [nodes EXCEPT ![NODE_ZERO] = @ \cup {Entry(0, time, j)}]
           /\ UNCHANGED <<pending, dispatched, running>>
  <2> DEFINE x == Entry(0, time, j)
             h == Joined(nodes, NODE_ZERO, x)
  <2>1. x \in EntrySet /\ x.judge = j /\ x.time = time
    BY <1>1 DEF Entry, EntrySet
  <2>2. nodes' = h
    BY <1>4 DEF Joined
  <2> HIDE DEF x
  <2>3. Prepared(h, pending) /\ Real(h) = Real(nodes)
    BY <1>2, <2>1, JoinPrepared
  <2> HIDE DEF h
  <2>4. Hands(h, pending, {}, <<>>)
    BY <1>4, <2>2, <2>3 DEF Hands, Prepared, Typed
  <2>5. Handover(h, pending, Real(h))
    BY <2>3, <2>4, UnmovedQueues DEF Handover, Prepared, Typed
  <2> QED
    BY <2>3, <2>5
<1>5. CASE \E p \in nodes_by_sz :
              LET id == p[2]
              IN  Serve(IF pending[id] = None THEN {id} ELSE {},
                        [nodes EXCEPT ![id] =
                           @ \cup {Entry(node_time[id] + time, time, j)}],
                        pending)
  <2>1. PICK p \in nodes_by_sz :
              LET id == p[2]
              IN  Serve(IF pending[id] = None THEN {id} ELSE {},
                        [nodes EXCEPT ![id] =
                           @ \cup {Entry(node_time[id] + time, time, j)}],
                        pending)
    BY <1>5
  <2> DEFINE id == p[2]
             x  == Entry(node_time[id] + time, time, j)
             h  == Joined(nodes, id, x)
             S  == IF pending[id] = None THEN {id} ELSE {}
  <2>2. id \in shared_key /\ id \in Real(nodes) /\ id \in DOMAIN nodes /\ node_time[id] \in Nat
    BY StateBefore DEF Ready, Real
  <2>3. /\ x \in EntrySet /\ x.judge = j /\ x.time = time
        /\ x.deadline >= node_time[id]
    BY <1>1, <2>2 DEF Entry, EntrySet
  <2>4. Serve(S, h, pending)
    BY <2>1 DEF Joined
  <2> HIDE DEF x, id
  <2>5. Prepared(h, pending) /\ Real(h) = Real(nodes)
    BY <1>2, <2>2, <2>3, JoinPrepared
  <2>6. S \subseteq Real(h) /\ \A n \in S : pending[n] = None /\ n \in shared_key'
    BY <1>2, <2>2, <2>5
  <2> HIDE DEF h, S
  <2>7. Typed(h, pending) /\ Moved(h, h)
    BY <2>5, UnmovedQueues DEF Prepared, Typed
  <2>8. Handover(h, pending, Real(h))
    BY <2>4, <2>6, <2>7, ServeHandsOver
  <2> QED
    BY <2>5, <2>8
<1> QED
  BY <1>4, <1>5 DEF Push

\* promote, a touch that panics and a stutter leave all this as it is.
Quiet == UNCHANGED <<nodes, pending, node_time, dispatched, submitted>>

(* Every step of the scheduler is made of the two halves, or is quiet.     *)
LEMMA StepTransfers ==
  ASSUME IInv, [Next]_vars
  PROVE  /\ submitted \subseteq submitted'
         /\ IsFiniteSet(submitted) => IsFiniteSet(submitted')
         /\ Quiet \/ \E h, o, free : Prepared(h, o) /\ Transfers(h, o, free)
<1>1. CASE \E n \in Node : Register(n)
  BY <1>1, RegisterSteps DEF Register
<1>2. CASE \E n \in Node : Promote(n)
  BY <1>2 DEF Promote, Quiet
<1>3. CASE \E n \in Node : Touch(n)
  BY <1>3, TouchSteps DEF Touch, Transfers
<1>4. CASE \E n \in Node : TouchMissing(n)
  BY <1>4 DEF TouchMissing, Quiet
<1>5. CASE \E n \in Node : Unregister(n)
  BY <1>5, UnregisterSteps DEF Unregister
<1>6. CASE \E j \in Judge, t \in TotalTime, w \in Weight : Push(j, t, w)
  <2>1. PICK j \in Judge, t \in TotalTime, w \in Weight : Push(j, t, w)
    BY <1>6
  <2>2. submitted' = submitted \cup {j}
    BY <2>1 DEF Push
  <2> QED
    BY <2>1, <2>2, PushSteps, FS_AddElement DEF Transfers
<1>7. CASE ForceRebalance
  BY <1>7, ForceRebalanceSteps DEF ForceRebalance
<1>8. CASE UNCHANGED vars
  BY <1>8 DEF vars, Quiet
<1> QED
  BY <1>1, <1>2, <1>3, <1>4, <1>5, <1>6, <1>7, <1>8 DEF Next
=============================================================================
