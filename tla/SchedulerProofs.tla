--------------------------- MODULE SchedulerProofs ---------------------------
(***************************************************************************)
(* Theorems about Scheduler, for every set of nodes, judgements and        *)
(* times.                                                                  *)
(***************************************************************************)
EXTENDS Scheduler, FiniteSetTheorems, FunctionTheorems, TLAPS

-----------------------------------------------------------------------------
(* The times of a heap add up.                                             *)

Timed(heap) == IsFiniteSet(heap) /\ \A e \in heap : e.time \in Nat
Cells(heap) == UNION {{e} \X (1 .. e.time) : e \in heap}

(* The time of a queue is the number of its cells, one per entry and ms.   *)
LEMMA CellsOf ==
  ASSUME NEW heap
  PROVE  /\ TimeOf(heap) = Cardinality(Cells(heap))
         /\ \A c : c \in Cells(heap) <=> \E e \in heap : c \in {e} \X (1 .. e.time)
BY DEF TimeOf, Cells

(* Finitely many finite times make a finite sum. *)
LEMMA CellsFinite ==
  ASSUME NEW heap, Timed(heap)
  PROVE  IsFiniteSet(Cells(heap)) /\ TimeOf(heap) \in Nat
<1> DEFINE F == [e \in heap |-> {e} \X (1 .. e.time)]
           R == {{e} \X (1 .. e.time) : e \in heap}
<1>1. F \in Surjection(heap, R)
  BY Fun_IsSurj
<1>2. IsFiniteSet(R)
  BY <1>1, FS_Surjection DEF Timed
<1>3. \A r \in R : IsFiniteSet(r)
  <2>1. SUFFICES ASSUME NEW e \in heap PROVE IsFiniteSet({e} \X (1 .. e.time))
    OBVIOUS
  <2>2. IsFiniteSet({e})
    BY FS_Singleton
  <2>3. IsFiniteSet(1 .. e.time)
    BY FS_Interval DEF Timed
  <2> QED
    BY <2>2, <2>3, FS_Product
<1>4. IsFiniteSet(UNION R)
  BY <1>2, <1>3, FS_UNION
<1> QED
  BY <1>4, CellsOf, FS_CardinalityType DEF Cells

(* An empty queue takes no time. *)
LEMMA TimeOfEmpty == TimeOf({}) = 0
<1>1. Cells({}) = {}
  BY DEF Cells
<1> QED
  BY <1>1, CellsOf, FS_EmptySet

(* One entry takes its own time. *)
LEMMA TimeOfOne ==
  ASSUME NEW e, e.time \in Nat
  PROVE  TimeOf({e}) = e.time
<1>1. Cells({e}) = {e} \X (1 .. e.time)
  BY DEF Cells
<1>2. IsFiniteSet({e}) /\ Cardinality({e}) = 1
  BY FS_Singleton
<1>3. IsFiniteSet(1 .. e.time) /\ Cardinality(1 .. e.time) = e.time
  BY FS_Interval
<1>4. Cardinality({e} \X (1 .. e.time)) = Cardinality({e}) * Cardinality(1 .. e.time)
  BY <1>2, <1>3, FS_Product
<1>5. Cardinality({e} \X (1 .. e.time)) = e.time
  BY <1>2, <1>3, <1>4
<1>6. TimeOf({e}) = Cardinality(Cells({e}))
  BY CellsOf
<1> QED
  BY <1>1, <1>5, <1>6

(* The times of disjoint queues add. *)
LEMMA TimeOfUnion ==
  ASSUME NEW g, NEW h, Timed(g), Timed(h), g \cap h = {}
  PROVE  TimeOf(g \cup h) = TimeOf(g) + TimeOf(h)
<1>1. Cells(g \cup h) = Cells(g) \cup Cells(h)
  BY DEF Cells
<1>2. Cells(g) \cap Cells(h) = {}
  BY DEF Cells
<1>3. /\ IsFiniteSet(Cells(g)) /\ Cardinality(Cells(g)) \in Nat
      /\ IsFiniteSet(Cells(h)) /\ Cardinality(Cells(h)) \in Nat
  BY CellsFinite, FS_CardinalityType
<1>4. Cardinality(Cells(g) \cup Cells(h))
        = Cardinality(Cells(g)) + Cardinality(Cells(h)) - Cardinality(Cells(g) \cap Cells(h))
  BY <1>3, FS_Union
<1>5. Cardinality(Cells(g) \cap Cells(h)) = 0
  BY <1>2, FS_EmptySet
<1>6. Cardinality(Cells(g) \cup Cells(h)) = Cardinality(Cells(g)) + Cardinality(Cells(h))
  BY <1>3, <1>4, <1>5
<1>7. /\ TimeOf(g) = Cardinality(Cells(g)) /\ TimeOf(h) = Cardinality(Cells(h))
      /\ TimeOf(g \cup h) = Cardinality(Cells(g \cup h))
  BY CellsOf
<1> QED
  BY <1>1, <1>6, <1>7

(* An entry that joins a queue adds its time, one that leaves takes it. *)
LEMMA TimeOfJoin ==
  ASSUME NEW h, NEW e, Timed(h), e.time \in Nat, e \notin h
  PROVE  Timed(h \cup {e}) /\ TimeOf(h \cup {e}) = TimeOf(h) + e.time
<1>1. Timed({e})
  BY FS_Singleton DEF Timed
<1>2. TimeOf(h \cup {e}) = TimeOf(h) + TimeOf({e})
  BY <1>1, TimeOfUnion
<1> QED
  BY <1>2, TimeOfOne, FS_AddElement DEF Timed

(* An entry that leaves a queue takes its time with it.                    *)
LEMMA TimeOfLeave ==
  ASSUME NEW h, NEW e, Timed(h), e \in h
  PROVE  /\ Timed(h \ {e}) /\ e.time \in Nat
         /\ TimeOf(h) = TimeOf(h \ {e}) + e.time
<1>1. Timed(h \ {e}) /\ e.time \in Nat
  BY FS_RemoveElement DEF Timed
<1>2. h = (h \ {e}) \cup {e} /\ e \notin h \ {e}
  OBVIOUS
<1> QED
  BY <1>1, <1>2, TimeOfJoin

(* Queues with the same times take the same time. *)
LEMMA TimeOfCopy ==
  ASSUME NEW g, NEW h, Timed(g), NEW F \in Bijection(g, h),
         \A e \in g : F[e].time = e.time
  PROVE  Timed(h) /\ TimeOf(h) = TimeOf(g)
<1>0. /\ F \in [g -> h] /\ F \in Surjection(g, h)
      /\ \A a, b \in g : F[a] = F[b] => a = b
      /\ \A t \in h : \E s \in g : F[s] = t
  BY Fun_BijectionProperties
<1>1. Timed(h)
  <2>1. IsFiniteSet(h)
    BY <1>0, FS_Surjection DEF Timed
  <2> QED
    BY <1>0, <2>1 DEF Timed
<1> DEFINE G == [c \in Cells(g) |-> <<F[c[1]], c[2]>>]
<1>2. \A c \in Cells(g) : /\ c = <<c[1], c[2]>> /\ c[1] \in g
                          /\ c[2] \in 1 .. c[1].time
  BY DEF Cells
<1>3. \A e \in h : \A k \in 1 .. e.time : <<e, k>> \in Cells(h)
  BY DEF Cells
<1>4. G \in [Cells(g) -> Cells(h)]
  BY <1>0, <1>2, <1>3
<1>5. \A a, b \in Cells(g) : G[a] = G[b] => a = b
  BY <1>0, <1>2
<1>6. \A t \in Cells(h) : \E s \in Cells(g) : G[s] = t
  <2> SUFFICES ASSUME NEW t \in Cells(h) PROVE \E s \in Cells(g) : G[s] = t
    OBVIOUS
  <2>1. t = <<t[1], t[2]>> /\ t[1] \in h /\ t[2] \in 1 .. t[1].time
    BY DEF Cells
  <2>2. PICK e \in g : F[e] = t[1]
    BY <1>0, <2>1
  <2>3. <<e, t[2]>> \in Cells(g)
    BY <2>1, <2>2 DEF Cells
  <2> QED
    BY <2>1, <2>2, <2>3
<1>7. G \in Bijection(Cells(g), Cells(h))
  BY <1>4, <1>5, <1>6, Fun_IsBij
<1>8. Cardinality(Cells(h)) = Cardinality(Cells(g))
  BY <1>7, CellsFinite, FS_Bijection DEF ExistsBijection
<1> QED
  BY <1>1, <1>8, CellsOf

-----------------------------------------------------------------------------
(* The inductive invariant, as predicates on the maps a handler works on:  *)
(* heaps, outstanding, sizes, clock and index stand for nodes, pending,    *)
(* nodes_sz, node_time and nodes_by_sz, whole or between two steps of the  *)
(* handler.                                                                *)

Shape(heaps, outstanding, sizes, clock) ==
  /\ NODE_ZERO \in DOMAIN heaps /\ DOMAIN heaps \subseteq Node \cup {NODE_ZERO}
  /\ heaps \in [DOMAIN heaps -> SUBSET EntrySet]
  /\ \A n \in DOMAIN heaps : IsFiniteSet(heaps[n])
  /\ outstanding \in [DOMAIN heaps -> (Judge \X Nat) \cup {None}]
  /\ sizes \in [DOMAIN heaps -> Nat]
  /\ clock \in [DOMAIN heaps -> Nat]

Indexed(sizes, keys, index) ==
  /\ keys \subseteq DOMAIN sizes \ {NODE_ZERO}
  /\ \A p \in index : p[2] \in keys /\ p = <<sizes[p[2]], p[2]>>
  /\ \A n \in keys : <<sizes[n], n>> \in index

Accounted(heaps, outstanding, sizes) ==
  /\ \A n \in DOMAIN heaps \ {NODE_ZERO} :
       sizes[n] = outstanding[n][2] + TimeOf(heaps[n])
  /\ sizes[NODE_ZERO] >= TimeOf(heaps[NODE_ZERO])

Keyed(heaps, outstanding, keys) ==
  \A n \in DOMAIN heaps \ {NODE_ZERO} :
    heaps[n] # {} \/ outstanding[n] # None => n \in keys

NoneIdle(heaps, outstanding) ==
  \A n \in DOMAIN heaps \ {NODE_ZERO} : heaps[n] # {} => outstanding[n] # None

Placed(heaps, outstanding, handed, pushed) ==
  /\ \A m, n \in DOMAIN heaps : \A e \in heaps[m], f \in heaps[n] :
       e.judge = f.judge => m = n /\ e = f
  /\ \A n \in DOMAIN heaps : \A e \in heaps[n] :
       e.judge \in pushed /\ \A d \in handed : d[1] # e.judge
  /\ \A c, d \in handed : c[1] = d[1] => c[2] = d[2]
  /\ \A n \in DOMAIN heaps :
       outstanding[n] # None => <<outstanding[n][1], n>> \in handed

Bounded(heaps, sizes, clock) ==
  \A n \in DOMAIN heaps \ {NODE_ZERO} : \A e \in heaps[n] :
    /\ e.time <= e.deadline /\ e.deadline - e.time <= clock[n]
    /\ e.deadline <= clock[n] + sizes[n]

Histories ==
  /\ shared_key \subseteq Node
  /\ dispatched \subseteq submitted \X Node /\ submitted \subseteq Judge
  /\ running \in BOOLEAN

IInv ==
  /\ Shape(nodes, pending, nodes_sz, node_time)
  /\ Indexed(nodes_sz, shared_key, nodes_by_sz)
  /\ Accounted(nodes, pending, nodes_sz)
  /\ Keyed(nodes, pending, shared_key)
  /\ NoneIdle(nodes, pending)
  /\ Placed(nodes, pending, dispatched, submitted)
  /\ Bounded(nodes, nodes_sz, node_time)
  /\ Histories

(* The queues of maps of the right shape are finite and have a time.       *)
LEMMA ShapeTimed ==
  ASSUME NEW h, NEW o, NEW s, NEW c, Shape(h, o, s, c), NEW n \in DOMAIN h
  PROVE  Timed(h[n]) /\ TimeOf(h[n]) \in Nat
<1>1. Timed(h[n])
  BY DEF Shape, Timed, EntrySet
<1> QED
  BY <1>1, CellsFinite

-----------------------------------------------------------------------------
(* Serve keeps every part of the invariant, and the actor running, when    *)
(* the nodes it serves have nothing outstanding and are the only ones that *)
(* may have something to catch up with.                                    *)
LEMMA ServeEffect ==
  ASSUME NEW S, NEW h, NEW o, NEW s, NEW c,
         Shape(h, o, s, c), Accounted(h, o, s), Bounded(h, s, c),
         Keyed(h, o, shared_key'),
         Placed(h, o, dispatched, submitted'),
         dispatched \subseteq submitted' \X Node, shared_key' \subseteq Node,
         S \subseteq DOMAIN h \ {NODE_ZERO}, \A n \in S : o[n] = None,
         \A n \in DOMAIN h \ ({NODE_ZERO} \cup S) : h[n] # {} => o[n] # None,
         Serve(S, h, o)
  PROVE  /\ DOMAIN nodes' = DOMAIN h
         /\ Shape(nodes', pending', s, c)
         /\ Accounted(nodes', pending', s)
         /\ Keyed(nodes', pending', shared_key')
         /\ NoneIdle(nodes', pending')
         /\ Placed(nodes', pending', dispatched', submitted')
         /\ Bounded(nodes', s, c)
         /\ dispatched' \subseteq submitted' \X Node
         /\ running'
<1> DEFINE served == {n \in S : h[n] # {}}
<1>1. PICK top \in [served -> UNION {h[n] : n \in served}] :
        /\ \A n \in served : IsTop(top[n], h[n])
        /\ nodes' = [n \in DOMAIN h |->
                       IF n \in served THEN h[n] \ {top[n]} ELSE h[n]]
        /\ pending' = [n \in DOMAIN o |->
                         IF n \in served THEN <<top[n].judge, top[n].time>> ELSE o[n]]
        /\ dispatched' = dispatched \cup
                           {<<top[n].judge, n>> : n \in served \cap shared_key'}
        /\ running' = (served \subseteq shared_key')
  BY DEF Serve
<1> HIDE DEF served
<1>2. served \subseteq DOMAIN h \ {NODE_ZERO} /\ served \subseteq S
  BY DEF served
<1>3. \A n \in served : n \in shared_key' /\ n \in Node
  BY DEF served, Keyed
<1>4. \A n \in served : /\ top[n] \in h[n] /\ o[n] = None
                        /\ top[n].judge \in Judge /\ top[n].time \in Nat
  BY <1>1, <1>2 DEF IsTop, Shape, EntrySet
<1>5. DOMAIN nodes' = DOMAIN h /\ DOMAIN pending' = DOMAIN h
  BY <1>1 DEF Shape
<1>6. /\ \A n \in served : nodes'[n] = h[n] \ {top[n]}
      /\ \A n \in DOMAIN h \ served : nodes'[n] = h[n]
  BY <1>1, <1>2
<1>7. /\ \A n \in served : pending'[n] = <<top[n].judge, top[n].time>>
      /\ \A n \in DOMAIN h \ served : pending'[n] = o[n]
  BY <1>1, <1>2, <1>5 DEF Shape
<1>8. dispatched' = dispatched \cup {<<top[n].judge, n>> : n \in served}
  BY <1>1, <1>3
<1>9. running'
  BY <1>1, <1>3
<1>10. Shape(nodes', pending', s, c)
  <2>1. \A n \in DOMAIN h : nodes'[n] \in SUBSET EntrySet /\ IsFiniteSet(nodes'[n])
    <3>1. \A n \in DOMAIN h : h[n] \in SUBSET EntrySet /\ IsFiniteSet(h[n])
      BY DEF Shape
    <3>2. \A n \in served : IsFiniteSet(h[n] \ {top[n]})
      BY <1>2, <1>4, TimeOfLeave, ShapeTimed, Zenon DEF Timed
    <3> QED
      BY <1>2, <1>6, <3>1, <3>2
  <2>2. \A n \in DOMAIN h : pending'[n] \in (Judge \X Nat) \cup {None}
    <3>1. \A n \in DOMAIN h : o[n] \in (Judge \X Nat) \cup {None}
      BY DEF Shape
    <3>2. \A n \in served : <<top[n].judge, top[n].time>> \in Judge \X Nat
      BY <1>4
    <3>3. \A n \in served : pending'[n] \in Judge \X Nat
      BY <1>7, <3>2
    <3> QED
      BY <1>7, <3>1, <3>3
  <2> QED
    BY <1>1, <1>5, <2>1, <2>2 DEF Shape
<1>11. Accounted(nodes', pending', s)
  <2>1. SUFFICES ASSUME NEW n \in served
                 PROVE  s[n] = pending'[n][2] + TimeOf(nodes'[n])
    BY <1>2, <1>5, <1>6, <1>7 DEF Accounted, Shape
  <2>2. Timed(h[n])
    BY <1>2, ShapeTimed
  <2>3. TimeOf(h[n]) = TimeOf(nodes'[n]) + top[n].time
    <3>1. TimeOf(h[n]) = TimeOf(h[n] \ {top[n]}) + top[n].time
      BY <1>4, <2>2, TimeOfLeave, Zenon
    <3> QED
      BY <1>6, <3>1, Zenon
  <2>4. TimeOf(nodes'[n]) \in Nat
    BY <1>2, <1>5, <1>10, ShapeTimed
  <2>5. s[n] = 0 + TimeOf(h[n])
    BY <1>2, <1>4 DEF Accounted, None
  <2> QED
    BY <1>4, <1>7, <2>3, <2>4, <2>5
<1>12. Keyed(nodes', pending', shared_key')
  BY <1>3, <1>5, <1>6, <1>7 DEF Keyed
<1>13. \A n \in served : pending'[n] # None
  BY <1>4, <1>7, JudgeAssumption DEF None
<1>14. NoneIdle(nodes', pending')
  BY <1>5, <1>6, <1>7, <1>13 DEF NoneIdle, served
<1>15. Placed(nodes', pending', dispatched', submitted')
  <2>1. \A n \in DOMAIN nodes' : nodes'[n] \subseteq h[n]
    BY <1>5, <1>6
  <2>2. \A m, n \in DOMAIN nodes' : \A e \in nodes'[m], f \in nodes'[n] :
          e.judge = f.judge => m = n /\ e = f
    BY <1>5, <2>1 DEF Placed
  <2>3. \A n \in DOMAIN nodes' : \A e \in nodes'[n] :
          e.judge \in submitted' /\ \A d \in dispatched' : d[1] # e.judge
    <3> SUFFICES ASSUME NEW n \in DOMAIN nodes', NEW e \in nodes'[n]
                 PROVE  e.judge \in submitted' /\ \A d \in dispatched' : d[1] # e.judge
      OBVIOUS
    <3>1. e.judge \in submitted' /\ \A d \in dispatched : d[1] # e.judge
      BY <1>5, <2>1 DEF Placed
    <3>2. \A m \in served : top[m].judge # e.judge
      BY <1>2, <1>4, <1>5, <1>6, <2>1 DEF Placed
    <3> QED
      BY <1>8, <3>1, <3>2
  <2>4. \A c1, d1 \in dispatched' : c1[1] = d1[1] => c1[2] = d1[2]
    <3>1. \A n \in served : \A d \in dispatched : d[1] # top[n].judge
      BY <1>2, <1>4 DEF Placed
    <3>2. \A m, n \in served : top[m].judge = top[n].judge => m = n
      BY <1>2, <1>4 DEF Placed
    <3>3. \A c1, d1 \in dispatched : c1[1] = d1[1] => c1[2] = d1[2]
      BY DEF Placed
    <3> QED
      BY <1>8, <3>1, <3>2, <3>3
  <2>5. \A n \in DOMAIN nodes' :
          pending'[n] # None => <<pending'[n][1], n>> \in dispatched'
    <3> SUFFICES ASSUME NEW n \in DOMAIN h, pending'[n] # None
                 PROVE  <<pending'[n][1], n>> \in dispatched'
      BY <1>5
    <3>1. CASE n \in served
      <4>1. pending'[n][1] = top[n].judge
        BY <1>7, <3>1
      <4> QED
        BY <1>8, <3>1, <4>1
    <3>2. CASE n \notin served
      BY <1>7, <1>8, <3>2 DEF Placed
    <3> QED
      BY <3>1, <3>2
  <2> QED
    BY <2>2, <2>3, <2>4, <2>5 DEF Placed
<1>16. Bounded(nodes', s, c)
  BY <1>5, <1>6 DEF Bounded
<1>17. dispatched' \subseteq submitted' \X Node
  <2>1. \A n \in served : top[n].judge \in submitted'
    BY <1>2, <1>4 DEF Placed
  <2> QED
    BY <1>3, <1>8, <2>1
<1> QED
  BY <1>5, <1>9, <1>10, <1>11, <1>12, <1>14, <1>15, <1>16, <1>17

-----------------------------------------------------------------------------
(* Rebalance keeps every part of the invariant.                            *)

(* Entries that get new deadlines keep their judgements and their times. *)
Redated(g, now) == {Entry(now + e.time, e.time, e.judge) : e \in g}

(* What is in a queue of redated entries.                                  *)
LEMMA RedatedEntries ==
  ASSUME NEW g, NEW now \in Nat, IsFiniteSet(g), g \subseteq EntrySet,
         \A e, f \in g : e.judge = f.judge => e = f
  PROVE  /\ Redated(g, now) \subseteq EntrySet
         /\ \A x \in Redated(g, now) : /\ \E e \in g : e.judge = x.judge /\ e.time = x.time
                                       /\ x.deadline = now + x.time
         /\ \A x, y \in Redated(g, now) : x.judge = y.judge => x = y
         /\ Timed(g) /\ Timed(Redated(g, now))
         /\ TimeOf(Redated(g, now)) = TimeOf(g)
<1> DEFINE F == [e \in g |-> Entry(now + e.time, e.time, e.judge)]
<1>1. \A e \in g : /\ e.time \in Nat /\ e.judge \in Judge
                   /\ now + e.time \in Nat
  BY DEF EntrySet
<1>2. \A e \in g : /\ F[e] \in EntrySet /\ F[e].time = e.time /\ F[e].judge = e.judge
                   /\ F[e].deadline = now + e.time
  BY <1>1 DEF EntrySet, Entry
<1>3. F \in [g -> Redated(g, now)] /\ \A x \in Redated(g, now) : \E e \in g : F[e] = x
  BY DEF Redated
<1>4. \A a, b \in g : F[a] = F[b] => a = b
  BY <1>2
<1>5. F \in Bijection(g, Redated(g, now))
  BY <1>3, <1>4, Fun_IsBij
<1>6. Timed(g)
  BY <1>1 DEF Timed
<1>7. Timed(Redated(g, now)) /\ TimeOf(Redated(g, now)) = TimeOf(g)
  BY <1>2, <1>5, <1>6, TimeOfCopy
<1> HIDE DEF F
<1>8. Redated(g, now) \subseteq EntrySet
  BY <1>2, <1>3
<1>9. \A x \in Redated(g, now) : /\ \E e \in g : e.judge = x.judge /\ e.time = x.time
                                 /\ x.deadline = now + x.time
  BY <1>2, <1>3
<1>10. \A x, y \in Redated(g, now) : x.judge = y.judge => x = y
  BY <1>2, <1>3
<1> QED
  BY <1>6, <1>7, <1>8, <1>9, <1>10

(* The index knows the size of every ready node. *)
LEMMA SizeOfElement ==
  ASSUME NEW i, NEW x \in i, \A p \in i : p[2] = x[2] => p = x
  PROVE  SizeOf(i, x[2]) = x[1]
<1> DEFINE q == CHOOSE p \in i : p[2] = x[2]
<1>1. q \in i /\ q[2] = x[2]
  OBVIOUS
<1>2. q = x
  BY <1>1
<1>3. SizeOf(i, x[2]) = q[1]
  BY DEF SizeOf
<1> QED
  BY <1>2, <1>3

(* Looking a node up in a consistent index yields its size.                *)
LEMMA IndexedSizes ==
  ASSUME NEW s, NEW k, NEW i, Indexed(s, k, i)
  PROVE  /\ Ready(i) = k
         /\ \A n \in k : SizeOf(i, n) = s[n]
<1>1. Ready(i) = k
  <2>1. \A n \in k : \E p \in i : p[2] = n
    BY DEF Indexed
  <2>2. \A p \in i : p[2] \in k
    BY DEF Indexed
  <2> QED
    BY <2>1, <2>2 DEF Ready
<1>2. ASSUME NEW n \in k PROVE SizeOf(i, n) = s[n]
  <2> DEFINE x == <<s[n], n>>
  <2>1. x \in i /\ x[1] = s[n] /\ x[2] = n
    BY DEF Indexed
  <2>2. \A p \in i : p[2] = n => p = x
    BY DEF Indexed
  <2> HIDE DEF x
  <2> QED
    BY <2>1, <2>2, SizeOfElement
<1> QED
  BY <1>1, <1>2

(* Handing out NODE_ZERO's entries with new deadlines, g[n] to node n,     *)
(* keeps the books.                                                        *)
LEMMA FillEffect ==
  ASSUME NEW h, NEW o, NEW s, NEW c, NEW k, NEW handed, NEW pushed,
         Shape(h, o, s, c), Accounted(h, o, s), Keyed(h, o, k), Bounded(h, s, c),
         Placed(h, o, handed, pushed), k \subseteq DOMAIN h \ {NODE_ZERO},
         NEW g \in [DOMAIN h -> SUBSET h[NODE_ZERO]],
         \A m, n \in DOMAIN h : \A e \in g[m] : e \in g[n] => m = n,
         \A n \in DOMAIN h : g[n] # {} => n \in k,
         NEW f, NEW t,
         f = [n \in DOMAIN h |-> IF n = NODE_ZERO THEN {}
                                 ELSE h[n] \cup Redated(g[n], c[n])],
         t = [n \in DOMAIN h |-> s[n] + TimeOf(g[n])]
  PROVE  /\ Shape(f, o, t, c) /\ Accounted(f, o, t) /\ Keyed(f, o, k)
         /\ Bounded(f, t, c) /\ Placed(f, o, handed, pushed)
<1> DEFINE R(n) == Redated(g[n], c[n])
<1>1. /\ DOMAIN f = DOMAIN h /\ f[NODE_ZERO] = {} /\ NODE_ZERO \in DOMAIN h
      /\ \A n \in DOMAIN h \ {NODE_ZERO} : f[n] = h[n] \cup R(n)
  BY DEF Shape
<1>2. \A n \in DOMAIN h :
         /\ g[n] \subseteq EntrySet /\ IsFiniteSet(g[n])
         /\ c[n] \in Nat /\ s[n] \in Nat
         /\ h[n] \subseteq EntrySet /\ IsFiniteSet(h[n])
  <2> SUFFICES ASSUME NEW n \in DOMAIN h
               PROVE  /\ g[n] \subseteq EntrySet /\ IsFiniteSet(g[n])
                      /\ c[n] \in Nat /\ s[n] \in Nat
                      /\ h[n] \subseteq EntrySet /\ IsFiniteSet(h[n])
    OBVIOUS
  <2>1. /\ h[n] \subseteq EntrySet /\ IsFiniteSet(h[n])
        /\ h[NODE_ZERO] \subseteq EntrySet /\ IsFiniteSet(h[NODE_ZERO])
        /\ c[n] \in Nat /\ s[n] \in Nat
    BY <1>1 DEF Shape
  <2>2. g[n] \in SUBSET h[NODE_ZERO]
    OBVIOUS
  <2>3. IsFiniteSet(g[n])
    BY <2>1, <2>2, FS_Subset
  <2> QED
    BY <2>1, <2>2, <2>3
<1>3. \A n \in DOMAIN h : \A x, y \in g[n] : x.judge = y.judge => x = y
  BY <1>1 DEF Placed
<1>4. \A n \in DOMAIN h :
         /\ R(n) \subseteq EntrySet
         /\ \A x \in R(n) : /\ \E e \in g[n] : e.judge = x.judge /\ e.time = x.time
                            /\ x.deadline = c[n] + x.time
         /\ \A x, y \in R(n) : x.judge = y.judge => x = y
         /\ Timed(g[n]) /\ Timed(R(n))
         /\ TimeOf(R(n)) = TimeOf(g[n])
  BY <1>2, <1>3, RedatedEntries
<1>5. \A n \in DOMAIN h : TimeOf(g[n]) \in Nat /\ t[n] = s[n] + TimeOf(g[n])
  BY <1>4, CellsFinite
<1> HIDE DEF R
<1>6. \A n \in DOMAIN h : \A e \in f[n] : \E m \in DOMAIN h : \E a \in h[m] :
         /\ a.judge = e.judge /\ a.time = e.time
         /\ \/ m = n /\ a = e
            \/ m = NODE_ZERO /\ a \in g[n] /\ e \in R(n)
  BY <1>1, <1>4
<1>7. \A n \in DOMAIN h : Timed(h[n]) /\ TimeOf(h[n]) \in Nat
  BY ShapeTimed
<1>8. \A n \in DOMAIN h \ {NODE_ZERO} : h[n] \cap R(n) = {}
  BY <1>1, <1>4 DEF Placed
<1>9. Shape(f, o, t, c)
  <2>1. \A n \in DOMAIN h : f[n] \subseteq EntrySet
    BY <1>1, <1>2, <1>4
  <2>2. \A n \in DOMAIN h : IsFiniteSet(f[n])
    <3>1. \A n \in DOMAIN h : IsFiniteSet(h[n] \cup R(n))
      BY <1>2, <1>4, FS_Union DEF Timed
    <3> QED
      BY <1>1, <3>1, FS_EmptySet
  <2>3. t \in [DOMAIN h -> Nat]
    BY <1>2, <1>5
  <2> QED
    BY <1>1, <2>1, <2>2, <2>3 DEF Shape
<1>10. Accounted(f, o, t)
  <2>1. t[NODE_ZERO] >= TimeOf(f[NODE_ZERO])
    BY <1>1, <1>2, <1>5, TimeOfEmpty
  <2>2. ASSUME NEW n \in DOMAIN h \ {NODE_ZERO}
        PROVE  t[n] = o[n][2] + TimeOf(f[n])
    <3>1. TimeOf(h[n] \cup R(n)) = TimeOf(h[n]) + TimeOf(R(n))
      BY <1>4, <1>7, <1>8, TimeOfUnion
    <3>2. TimeOf(f[n]) = TimeOf(h[n]) + TimeOf(g[n])
      BY <1>1, <1>4, <3>1
    <3>3. s[n] = o[n][2] + TimeOf(h[n])
      BY DEF Accounted
    <3>4. o[n] \in (Judge \X Nat) \cup {None}
      BY DEF Shape
    <3>5. o[n][2] \in Nat
      BY <3>4 DEF None
    <3> QED
      BY <1>5, <1>7, <3>2, <3>3, <3>5
  <2> QED
    BY <1>1, <2>1, <2>2 DEF Accounted
<1>11. Keyed(f, o, k)
  BY <1>1, <1>4 DEF Keyed
<1>12. Bounded(f, t, c)
  <2> SUFFICES ASSUME NEW n \in DOMAIN h \ {NODE_ZERO}, NEW e \in f[n]
               PROVE  /\ e.time <= e.deadline /\ e.deadline - e.time <= c[n]
                      /\ e.deadline <= c[n] + t[n]
    BY <1>1 DEF Bounded
  <2>1. CASE e \in h[n]
    <3>1. /\ e.time <= e.deadline /\ e.deadline - e.time <= c[n]
          /\ e.deadline <= c[n] + s[n]
      BY <2>1 DEF Bounded
    <3>2. e.deadline \in Nat
      BY <1>2, <2>1 DEF EntrySet
    <3> QED
      BY <1>2, <1>5, <3>1, <3>2
  <2>2. CASE e \in R(n)
    <3>1. e.deadline = c[n] + e.time /\ e.time \in Nat
      BY <1>4, <2>2 DEF EntrySet
    <3>2. Timed(R(n) \ {e}) /\ TimeOf(R(n)) = TimeOf(R(n) \ {e}) + e.time
      BY <1>4, <2>2, TimeOfLeave
    <3>3. TimeOf(R(n) \ {e}) \in Nat
      BY <3>2, CellsFinite
    <3>4. e.time <= t[n]
      BY <1>2, <1>4, <1>5, <3>1, <3>2, <3>3
    <3> QED
      BY <1>2, <1>5, <3>1, <3>4
  <2> QED
    BY <1>1, <2>1, <2>2
<1>13. Placed(f, o, handed, pushed)
  <2>1. ASSUME NEW m \in DOMAIN h, NEW n \in DOMAIN h, NEW e \in f[m], NEW x \in f[n],
               e.judge = x.judge
        PROVE  m = n /\ e = x
    <3>1. PICK m1 \in DOMAIN h : \E a \in h[m1] :
             /\ a.judge = e.judge /\ a.time = e.time
             /\ \/ m1 = m /\ a = e
                \/ m1 = NODE_ZERO /\ a \in g[m] /\ e \in R(m)
      BY <1>6
    <3>2. PICK a \in h[m1] :
             /\ a.judge = e.judge /\ a.time = e.time
             /\ \/ m1 = m /\ a = e
                \/ m1 = NODE_ZERO /\ a \in g[m] /\ e \in R(m)
      BY <3>1
    <3>3. PICK n1 \in DOMAIN h : \E b \in h[n1] :
             /\ b.judge = x.judge /\ b.time = x.time
             /\ \/ n1 = n /\ b = x
                \/ n1 = NODE_ZERO /\ b \in g[n] /\ x \in R(n)
      BY <1>6
    <3>4. PICK b \in h[n1] :
             /\ b.judge = x.judge /\ b.time = x.time
             /\ \/ n1 = n /\ b = x
                \/ n1 = NODE_ZERO /\ b \in g[n] /\ x \in R(n)
      BY <3>3
    <3>5. m1 = n1 /\ a = b
      BY <2>1, <3>2, <3>4 DEF Placed
    <3>6. m # NODE_ZERO /\ n # NODE_ZERO
      BY <1>1
    <3> QED
      BY <1>4, <2>1, <3>2, <3>4, <3>5, <3>6
  <2>2. \A n \in DOMAIN h : \A e \in f[n] :
          e.judge \in pushed /\ \A d \in handed : d[1] # e.judge
    BY <1>6 DEF Placed
  <2> QED
    BY <1>1, <2>1, <2>2 DEF Placed
<1> QED
  BY <1>9, <1>10, <1>11, <1>12, <1>13

(* Rebalance re-establishes the whole invariant from maps whose queues    *)
(* besides that of NODE_ZERO are in order.                                 *)
LEMMA RebalanceEffect ==
  ASSUME NEW h, NEW o, NEW s, NEW i,
         Shape(h, o, s, node_time'), Indexed(s, shared_key', i), Accounted(h, o, s),
         Keyed(h, o, shared_key'), NoneIdle(h, o), Bounded(h, s, node_time'),
         Placed(h, o, dispatched, submitted'),
         dispatched \subseteq submitted' \X Node, shared_key' \subseteq Node,
         running, Rebalance(h, o, s, i)
  PROVE  /\ DOMAIN nodes' = DOMAIN h
         /\ Shape(nodes', pending', nodes_sz', node_time')
         /\ Indexed(nodes_sz', shared_key', nodes_by_sz')
         /\ Accounted(nodes', pending', nodes_sz')
         /\ Keyed(nodes', pending', shared_key')
         /\ NoneIdle(nodes', pending')
         /\ Placed(nodes', pending', dispatched', submitted')
         /\ Bounded(nodes', nodes_sz', node_time')
         /\ dispatched' \subseteq submitted' \X Node
         /\ running'
<1>1. CASE /\ nodes' = h /\ pending' = o /\ nodes_sz' = s /\ nodes_by_sz' = i
           /\ UNCHANGED <<dispatched, running>>
  BY <1>1
<1>2. CASE /\ nodes' = [h EXCEPT ![NODE_ZERO] = {}]
           /\ pending' = o /\ nodes_sz' = s /\ nodes_by_sz' = i
           /\ UNCHANGED <<dispatched, running>>
  <2>1. /\ DOMAIN nodes' = DOMAIN h /\ nodes'[NODE_ZERO] = {}
        /\ \A n \in DOMAIN h \ {NODE_ZERO} : nodes'[n] = h[n]
    BY <1>2 DEF Shape
  <2>2. Shape(nodes', o, s, node_time')
    <3>1. \A n \in DOMAIN h : nodes'[n] \in SUBSET EntrySet /\ IsFiniteSet(nodes'[n])
      BY <2>1, FS_EmptySet DEF Shape
    <3> QED
      BY <1>2, <2>1, <3>1 DEF Shape
  <2>3. Accounted(nodes', o, s)
    BY <2>1, TimeOfEmpty DEF Accounted, Shape
  <2>4. Keyed(nodes', o, shared_key') /\ NoneIdle(nodes', o)
    BY <2>1 DEF Keyed, NoneIdle
  <2>5. Placed(nodes', o, dispatched, submitted')
    <3>1. \A n \in DOMAIN h : nodes'[n] \subseteq h[n]
      BY <2>1
    <3> QED
      BY <2>1, <3>1 DEF Placed
  <2>6. Bounded(nodes', s, node_time')
    BY <2>1 DEF Bounded
  <2> QED
    BY <1>2, <2>1, <2>2, <2>3, <2>4, <2>5, <2>6
<1>3. CASE \E to \in [h[NODE_ZERO] -> Ready(i)] :
             LET given(n) == {e \in h[NODE_ZERO] : to[e] = n}
                 used     == {to[e] : e \in h[NODE_ZERO]}
                 filled   == [n \in DOMAIN h |->
                                IF n = NODE_ZERO THEN {}
                                ELSE h[n] \cup Redated(given(n), node_time'[n])]
             IN  /\ nodes_by_sz' = {<<p[1] + TimeOf(given(p[2])), p[2]>> : p \in i}
                 /\ nodes_sz' = [n \in DOMAIN s |-> IF n \in used
                                                      THEN SizeOf(nodes_by_sz', n)
                                                      ELSE s[n]]
                 /\ Serve({n \in used : o[n] = None}, filled, o)
  <2>1. PICK to \in [h[NODE_ZERO] -> Ready(i)] :
          LET given(n) == {e \in h[NODE_ZERO] : to[e] = n}
              used     == {to[e] : e \in h[NODE_ZERO]}
              filled   == [n \in DOMAIN h |->
                             IF n = NODE_ZERO THEN {}
                             ELSE h[n] \cup Redated(given(n), node_time'[n])]
          IN  /\ nodes_by_sz' = {<<p[1] + TimeOf(given(p[2])), p[2]>> : p \in i}
              /\ nodes_sz' = [n \in DOMAIN s |-> IF n \in used
                                                   THEN SizeOf(nodes_by_sz', n)
                                                   ELSE s[n]]
              /\ Serve({n \in used : o[n] = None}, filled, o)
    BY <1>3
  <2> DEFINE g == [n \in DOMAIN h |-> {e \in h[NODE_ZERO] : to[e] = n}]
             U == {to[e] : e \in h[NODE_ZERO]}
             f == [n \in DOMAIN h |-> IF n = NODE_ZERO THEN {}
                                      ELSE h[n] \cup Redated(g[n], node_time'[n])]
             t == [n \in DOMAIN h |-> s[n] + TimeOf(g[n])]
             S == {n \in U : o[n] = None}
  <2>2. Ready(i) = shared_key' /\ \A n \in shared_key' : SizeOf(i, n) = s[n]
    BY IndexedSizes
  <2>3. U \subseteq shared_key' /\ shared_key' \subseteq DOMAIN h \ {NODE_ZERO}
    BY <2>2 DEF Indexed, Shape
  <2>4. /\ g \in [DOMAIN h -> SUBSET h[NODE_ZERO]]
        /\ \A m, n \in DOMAIN h : \A e \in g[m] : e \in g[n] => m = n
        /\ \A n \in DOMAIN h : g[n] # {} <=> n \in U
    BY <2>3
  <2>5. Serve(S, f, o)
    <3>1. f = [n \in DOMAIN h |->
                 IF n = NODE_ZERO THEN {}
                 ELSE h[n] \cup Redated({e \in h[NODE_ZERO] : to[e] = n}, node_time'[n])]
      OBVIOUS
    <3> QED
      BY <2>1, <3>1, Zenon
  <2>6. nodes_sz' = [n \in DOMAIN s |-> IF n \in U THEN SizeOf(nodes_by_sz', n) ELSE s[n]]
    BY <2>1
  <2>7. \A p \in i : <<p[1] + TimeOf(g[p[2]]), p[2]>> \in nodes_by_sz'
    <3>1. \A p \in i : /\ p[2] \in DOMAIN h
                       /\ g[p[2]] = {e \in h[NODE_ZERO] : to[e] = p[2]}
      BY <2>3 DEF Indexed
    <3> QED
      BY <2>1, <3>1
  <2>8. \A q \in nodes_by_sz' : \E p \in i : q = <<p[1] + TimeOf(g[p[2]]), p[2]>>
    <3>1. \A p \in i : /\ p[2] \in DOMAIN h
                       /\ g[p[2]] = {e \in h[NODE_ZERO] : to[e] = p[2]}
      BY <2>3 DEF Indexed
    <3> QED
      BY <2>1, <3>1
  <2> HIDE DEF g, U
  <2>9. \A n \in shared_key' : <<s[n] + TimeOf(g[n]), n>> \in nodes_by_sz'
    BY <2>7 DEF Indexed
  <2>10. \A q \in nodes_by_sz' : q[2] \in shared_key' /\ q = <<s[q[2]] + TimeOf(g[q[2]]), q[2]>>
    BY <2>8 DEF Indexed
  <2>11. \A n \in shared_key' : SizeOf(nodes_by_sz', n) = s[n] + TimeOf(g[n])
    <3> SUFFICES ASSUME NEW n \in shared_key'
                 PROVE  SizeOf(nodes_by_sz', n) = s[n] + TimeOf(g[n])
      OBVIOUS
    <3> DEFINE x == <<s[n] + TimeOf(g[n]), n>>
    <3>1. x \in nodes_by_sz' /\ x[1] = s[n] + TimeOf(g[n]) /\ x[2] = n
      BY <2>9
    <3>2. \A q \in nodes_by_sz' : q[2] = n => q = x
      BY <2>10
    <3> HIDE DEF x
    <3> QED
      BY <3>1, <3>2, SizeOfElement
  <2>12. nodes_sz' = t
    <3>1. DOMAIN s = DOMAIN h /\ \A n \in DOMAIN h : s[n] \in Nat
      BY DEF Shape
    <3>2. \A n \in DOMAIN h \ U : s[n] + TimeOf(g[n]) = s[n]
      <4>1. \A n \in DOMAIN h \ U : g[n] = {}
        BY <2>4
      <4>2. \A n \in DOMAIN h \ U : TimeOf(g[n]) = 0
        BY <4>1, TimeOfEmpty
      <4> QED
        BY <3>1, <4>2
    <3>3. \A n \in DOMAIN h : nodes_sz'[n] = s[n] + TimeOf(g[n])
      BY <2>3, <2>6, <2>11, <3>1, <3>2
    <3>4. nodes_sz' = [n \in DOMAIN h |-> nodes_sz'[n]]
      BY <2>6, <3>1
    <3> QED
      BY <3>3, <3>4
  <2>13. /\ Shape(f, o, t, node_time') /\ Accounted(f, o, t) /\ Keyed(f, o, shared_key')
         /\ Bounded(f, t, node_time') /\ Placed(f, o, dispatched, submitted')
    BY <2>3, <2>4, FillEffect
  <2>14. Indexed(t, shared_key', nodes_by_sz')
    BY <2>3, <2>9, <2>10 DEF Indexed
  <2>15. /\ DOMAIN f = DOMAIN h /\ S \subseteq DOMAIN f \ {NODE_ZERO}
         /\ \A n \in S : o[n] = None
    BY <2>3
  <2>16. \A n \in DOMAIN f \ ({NODE_ZERO} \cup S) : f[n] # {} => o[n] # None
    BY <2>4, <2>15 DEF NoneIdle, Redated
  <2> HIDE DEF f, t, S
  <2> QED
    BY <2>5, <2>12, <2>13, <2>14, <2>15, <2>16, ServeEffect
<1> QED
  BY <1>1, <1>2, <1>3 DEF Rebalance, Redated

-----------------------------------------------------------------------------
(* Every action keeps the invariant; all but TouchMissing keep the actor   *)
(* running.                                                                *)

(* The scheduler starts in a state of the invariant.                       *)
LEMMA InitIInv == Init => IInv
<1> SUFFICES ASSUME Init PROVE IInv
  OBVIOUS
<1>1. IsFiniteSet({}) /\ TimeOf({}) = 0
  BY FS_EmptySet, TimeOfEmpty
<1>2. Shape(nodes, pending, nodes_sz, node_time)
  BY <1>1 DEF Init, Shape, NODE_ZERO
<1>3. Indexed(nodes_sz, shared_key, nodes_by_sz)
  BY DEF Init, Indexed
<1>4. Accounted(nodes, pending, nodes_sz)
  BY <1>1 DEF Init, Accounted
<1>5. Keyed(nodes, pending, shared_key) /\ NoneIdle(nodes, pending)
  BY DEF Init, Keyed, NoneIdle
<1>6. Placed(nodes, pending, dispatched, submitted)
  BY DEF Init, Placed
<1>7. Bounded(nodes, nodes_sz, node_time) /\ Histories
  BY DEF Init, Bounded, Histories
<1> QED
  BY <1>2, <1>3, <1>4, <1>5, <1>6, <1>7 DEF IInv

(* register keeps the invariant: the new node has no work and no key.      *)
LEMMA RegisterIInv ==
  ASSUME IInv, NEW n \in Node, Register(n)
  PROVE  IInv' /\ running'
<1> DEFINE h == Insert(nodes, n, {})
           o == Insert(pending, n, None)
           s == Insert(nodes_sz, n, 0)
<1>1. /\ n \notin DOMAIN nodes /\ n # NODE_ZERO
      /\ DOMAIN pending = DOMAIN nodes /\ DOMAIN nodes_sz = DOMAIN nodes
      /\ DOMAIN node_time = DOMAIN nodes
      /\ NODE_ZERO \in DOMAIN nodes
  BY NodeAssumption DEF IInv, Shape, Register, NODE_ZERO
<1>2. /\ DOMAIN h = DOMAIN nodes \cup {n} /\ DOMAIN o = DOMAIN nodes \cup {n}
      /\ DOMAIN s = DOMAIN nodes \cup {n} /\ DOMAIN node_time' = DOMAIN nodes \cup {n}
      /\ \A m \in DOMAIN nodes : /\ h[m] = nodes[m] /\ o[m] = pending[m]
                                 /\ s[m] = nodes_sz[m] /\ node_time'[m] = node_time[m]
      /\ h[n] = {} /\ o[n] = None /\ s[n] = 0 /\ node_time'[n] = 0
  BY <1>1 DEF Insert, Register
<1>3. /\ shared_key' = shared_key /\ submitted' = submitted /\ running
      /\ Rebalance(h, o, s, nodes_by_sz)
  BY DEF Register
<1>4. /\ h = [m \in DOMAIN h |-> h[m]] /\ o = [m \in DOMAIN h |-> o[m]]
      /\ s = [m \in DOMAIN h |-> s[m]] /\ node_time' = [m \in DOMAIN h |-> node_time'[m]]
  BY <1>1, <1>2 DEF Insert, Register
<1> HIDE DEF h, o, s
<1>5. Shape(h, o, s, node_time')
  <2>1. \A m \in DOMAIN h : h[m] \in SUBSET EntrySet /\ IsFiniteSet(h[m])
    BY <1>2, FS_EmptySet DEF IInv, Shape
  <2>2. \A m \in DOMAIN h : /\ o[m] \in (Judge \X Nat) \cup {None}
                            /\ s[m] \in Nat /\ node_time'[m] \in Nat
    BY <1>2 DEF IInv, Shape
  <2>3. DOMAIN h \subseteq Node \cup {NODE_ZERO} /\ NODE_ZERO \in DOMAIN h
    BY <1>2 DEF IInv, Shape
  <2> QED
    BY <1>4, <2>1, <2>2, <2>3 DEF Shape
<1>6. Indexed(s, shared_key', nodes_by_sz)
  BY <1>1, <1>2, <1>3 DEF IInv, Indexed
<1>7. Accounted(h, o, s)
  <2>1. s[n] = o[n][2] + TimeOf(h[n])
    BY <1>2, TimeOfEmpty DEF None
  <2>2. Accounted(nodes, pending, nodes_sz)
    BY DEF IInv
  <2>3. s[NODE_ZERO] >= TimeOf(h[NODE_ZERO])
    BY <1>1, <1>2, <2>2 DEF Accounted
  <2>4. \A m \in DOMAIN h \ {NODE_ZERO} : s[m] = o[m][2] + TimeOf(h[m])
    BY <1>1, <1>2, <2>1, <2>2 DEF Accounted
  <2> QED
    BY <2>3, <2>4 DEF Accounted
<1>8. Keyed(h, o, shared_key') /\ NoneIdle(h, o)
  BY <1>1, <1>2, <1>3 DEF IInv, Keyed, NoneIdle
<1>9. Placed(h, o, dispatched, submitted')
  BY <1>1, <1>2, <1>3 DEF IInv, Placed
<1>10. Bounded(h, s, node_time')
  BY <1>1, <1>2 DEF IInv, Bounded
<1>11. dispatched \subseteq submitted' \X Node /\ shared_key' \subseteq Node
  BY <1>3 DEF IInv, Histories
<1> QED
  BY <1>3, <1>5, <1>6, <1>7, <1>8, <1>9, <1>10, <1>11, RebalanceEffect DEF IInv, Histories

(* promote keeps it: the node is indexed with its current size.            *)
LEMMA PromoteIInv ==
  ASSUME IInv, NEW n \in Node, Promote(n)
  PROVE  IInv' /\ running'
<1>1. /\ n \in DOMAIN nodes /\ n # NODE_ZERO /\ DOMAIN nodes_sz = DOMAIN nodes
      /\ UNCHANGED <<nodes, pending, nodes_sz, node_time, dispatched, submitted, running>>
      /\ shared_key' = shared_key \cup {n} /\ running
      /\ nodes_by_sz' = nodes_by_sz \cup {<<nodes_sz[n], n>>}
  BY NodeAssumption DEF IInv, Shape, Promote, NODE_ZERO
<1>2. Indexed(nodes_sz, shared_key', nodes_by_sz')
  BY <1>1 DEF IInv, Indexed
<1>3. Keyed(nodes, pending, shared_key')
  BY <1>1 DEF IInv, Keyed
<1> QED
  BY <1>1, <1>2, <1>3 DEF IInv, Histories

(* A fresh entry that joins the queue of a node, with its time added to    *)
(* the size of the node.                                                   *)
Joined(heaps, n, e) == [heaps EXCEPT ![n] = @ \cup {e}]
Grown(sizes, n, d)  == [sizes EXCEPT ![n] = @ + d]

(* A judgement that has just been pushed joins one queue.                  *)
LEMMA JoinEffect ==
  ASSUME NEW h, NEW o, NEW s, NEW c, NEW k, NEW handed, NEW pushed,
         Shape(h, o, s, c), Accounted(h, o, s), Keyed(h, o, k), Bounded(h, s, c),
         Placed(h, o, handed, pushed), handed \subseteq pushed \X Node,
         NEW n \in DOMAIN h, NEW x \in EntrySet, x.judge \notin pushed,
         n = NODE_ZERO \/ (n \in k /\ x.deadline = c[n] + x.time)
  PROVE  /\ Shape(Joined(h, n, x), o, Grown(s, n, x.time), c)
         /\ Accounted(Joined(h, n, x), o, Grown(s, n, x.time))
         /\ Keyed(Joined(h, n, x), o, k)
         /\ Bounded(Joined(h, n, x), Grown(s, n, x.time), c)
         /\ Placed(Joined(h, n, x), o, handed, pushed \cup {x.judge})
<1> DEFINE f == Joined(h, n, x)
           t == Grown(s, n, x.time)
<1>1. /\ DOMAIN f = DOMAIN h /\ f[n] = h[n] \cup {x}
      /\ \A m \in DOMAIN h \ {n} : f[m] = h[m]
      /\ DOMAIN t = DOMAIN h /\ t[n] = s[n] + x.time
      /\ \A m \in DOMAIN h \ {n} : t[m] = s[m]
      /\ f = [m \in DOMAIN h |-> f[m]] /\ t = [m \in DOMAIN h |-> t[m]]
  BY DEF Shape, Joined, Grown
<1> HIDE DEF f, t
<1>2. x.time \in Nat /\ x.judge \in Judge /\ x.deadline \in Nat
  BY DEF EntrySet
<1>3. \A m \in DOMAIN h : x \notin h[m] /\ \A e \in h[m] : e.judge # x.judge
  BY DEF Placed
<1>4. /\ Timed(h[n]) /\ TimeOf(h[n]) \in Nat
      /\ TimeOf(f[n]) = TimeOf(h[n]) + x.time
  <2>1. Timed(h[n]) /\ TimeOf(h[n]) \in Nat
    BY ShapeTimed
  <2>2. TimeOf(h[n] \cup {x}) = TimeOf(h[n]) + x.time
    BY <1>2, <1>3, <2>1, TimeOfJoin, Zenon
  <2> QED
    BY <1>1, <2>1, <2>2
<1>5. \A m \in DOMAIN h : s[m] \in Nat /\ c[m] \in Nat /\ o[m][2] \in Nat
  <2>1. \A m \in DOMAIN h : o[m] \in (Judge \X Nat) \cup {None}
    BY DEF Shape
  <2> QED
    BY <2>1 DEF Shape, None
<1>6. Shape(f, o, t, c)
  <2>1. \A m \in DOMAIN h : h[m] \in SUBSET EntrySet /\ IsFiniteSet(h[m])
    BY DEF Shape
  <2>2. IsFiniteSet(h[n] \cup {x})
    BY <2>1, FS_AddElement, Zenon
  <2>3. \A m \in DOMAIN f : f[m] \in SUBSET EntrySet /\ IsFiniteSet(f[m])
    BY <1>1, <2>1, <2>2
  <2>4. f \in [DOMAIN f -> SUBSET EntrySet]
    BY <1>1, <2>3
  <2>5. t \in [DOMAIN f -> Nat]
    BY <1>1, <1>2, <1>5 DEF Shape
  <2> QED
    BY <1>1, <2>3, <2>4, <2>5 DEF Shape
<1>7. Accounted(f, o, t)
  <2>1. t[NODE_ZERO] >= TimeOf(f[NODE_ZERO])
    <3>1. s[NODE_ZERO] >= TimeOf(h[NODE_ZERO]) /\ NODE_ZERO \in DOMAIN h
      BY DEF Accounted, Shape
    <3>2. TimeOf(h[NODE_ZERO]) \in Nat
      BY <3>1, ShapeTimed
    <3>3. CASE n = NODE_ZERO
      <4>1. t[n] = s[n] + x.time /\ s[n] \in Nat
        BY <1>1, <1>5
      <4>2. s[n] >= TimeOf(h[n])
        BY <3>1, <3>3
      <4>3. t[n] >= TimeOf(f[n])
        BY <1>2, <1>4, <4>1, <4>2
      <4> QED
        BY <3>3, <4>3
    <3>4. CASE n # NODE_ZERO
      <4>1. f[NODE_ZERO] = h[NODE_ZERO] /\ t[NODE_ZERO] = s[NODE_ZERO]
        BY <1>1, <3>1, <3>4
      <4> QED
        BY <3>1, <4>1
    <3> QED
      BY <3>3, <3>4
  <2>2. ASSUME NEW m \in DOMAIN f \ {NODE_ZERO}
        PROVE  t[m] = o[m][2] + TimeOf(f[m])
    <3>1. s[m] = o[m][2] + TimeOf(h[m]) /\ m \in DOMAIN h
      BY <1>1 DEF Accounted
    <3>2. CASE m = n
      <4>1. t[n] = s[n] + x.time /\ s[n] \in Nat /\ o[n][2] \in Nat
        BY <1>1, <1>5
      <4>2. s[n] = o[n][2] + TimeOf(h[n])
        BY <3>1, <3>2
      <4>3. t[n] = o[n][2] + TimeOf(f[n])
        BY <1>2, <1>4, <4>1, <4>2
      <4> QED
        BY <3>2, <4>3
    <3>3. CASE m # n
      <4>1. f[m] = h[m] /\ t[m] = s[m]
        BY <1>1, <3>1, <3>3
      <4> QED
        BY <3>1, <4>1
    <3> QED
      BY <3>2, <3>3
  <2> QED
    BY <2>1, <2>2 DEF Accounted
<1>8. Keyed(f, o, k)
  BY <1>1 DEF Keyed
<1>9. Bounded(f, t, c)
  <2> SUFFICES ASSUME NEW m \in DOMAIN h \ {NODE_ZERO}, NEW e \in f[m]
               PROVE  /\ e.time <= e.deadline /\ e.deadline - e.time <= c[m]
                      /\ e.deadline <= c[m] + t[m]
    BY <1>1 DEF Bounded
  <2>1. CASE e \in h[m]
    <3>1. /\ e.time <= e.deadline /\ e.deadline - e.time <= c[m]
          /\ e.deadline <= c[m] + s[m]
      BY <2>1 DEF Bounded
    <3>2. e.deadline \in Nat
      BY <2>1 DEF EntrySet, Shape
    <3>3. t[m] \in Nat /\ s[m] <= t[m]
      BY <1>1, <1>2, <1>5
    <3> QED
      BY <1>5, <3>1, <3>2, <3>3
  <2>2. CASE m = n /\ e = x
    BY <1>1, <1>2, <1>5, <2>2
  <2> QED
    BY <1>1, <2>1, <2>2
<1>10. Placed(f, o, handed, pushed \cup {x.judge})
  <2>1. \A l, m \in DOMAIN f : \A e \in f[l], a \in f[m] :
          e.judge = a.judge => l = m /\ e = a
    <3>1. \A l, m \in DOMAIN h : \A e \in h[l], a \in h[m] :
            e.judge = a.judge => l = m /\ e = a
      BY DEF Placed
    <3>2. \A m \in DOMAIN h : \A e \in f[m] : e \in h[m] \/ (m = n /\ e = x)
      BY <1>1
    <3> QED
      BY <1>1, <1>3, <3>1, <3>2
  <2>2. \A m \in DOMAIN f : \A e \in f[m] :
          e.judge \in pushed \cup {x.judge} /\ \A d \in handed : d[1] # e.judge
    <3>1. \A d \in handed : d[1] \in pushed
      OBVIOUS
    <3> QED
      BY <1>1, <3>1 DEF Placed
  <2> QED
    BY <1>1, <2>1, <2>2 DEF Placed
<1> QED
  BY <1>6, <1>7, <1>8, <1>9, <1>10 DEF f, t

(* push keeps it, with and without a node in the index.                    *)
LEMMA PushIInv ==
  ASSUME IInv, NEW j \in Judge, NEW total_time \in TotalTime, NEW weight \in Weight,
         Push(j, total_time, weight)
  PROVE  IInv' /\ running'
<1> DEFINE time == total_time * weight
<1>1. time \in Nat
  BY TimeAssumption DEF Weight
<1>2. /\ running /\ j \notin submitted /\ submitted' = submitted \cup {j}
      /\ UNCHANGED <<shared_key, node_time>>
  BY DEF Push
<1>3. submitted' \subseteq Judge /\ shared_key' \subseteq Node
      /\ dispatched \subseteq submitted' \X Node /\ dispatched \subseteq submitted \X Node
  BY <1>2 DEF IInv, Histories
<1>4. NODE_ZERO \in DOMAIN nodes
  BY DEF IInv, Shape
<1>5. CASE /\ nodes' = [nodes EXCEPT ![NODE_ZERO] = @ \cup {Entry(0, time, j)}]
           /\ nodes_sz' = [nodes_sz EXCEPT ![NODE_ZERO] = @ + time]
           /\ UNCHANGED <<pending, nodes_by_sz, dispatched, running>>
  <2> DEFINE x == Entry(0, time, j)
  <2>1. x \in EntrySet /\ x.judge = j /\ x.time = time
    BY <1>1 DEF Entry, EntrySet
  <2> HIDE DEF x, time
  <2>2. nodes_sz' = Grown(nodes_sz, NODE_ZERO, x.time)
    BY <1>5, <2>1 DEF Grown
  <2>3. nodes' = Joined(nodes, NODE_ZERO, x)
    BY <1>5 DEF x, Joined
  <2>4. /\ Shape(nodes', pending, nodes_sz', node_time) /\ Accounted(nodes', pending, nodes_sz')
        /\ Keyed(nodes', pending, shared_key) /\ Bounded(nodes', nodes_sz', node_time)
        /\ Placed(nodes', pending, dispatched, submitted \cup {x.judge})
    BY <1>2, <1>3, <1>4, <2>1, <2>2, <2>3, JoinEffect DEF IInv
  <2>5. Indexed(nodes_sz', shared_key', nodes_by_sz')
    BY <1>2, <1>5 DEF IInv, Indexed, Shape
  <2>6. NoneIdle(nodes', pending)
    BY <2>3 DEF IInv, NoneIdle, Joined
  <2> QED
    BY <1>2, <1>3, <1>5, <2>1, <2>4, <2>5, <2>6 DEF IInv, Histories
<1>6. CASE \E p \in nodes_by_sz :
              LET id     == p[2]
                  new_sz == p[1] + time
              IN  /\ nodes_sz' = [nodes_sz EXCEPT ![id] = new_sz]
                  /\ nodes_by_sz' = (nodes_by_sz \ {p}) \cup {<<new_sz, id>>}
                  /\ Serve(IF pending[id] = None THEN {id} ELSE {},
                           [nodes EXCEPT ![id] =
                              @ \cup {Entry(node_time[id] + time, time, j)}],
                           pending)
  <2>1. PICK p \in nodes_by_sz :
              LET id     == p[2]
                  new_sz == p[1] + time
              IN  /\ nodes_sz' = [nodes_sz EXCEPT ![id] = new_sz]
                  /\ nodes_by_sz' = (nodes_by_sz \ {p}) \cup {<<new_sz, id>>}
                  /\ Serve(IF pending[id] = None THEN {id} ELSE {},
                           [nodes EXCEPT ![id] =
                              @ \cup {Entry(node_time[id] + time, time, j)}],
                           pending)
    BY <1>6
  <2> DEFINE id == p[2]
             x  == Entry(node_time[id] + time, time, j)
             f  == Joined(nodes, id, x)
             S  == IF pending[id] = None THEN {id} ELSE {}
  <2>2. /\ id \in shared_key /\ p = <<nodes_sz[id], id>> /\ id \in DOMAIN nodes
        /\ id # NODE_ZERO /\ node_time[id] \in Nat /\ DOMAIN nodes_sz = DOMAIN nodes
    BY DEF IInv, Indexed, Shape
  <2>3. /\ x \in EntrySet /\ x.judge = j /\ x.time = time
        /\ x.deadline = node_time[id] + x.time
    BY <1>1, <2>2 DEF Entry, EntrySet
  <2>4. Serve(S, f, pending)
    BY <2>1 DEF Joined
  <2>5. nodes_sz' = Grown(nodes_sz, id, x.time)
    <3>1. p[1] + time = nodes_sz[id] + x.time
      BY <2>2, <2>3
    <3>2. nodes_sz' = [nodes_sz EXCEPT ![id] = p[1] + time]
      BY <2>1
    <3> QED
      BY <3>1, <3>2 DEF Grown
  <2>6. nodes_by_sz' = (nodes_by_sz \ {p}) \cup {<<nodes_sz[id] + time, id>>}
    BY <2>1, <2>2
  <2> HIDE DEF x, time, id
  <2>7. /\ Shape(f, pending, nodes_sz', node_time) /\ Accounted(f, pending, nodes_sz')
        /\ Keyed(f, pending, shared_key) /\ Bounded(f, nodes_sz', node_time)
        /\ Placed(f, pending, dispatched, submitted \cup {x.judge})
    BY <1>2, <1>3, <2>2, <2>3, <2>5, JoinEffect DEF IInv
  <2>8. Indexed(nodes_sz', shared_key', nodes_by_sz')
    <3>1. /\ DOMAIN nodes_sz' = DOMAIN nodes_sz /\ nodes_sz'[id] = nodes_sz[id] + time
          /\ \A m \in DOMAIN nodes_sz \ {id} : nodes_sz'[m] = nodes_sz[m]
      BY <2>2, <2>3, <2>5 DEF Grown, IInv, Shape
    <3>2. \A q \in nodes_by_sz : q[2] = id => q = p
      BY <2>2 DEF IInv, Indexed
    <3> QED
      BY <1>2, <2>2, <2>6, <3>1, <3>2 DEF IInv, Indexed
  <2>9. /\ S \subseteq DOMAIN f \ {NODE_ZERO} /\ \A n \in S : pending[n] = None
        /\ \A n \in DOMAIN f \ ({NODE_ZERO} \cup S) : f[n] # {} => pending[n] # None
    BY <2>2 DEF IInv, NoneIdle, Joined, Shape
  <2> HIDE DEF f, S
  <2>10. /\ Shape(nodes', pending', nodes_sz', node_time)
         /\ Accounted(nodes', pending', nodes_sz')
         /\ Keyed(nodes', pending', shared_key')
         /\ NoneIdle(nodes', pending')
         /\ Placed(nodes', pending', dispatched', submitted')
         /\ Bounded(nodes', nodes_sz', node_time)
         /\ dispatched' \subseteq submitted' \X Node
         /\ running'
    BY <1>2, <1>3, <2>3, <2>4, <2>7, <2>9, ServeEffect
  <2> QED
    BY <1>2, <1>3, <2>8, <2>10 DEF IInv, Histories
<1> QED
  BY <1>5, <1>6 DEF Push

(* touch keeps it: what it subtracts is what it has booked.                *)
LEMMA TouchIInv ==
  ASSUME IInv, NEW n \in Node, Touch(n)
  PROVE  IInv' /\ running'
<1>1. /\ running /\ n \in DOMAIN nodes /\ n # NODE_ZERO /\ NODE_ZERO \in DOMAIN nodes
      /\ shared_key' = shared_key /\ submitted' = submitted
      /\ DOMAIN nodes_sz = DOMAIN nodes /\ DOMAIN node_time = DOMAIN nodes
      /\ DOMAIN pending = DOMAIN nodes
  BY NodeAssumption DEF Touch, IInv, Shape, NODE_ZERO
<1>2. \A m \in DOMAIN nodes : /\ pending[m] \in (Judge \X Nat) \cup {None}
                              /\ nodes_sz[m] \in Nat /\ node_time[m] \in Nat
  BY DEF IInv, Shape
<1>3. /\ dispatched \subseteq submitted' \X Node /\ shared_key' \subseteq Node
      /\ submitted' \subseteq Judge
  BY <1>1 DEF IInv, Histories
<1>4. CASE pending[n] = None
  <2>1. /\ UNCHANGED <<nodes_sz, nodes_by_sz, node_time>>
        /\ Serve({n}, nodes, pending)
    BY <1>4 DEF Touch, None
  <2>2. \A m \in DOMAIN nodes \ ({NODE_ZERO} \cup {n}) : nodes[m] # {} => pending[m] # None
    BY DEF IInv, NoneIdle
  <2>3. /\ Shape(nodes, pending, nodes_sz, node_time) /\ Accounted(nodes, pending, nodes_sz)
        /\ Keyed(nodes, pending, shared_key') /\ Bounded(nodes, nodes_sz, node_time)
        /\ Placed(nodes, pending, dispatched, submitted')
    BY <1>1 DEF IInv
  <2>4. /\ Shape(nodes', pending', nodes_sz, node_time)
        /\ Accounted(nodes', pending', nodes_sz)
        /\ Keyed(nodes', pending', shared_key')
        /\ NoneIdle(nodes', pending')
        /\ Placed(nodes', pending', dispatched', submitted')
        /\ Bounded(nodes', nodes_sz, node_time)
        /\ dispatched' \subseteq submitted' \X Node
        /\ running'
    BY <1>1, <1>3, <1>4, <2>1, <2>2, <2>3, ServeEffect
  <2> QED
    BY <1>1, <1>3, <2>1, <2>4 DEF IInv, Histories
<1>5. CASE pending[n] # None
  <2> DEFINE o  == [pending EXCEPT ![n] = None]
             sz == pending[n][2]
  <2>1. /\ pending[n][1] # 0 /\ sz \in Nat
        /\ n \in shared_key
    BY <1>1, <1>2, <1>5, JudgeAssumption DEF IInv, Keyed
  <2>2. /\ nodes_sz' = [nodes_sz EXCEPT ![n] = @ - sz]
        /\ nodes_by_sz' = (nodes_by_sz \ {<<nodes_sz[n], n>>}) \cup {<<nodes_sz[n] - sz, n>>}
        /\ node_time' = [node_time EXCEPT ![n] = @ + sz]
        /\ Serve({n}, nodes, o)
    BY <2>1 DEF Touch
  <2>3. /\ DOMAIN nodes_sz' = DOMAIN nodes /\ nodes_sz'[n] = nodes_sz[n] - sz
        /\ \A m \in DOMAIN nodes \ {n} : nodes_sz'[m] = nodes_sz[m]
        /\ DOMAIN node_time' = DOMAIN nodes /\ node_time'[n] = node_time[n] + sz
        /\ \A m \in DOMAIN nodes \ {n} : node_time'[m] = node_time[m]
        /\ DOMAIN o = DOMAIN nodes /\ o[n] = None
        /\ \A m \in DOMAIN nodes \ {n} : o[m] = pending[m]
        /\ o = [m \in DOMAIN nodes |-> o[m]]
        /\ nodes_sz' = [m \in DOMAIN nodes |-> nodes_sz'[m]]
        /\ node_time' = [m \in DOMAIN nodes |-> node_time'[m]]
    BY <1>1, <2>2
  <2> HIDE DEF o
  <2>4. TimeOf(nodes[n]) \in Nat /\ nodes_sz[n] = sz + TimeOf(nodes[n])
    BY <1>1, ShapeTimed DEF IInv, Accounted
  <2> HIDE DEF sz
  <2>5. nodes_sz'[n] = TimeOf(nodes[n]) /\ nodes_sz'[n] \in Nat
    BY <1>1, <1>2, <2>1, <2>3, <2>4
  <2>6. Shape(nodes, o, nodes_sz', node_time')
    <3>1. \A m \in DOMAIN nodes : /\ o[m] \in (Judge \X Nat) \cup {None}
                                  /\ nodes_sz'[m] \in Nat /\ node_time'[m] \in Nat
      BY <1>1, <1>2, <2>1, <2>3, <2>5
    <3> QED
      BY <2>3, <3>1 DEF IInv, Shape
  <2>7. Accounted(nodes, o, nodes_sz')
    <3>1. nodes_sz'[n] = o[n][2] + TimeOf(nodes[n])
      BY <2>3, <2>4, <2>5 DEF None
    <3> QED
      BY <1>1, <2>3, <3>1 DEF IInv, Accounted
  <2>8. Keyed(nodes, o, shared_key')
    BY <1>1, <2>1, <2>3 DEF IInv, Keyed
  <2>9. Placed(nodes, o, dispatched, submitted')
    BY <1>1, <2>3 DEF IInv, Placed
  <2>10. Bounded(nodes, nodes_sz', node_time')
    <3> SUFFICES ASSUME NEW m \in DOMAIN nodes \ {NODE_ZERO}, NEW e \in nodes[m]
                 PROVE  /\ e.time <= e.deadline /\ e.deadline - e.time <= node_time'[m]
                        /\ e.deadline <= node_time'[m] + nodes_sz'[m]
      BY DEF Bounded
    <3>1. /\ e.time <= e.deadline /\ e.deadline - e.time <= node_time[m]
          /\ e.deadline <= node_time[m] + nodes_sz[m]
      BY DEF IInv, Bounded
    <3>2. e.deadline \in Nat /\ e.time \in Nat
      BY DEF IInv, Shape, EntrySet
    <3>3. CASE m = n
      BY <1>1, <1>2, <2>1, <2>3, <3>1, <3>2, <3>3
    <3>4. CASE m # n
      BY <2>3, <3>1, <3>4
    <3> QED
      BY <3>3, <3>4
  <2>11. Indexed(nodes_sz', shared_key', nodes_by_sz')
    <3>1. \A p \in nodes_by_sz : p[2] = n => p = <<nodes_sz[n], n>>
      BY DEF IInv, Indexed
    <3>2. nodes_by_sz' = (nodes_by_sz \ {<<nodes_sz[n], n>>}) \cup {<<nodes_sz'[n], n>>}
      BY <2>2, <2>3
    <3>3. Indexed(nodes_sz, shared_key, nodes_by_sz)
      BY DEF IInv
    <3> QED
      BY <1>1, <2>1, <2>3, <3>1, <3>2, <3>3 DEF Indexed
  <2>12. \A m \in DOMAIN nodes \ ({NODE_ZERO} \cup {n}) : nodes[m] # {} => o[m] # None
    BY <2>3 DEF IInv, NoneIdle
  <2>13. /\ Shape(nodes', pending', nodes_sz', node_time')
         /\ Accounted(nodes', pending', nodes_sz')
         /\ Keyed(nodes', pending', shared_key')
         /\ NoneIdle(nodes', pending')
         /\ Placed(nodes', pending', dispatched', submitted')
         /\ Bounded(nodes', nodes_sz', node_time')
         /\ dispatched' \subseteq submitted' \X Node
         /\ running'
    BY <1>1, <1>3, <2>2, <2>3, <2>6, <2>7, <2>8, <2>9, <2>10, <2>12, ServeEffect
  <2> QED
    BY <1>1, <1>3, <2>11, <2>13 DEF IInv, Histories
<1> QED
  BY <1>4, <1>5

(* A touch that panics changes nothing the invariant speaks of.           *)
LEMMA TouchMissingIInv ==
  ASSUME IInv, NEW n \in Node, TouchMissing(n)
  PROVE  IInv'
BY DEF IInv, TouchMissing, Histories

(* A rebalance on its own keeps it.                                       *)
LEMMA ForceRebalanceIInv ==
  ASSUME IInv, ForceRebalance
  PROVE  IInv' /\ running'
<1>1. /\ running /\ shared_key' = shared_key /\ submitted' = submitted
      /\ node_time' = node_time /\ Rebalance(nodes, pending, nodes_sz, nodes_by_sz)
  BY DEF ForceRebalance
<1>2. /\ dispatched \subseteq submitted' \X Node /\ shared_key' \subseteq Node
      /\ submitted' \subseteq Judge
  BY <1>1 DEF IInv, Histories
<1> QED
  BY <1>1, <1>2, RebalanceEffect DEF IInv, Histories

(* The queue of a node that leaves, as NODE_ZERO gets it. *)
Requeued(g) == {Entry(0, e.time, e.judge) : e \in g}

(* What is in the queue of NODE_ZERO when a node's entries are put back.   *)
LEMMA RequeuedEntries ==
  ASSUME NEW g, IsFiniteSet(g), g \subseteq EntrySet,
         \A e, f \in g : e.judge = f.judge => e = f
  PROVE  /\ Requeued(g) \subseteq EntrySet
         /\ \A x \in Requeued(g) : \E e \in g : e.judge = x.judge
         /\ \A x, y \in Requeued(g) : x.judge = y.judge => x = y
         /\ Timed(Requeued(g)) /\ TimeOf(Requeued(g)) = TimeOf(g)
<1> DEFINE F == [e \in g |-> Entry(0, e.time, e.judge)]
<1>1. \A e \in g : e.time \in Nat /\ e.judge \in Judge
  BY DEF EntrySet
<1>2. \A e \in g : F[e] \in EntrySet /\ F[e].time = e.time /\ F[e].judge = e.judge
  BY <1>1 DEF EntrySet, Entry
<1>3. F \in [g -> Requeued(g)] /\ \A x \in Requeued(g) : \E e \in g : F[e] = x
  BY DEF Requeued
<1>4. \A a, b \in g : F[a] = F[b] => a = b
  BY <1>2
<1>5. F \in Bijection(g, Requeued(g))
  BY <1>3, <1>4, Fun_IsBij
<1>6. Timed(g)
  BY <1>1 DEF Timed
<1>7. Timed(Requeued(g)) /\ TimeOf(Requeued(g)) = TimeOf(g)
  BY <1>2, <1>5, <1>6, TimeOfCopy
<1> HIDE DEF F
<1>8. Requeued(g) \subseteq EntrySet /\ \A x \in Requeued(g) : \E e \in g : e.judge = x.judge
  BY <1>2, <1>3
<1>9. \A x, y \in Requeued(g) : x.judge = y.judge => x = y
  BY <1>2, <1>3
<1> QED
  BY <1>7, <1>8, <1>9

(* unregister keeps it: the queue is put back, the pending judgement has   *)
(* been dispatched.                                                        *)
LEMMA UnregisterIInv ==
  ASSUME IInv, NEW n \in Node, Unregister(n)
  PROVE  IInv' /\ running'
<1> DEFINE Q == Requeued(nodes[n])
           h == [Without(nodes, n) EXCEPT ![NODE_ZERO] = @ \cup Q]
           o == Without(pending, n)
           s == [Without(nodes_sz, n) EXCEPT ![NODE_ZERO] = @ + TimeOf(nodes[n])]
           i == nodes_by_sz \ {<<nodes_sz[n], n>>}
<1>1. /\ n \in DOMAIN nodes /\ n # NODE_ZERO /\ NODE_ZERO \in DOMAIN nodes
      /\ DOMAIN nodes_sz = DOMAIN nodes /\ DOMAIN node_time = DOMAIN nodes
      /\ DOMAIN pending = DOMAIN nodes
  BY NodeAssumption DEF Unregister, IInv, Shape, NODE_ZERO
<1>2. /\ running /\ submitted' = submitted /\ shared_key' = shared_key \ {n}
      /\ Rebalance(h, o, s, i)
  BY DEF Unregister, Requeued
<1>3. /\ DOMAIN h = DOMAIN nodes \ {n} /\ DOMAIN o = DOMAIN h /\ DOMAIN s = DOMAIN h
      /\ DOMAIN node_time' = DOMAIN h
      /\ h[NODE_ZERO] = nodes[NODE_ZERO] \cup Q
      /\ s[NODE_ZERO] = nodes_sz[NODE_ZERO] + TimeOf(nodes[n])
      /\ \A m \in DOMAIN h \ {NODE_ZERO} : h[m] = nodes[m] /\ s[m] = nodes_sz[m]
      /\ \A m \in DOMAIN h : o[m] = pending[m] /\ node_time'[m] = node_time[m]
      /\ h = [m \in DOMAIN h |-> h[m]] /\ o = [m \in DOMAIN h |-> o[m]]
      /\ s = [m \in DOMAIN h |-> s[m]] /\ node_time' = [m \in DOMAIN h |-> node_time'[m]]
  BY <1>1 DEF Without, Restrict, Unregister
<1>4. \A m \in DOMAIN nodes : /\ nodes[m] \subseteq EntrySet /\ IsFiniteSet(nodes[m])
                              /\ pending[m] \in (Judge \X Nat) \cup {None}
                              /\ nodes_sz[m] \in Nat /\ node_time[m] \in Nat
  BY DEF IInv, Shape
<1>5. \A l, m \in DOMAIN nodes : \A e \in nodes[l], f \in nodes[m] :
        e.judge = f.judge => l = m /\ e = f
  BY DEF IInv, Placed
<1>6. /\ Q \subseteq EntrySet
      /\ \A x \in Q : \E e \in nodes[n] : e.judge = x.judge
      /\ \A x, y \in Q : x.judge = y.judge => x = y
      /\ Timed(Q) /\ TimeOf(Q) = TimeOf(nodes[n])
  BY <1>1, <1>4, <1>5, RequeuedEntries
<1> HIDE DEF Q, h, o, s, i
<1>7. /\ dispatched \subseteq submitted' \X Node /\ shared_key' \subseteq Node
      /\ submitted' \subseteq Judge
  BY <1>2 DEF IInv, Histories
<1>8. /\ Timed(nodes[NODE_ZERO]) /\ TimeOf(nodes[NODE_ZERO]) \in Nat
      /\ TimeOf(nodes[n]) \in Nat
  BY <1>1, ShapeTimed DEF IInv
<1>9. nodes[NODE_ZERO] \cap Q = {}
  BY <1>1, <1>5, <1>6
<1>10. Shape(h, o, s, node_time')
  <2>1. IsFiniteSet(nodes[NODE_ZERO] \cup Q)
    BY <1>6, <1>8, FS_Union DEF Timed
  <2>2. \A m \in DOMAIN h : h[m] \in SUBSET EntrySet /\ IsFiniteSet(h[m])
    BY <1>1, <1>3, <1>4, <1>6, <2>1
  <2>3. \A m \in DOMAIN h : s[m] \in Nat
    BY <1>1, <1>3, <1>4, <1>8
  <2>4. \A m \in DOMAIN h : /\ o[m] \in (Judge \X Nat) \cup {None}
                            /\ node_time'[m] \in Nat
    BY <1>3, <1>4
  <2>5. DOMAIN h \subseteq Node \cup {NODE_ZERO} /\ NODE_ZERO \in DOMAIN h
    BY <1>1, <1>3 DEF IInv, Shape
  <2> QED
    BY <1>3, <2>2, <2>3, <2>4, <2>5 DEF Shape
<1>11. Indexed(s, shared_key', i)
  <2>1. Indexed(nodes_sz, shared_key, nodes_by_sz)
    BY DEF IInv
  <2>2. \A p \in i : p \in nodes_by_sz /\ p[2] # n
    BY <2>1 DEF i, Indexed
  <2>3. \A m \in shared_key \ {n} : <<nodes_sz[m], m>> \in i
    BY <2>1 DEF i, Indexed
  <2>4. \A m \in shared_key \ {n} : m \in DOMAIN h \ {NODE_ZERO} /\ s[m] = nodes_sz[m]
    BY <1>1, <1>3, <2>1 DEF Indexed
  <2> QED
    BY <1>2, <1>3, <2>1, <2>2, <2>3, <2>4 DEF Indexed
<1>12. Accounted(h, o, s)
  <2>1. TimeOf(nodes[NODE_ZERO] \cup Q) = TimeOf(nodes[NODE_ZERO]) + TimeOf(Q)
    BY <1>6, <1>8, <1>9, TimeOfUnion
  <2>2. TimeOf(h[NODE_ZERO]) = TimeOf(nodes[NODE_ZERO]) + TimeOf(nodes[n])
    BY <1>3, <1>6, <2>1
  <2>3. nodes_sz[NODE_ZERO] >= TimeOf(nodes[NODE_ZERO]) /\ nodes_sz[NODE_ZERO] \in Nat
    BY <1>1, <1>4 DEF IInv, Accounted
  <2>4. s[NODE_ZERO] = nodes_sz[NODE_ZERO] + TimeOf(nodes[n])
    BY <1>3
  <2>5. s[NODE_ZERO] >= TimeOf(h[NODE_ZERO])
    BY <1>8, <2>2, <2>3, <2>4
  <2>6. \A m \in DOMAIN h \ {NODE_ZERO} : s[m] = o[m][2] + TimeOf(h[m])
    BY <1>3 DEF IInv, Accounted
  <2> QED
    BY <2>5, <2>6 DEF Accounted
<1>13. Keyed(h, o, shared_key') /\ NoneIdle(h, o)
  BY <1>2, <1>3 DEF IInv, Keyed, NoneIdle
<1>14. Bounded(h, s, node_time')
  BY <1>3 DEF IInv, Bounded
<1>15. Placed(h, o, dispatched, submitted')
  <2>1. \A m \in DOMAIN h : \A x \in h[m] : \E l \in DOMAIN nodes : \E e \in nodes[l] :
          /\ e.judge = x.judge
          /\ \/ l = m /\ e = x
             \/ l = n /\ m = NODE_ZERO /\ x \in Q
    BY <1>1, <1>3, <1>6
  <2>2. ASSUME NEW l \in DOMAIN h, NEW m \in DOMAIN h, NEW x \in h[l], NEW y \in h[m],
               x.judge = y.judge
        PROVE  l = m /\ x = y
    <3>1. CASE l = NODE_ZERO /\ x \in Q /\ m = NODE_ZERO /\ y \in Q
      BY <1>6, <2>2, <3>1
    <3>2. CASE x \in nodes[l] /\ y \in nodes[m]
      BY <1>3, <1>5, <2>2, <3>2
    <3>3. CASE l = NODE_ZERO /\ x \in Q /\ y \in nodes[m]
      BY <1>1, <1>3, <1>5, <1>6, <2>2, <3>3
    <3>4. CASE m = NODE_ZERO /\ y \in Q /\ x \in nodes[l]
      BY <1>1, <1>3, <1>5, <1>6, <2>2, <3>4
    <3> QED
      BY <1>3, <3>1, <3>2, <3>3, <3>4
  <2>3. \A m \in DOMAIN h : \A x \in h[m] :
          x.judge \in submitted' /\ \A d \in dispatched : d[1] # x.judge
    BY <1>2, <2>1 DEF IInv, Placed
  <2> QED
    BY <1>3, <2>2, <2>3 DEF IInv, Placed
<1> QED
  BY <1>2, <1>7, <1>10, <1>11, <1>12, <1>13, <1>14, <1>15, RebalanceEffect DEF IInv, Histories

-----------------------------------------------------------------------------
(* The theorems.                                                           *)

(* No handler but that of a stale Touch stops the actor, and all of them   *)
(* keep the invariant.                                                     *)
LEMMA StepIInv ==
  ASSUME IInv, [Next]_vars
  PROVE  IInv' /\ (running /\ ~running' => \E n \in Node : TouchMissing(n))
<1>1. CASE \E n \in Node : Register(n)
  BY <1>1, RegisterIInv
<1>2. CASE \E n \in Node : Promote(n)
  BY <1>2, PromoteIInv
<1>3. CASE \E n \in Node : Touch(n)
  BY <1>3, TouchIInv
<1>4. CASE \E n \in Node : TouchMissing(n)
  BY <1>4, TouchMissingIInv
<1>5. CASE \E n \in Node : Unregister(n)
  BY <1>5, UnregisterIInv
<1>6. CASE \E j \in Judge, t \in TotalTime, w \in Weight : Push(j, t, w)
  BY <1>6, PushIInv
<1>7. CASE ForceRebalance
  BY <1>7, ForceRebalanceIInv
<1>8. CASE UNCHANGED vars
  BY <1>8 DEF vars, IInv, Histories
<1> QED
  BY <1>1, <1>2, <1>3, <1>4, <1>5, <1>6, <1>7, <1>8 DEF Next

(* The invariant holds in every reachable state.                           *)
THEOREM Inductive == Spec => []IInv
<1>1. IInv /\ [Next]_vars => IInv'
  BY StepIInv
<1> QED
  BY InitIInv, <1>1, PTL DEF Spec

(* The invariant gives the types.                                          *)
LEMMA IInvTypes == IInv => TypeOK
<1> SUFFICES ASSUME IInv PROVE TypeOK
  OBVIOUS
<1>1. nodes_by_sz \subseteq Nat \X Node
  <2>1. \A p \in nodes_by_sz : /\ p[2] \in shared_key /\ p[2] \in DOMAIN nodes_sz
                               /\ p = <<nodes_sz[p[2]], p[2]>>
    BY DEF IInv, Indexed
  <2>2. \A n \in shared_key : n \in Node
    BY DEF IInv, Histories
  <2>3. \A n \in DOMAIN nodes_sz : nodes_sz[n] \in Nat
    BY DEF IInv, Shape
  <2> QED
    BY <2>1, <2>2, <2>3
<1> QED
  BY <1>1 DEF IInv, Shape, Histories, TypeOK

(* The maps keep their types and the same keys, and no size ever goes      *)
(* below zero: the subtraction of touch does not wrap around.              *)
THEOREM TypeCorrect == Spec => []TypeOK
BY IInvTypes, Inductive, PTL

(* The index holds exactly the ready nodes with their current sizes, so    *)
(* the node selector of push and rebalance always picks a registered node  *)
(* with an established key.                                                *)
THEOREM IndexIsConsistent == Spec => []IndexConsistent
<1>1. IInv => IndexConsistent
  <2> SUFFICES ASSUME IInv PROVE IndexConsistent
    OBVIOUS
  <2>1. Indexed(nodes_sz, shared_key, nodes_by_sz) /\ DOMAIN nodes_sz = DOMAIN nodes
    BY DEF IInv, Shape
  <2>2. nodes_by_sz \subseteq {<<nodes_sz[n], n>> : n \in shared_key}
    BY <2>1 DEF Indexed
  <2>3. {<<nodes_sz[n], n>> : n \in shared_key} \subseteq nodes_by_sz
    BY <2>1 DEF Indexed
  <2> QED
    BY <2>1, <2>2, <2>3 DEF Indexed, IndexConsistent
<1> QED
  BY <1>1, Inductive, PTL

(* The size of a node is always the work it has queued and outstanding.    *)
THEOREM WorkIsAccounted == Spec => []WorkAccounted
<1>1. IInv => WorkAccounted
  BY DEF IInv, Accounted, WorkAccounted
<1> QED
  BY <1>1, Inductive, PTL

(* No node waits with judgements in its own queue.                         *)
THEOREM NodesAreBusy == Spec => []NoIdleBacklog
<1>1. IInv => NoIdleBacklog
  BY DEF IInv, Keyed, NoneIdle, NoIdleBacklog
<1> QED
  BY <1>1, Inductive, PTL

(* A judgement is queued at one place at most and dispatched once at most. *)
THEOREM DispatchedOnce == Spec => []OnePlace
<1>1. IInv => OnePlace
  BY DEF IInv, Placed, OnePlace
<1> QED
  BY <1>1, Inductive, PTL

(* Deadlines stay between the clock of a node and the end of its work.     *)
THEOREM DeadlinesBounded == Spec => []DeadlineBounds
<1>1. IInv => DeadlineBounds
  BY DEF IInv, Bounded, DeadlineBounds
<1> QED
  BY <1>1, Inductive, PTL

(* The actor survives every order of messages without a stale Touch.       *)
THEOREM PanicsOnlyOnStaleTouch == Spec => PanicOnlyOnStaleTouch
<1>1. IInv /\ [Next]_vars
        => [running /\ ~running' => \E n \in Node : TouchMissing(n)]_vars
  BY StepIInv
<1> QED
  BY <1>1, Inductive, PTL DEF Spec, PanicOnlyOnStaleTouch
=============================================================================
