------------------------------ MODULE Scheduler ------------------------------
(***************************************************************************)
(* The judge scheduler, the actor ByDeadlineWeighted of                    *)
(* src/scheduler/by_deadline.rs.  It keeps one priority queue of           *)
(* judgements per judging node, sends a new judgement to the node with the *)
(* least outstanding work, and hands a node its next judgement in the      *)
(* order of their deadlines.  Judgements that find no node wait in the     *)
(* queue of NODE_ZERO.                                                     *)
(*                                                                         *)
(* One action per SchedulerIssue message.  The actor handles a message to  *)
(* its end before it takes the next one, so each action is a whole         *)
(* handler, with the rebalance and touch calls it ends in.                 *)
(*                                                                         *)
(* UUIDs are naturals: Uuid::nil() is 0 and the order of the naturals is   *)
(* the order of the UUIDs, which breaks every tie.  The shared secrets are *)
(* left out, shared_key is the set of the nodes that have one.             *)
(***************************************************************************)
EXTENDS Integers, FiniteSets, Functions

CONSTANTS
  Node,       \* UUIDs of the nodes that may connect
  Judge,      \* UUIDs of the judgements that clients may request
  TotalTime   \* the estimated_time values (ms) of their requests

ASSUME NodeAssumption  == Node \subseteq Nat \ {0}
ASSUME JudgeAssumption == Judge \subseteq Nat \ {0}
ASSUME TimeAssumption  == TotalTime \subseteq Nat

NODE_ZERO == 0
Weight    == {1, 2}          \* PrioirityWeight::First, ::Second
None      == <<0, 0>>        \* (Uuid::nil(), 0): nothing outstanding

VARIABLES
  nodes,        \* queue of each registered node: a set of entries
  shared_key,   \* nodes whose handshake is established
  pending,      \* <<judgement, time>> a node was handed last, or None
  nodes_sz,     \* work queued at or outstanding on each node
  nodes_by_sz,  \* index: set of <<size, node>>, the node selector reads it
  node_time,    \* work a node has completed since it registered
  dispatched,   \* DispatchJudge messages sent: set of <<judgement, node>>
  submitted,    \* judgements pushed so far (history)
  running       \* FALSE once a handler of the actor has panicked

vars == <<nodes, shared_key, pending, nodes_sz, nodes_by_sz, node_time,
          dispatched, submitted, running>>

-----------------------------------------------------------------------------
(* The collections.                                                        *)

\* HashMap::insert on a map without the key, or replacing its value.
Insert(map, key, val) ==
  [k \in DOMAIN map \cup {key} |-> IF k = key THEN val ELSE map[k]]

\* Mutant of Without: the element is left in the map.
WithoutEffect(map, key) == map

\* HashMap::remove.
Without(map, key) == Restrict(map, DOMAIN map \ {key})

\* Mutant of Entry: every deadline is 0, as in the queue of NODE_ZERO.
EntryUndated(d, t, j) == [deadline |-> 0, time |-> t, judge |-> j]

\* (Reverse(deadline), Reverse(time), uuid), an element of a node's heap.
Entry(d, t, j) == [deadline |-> d, time |-> t, judge |-> j]

\* e leaves a heap before f: the greatest element leaves first.
Before(e, f) ==
  \/ e.deadline < f.deadline
  \/ e.deadline = f.deadline /\ e.time < f.time
  \/ e.deadline = f.deadline /\ e.time = f.time /\ e.judge > f.judge

\* BinaryHeap::pop takes e from heap.
IsTop(e, heap) == e \in heap /\ \A f \in heap \ {e} : Before(e, f)

\* nodes_by_sz.iter().nth(0) is p.
IsLeast(p, index) ==
  /\ p \in index
  /\ \A q \in index \ {p} : p[1] < q[1] \/ (p[1] = q[1] /\ p[2] < q[2])

Ready(index) == {p[2] : p \in index}
SizeOf(index, n) == (CHOOSE p \in index : p[2] = n)[1]

\* The sum of the times in a heap, counted millisecond by millisecond: in this
\* form the theorems about finite sets apply to it.
TimeOf(heap) == Cardinality(UNION {{e} \X (1 .. e.time) : e \in heap})

-----------------------------------------------------------------------------
(* Mutant of Serve: the judgement is not remembered as pending.            *)
ServeForgets(S, heaps, outstanding) ==
  LET served == {n \in S : heaps[n] # {}}
  IN  \E top \in [served -> UNION {heaps[n] : n \in served}] :
        /\ \A n \in served : IsTop(top[n], heaps[n])
        /\ nodes' = [n \in DOMAIN heaps |->
                       IF n \in served THEN heaps[n] \ {top[n]} ELSE heaps[n]]
        /\ pending' = outstanding
        /\ dispatched' = dispatched \cup
                           {<<top[n].judge, n>> : n \in served \cap shared_key'}
        /\ running' = (served \subseteq shared_key')

(* The second half of touch, for every node of S: pop the next judgement,  *)
(* remember it as pending and send DispatchJudge.  heaps and outstanding   *)
(* are nodes and pending as the caller left them.  Indexing shared_key     *)
(* panics when the node has no key.                                        *)
Serve(S, heaps, outstanding) ==
  LET served == {n \in S : heaps[n] # {}}
  IN  \E top \in [served -> UNION {heaps[n] : n \in served}] :
        /\ \A n \in served : IsTop(top[n], heaps[n])
        /\ nodes' = [n \in DOMAIN heaps |->
                       IF n \in served THEN heaps[n] \ {top[n]} ELSE heaps[n]]
        /\ pending' = [n \in DOMAIN outstanding |->
                         IF n \in served THEN <<top[n].judge, top[n].time>>
                                         ELSE outstanding[n]]
        /\ dispatched' = dispatched \cup
                           {<<top[n].judge, n>> : n \in served \cap shared_key'}
        /\ running' = (served \subseteq shared_key')

(* Mutant of IsPlacement: sizes are not updated between two entries.       *)
IsPlacementStale(to, heap, index) ==
  \A e \in heap : \A n \in Ready(index) \ {to[e]} :
    \/ SizeOf(index, to[e]) < SizeOf(index, n)
    \/ SizeOf(index, to[e]) = SizeOf(index, n) /\ to[e] < n

(* Where rebalance puts the entries of NODE_ZERO's heap: they are popped   *)
(* in order and each goes to the node that is least loaded by then.        *)
IsPlacement(to, heap, index) ==
  \A e \in heap :
    LET size(n) == SizeOf(index, n)
                     + TimeOf({f \in heap : Before(f, e) /\ to[f] = n})
    IN  \A n \in Ready(index) \ {to[e]} :
          \/ size(to[e]) < size(n)
          \/ size(to[e]) = size(n) /\ to[e] < n

(* rebalance, on the maps as the caller left them (node_time and           *)
(* shared_key are final by then).  With no node in the index every popped  *)
(* entry goes to the local vector `returns`, which nothing reads.          *)
Rebalance(heaps, outstanding, sizes, index) ==
  LET waiting == heaps[NODE_ZERO]
  IN  \/ /\ Cardinality(DOMAIN heaps) <= 1
         /\ nodes' = heaps
         /\ pending' = outstanding /\ nodes_sz' = sizes /\ nodes_by_sz' = index
         /\ UNCHANGED <<dispatched, running>>
      \/ /\ Cardinality(DOMAIN heaps) > 1
         /\ index = {}
         /\ nodes' = [heaps EXCEPT ![NODE_ZERO] = {}]
         /\ pending' = outstanding /\ nodes_sz' = sizes /\ nodes_by_sz' = index
         /\ UNCHANGED <<dispatched, running>>
      \/ /\ Cardinality(DOMAIN heaps) > 1
         /\ index # {}
         /\ \E to \in [waiting -> Ready(index)] :
              LET given(n) == {e \in waiting : to[e] = n}
                  used     == {to[e] : e \in waiting}
                  filled   == [n \in DOMAIN heaps |->
                                 IF n = NODE_ZERO THEN {}
                                 ELSE heaps[n] \cup
                                      {Entry(node_time'[n] + e.time, e.time, e.judge)
                                         : e \in given(n)}]
              IN  /\ IsPlacement(to, waiting, index)
                  /\ nodes_by_sz' = {<<p[1] + TimeOf(given(p[2])), p[2]>> : p \in index}
                  /\ nodes_sz' = [n \in DOMAIN sizes |->
                                    IF n \in used THEN SizeOf(nodes_by_sz', n)
                                                  ELSE sizes[n]]
                  /\ Serve({n \in used : outstanding[n] = None}, filled, outstanding)

-----------------------------------------------------------------------------
(* ByDeadlineWeighted::start. *)
Init ==
  /\ nodes       = [n \in {NODE_ZERO} |-> {}]
  /\ pending     = [n \in {NODE_ZERO} |-> None]
  /\ nodes_sz    = [n \in {NODE_ZERO} |-> 0]
  /\ node_time   = [n \in {NODE_ZERO} |-> 0]
  /\ shared_key  = {}
  /\ nodes_by_sz = {}
  /\ dispatched  = {}
  /\ submitted   = {}
  /\ running     = TRUE

(* SchedulerIssue::NewNode: register.  NodeAlreadyExists changes nothing. *)
Register(n) ==
  /\ running
  /\ n \notin DOMAIN nodes
  /\ node_time' = Insert(node_time, n, 0)
  /\ UNCHANGED <<shared_key, submitted>>
  /\ Rebalance(Insert(nodes, n, {}), Insert(pending, n, None),
               Insert(nodes_sz, n, 0), nodes_by_sz)

(* Mutant of Promote: the shared secret is not stored.                     *)
PromoteWithoutKey(n) ==
  /\ running
  /\ n \in DOMAIN nodes
  /\ nodes_by_sz' = nodes_by_sz \cup {<<nodes_sz[n], n>>}
  /\ UNCHANGED <<nodes, shared_key, pending, nodes_sz, node_time, dispatched,
                 submitted, running>>

(* Mutant of Promote: the node is indexed as if it were new.               *)
PromoteAsNew(n) ==
  /\ running
  /\ n \in DOMAIN nodes
  /\ shared_key' = shared_key \cup {n}
  /\ nodes_by_sz' = nodes_by_sz \cup {<<0, n>>}
  /\ UNCHANGED <<nodes, pending, nodes_sz, node_time, dispatched, submitted, running>>

(* SchedulerIssue::HandshakeEstablished: promote.  A node may repeat its  *)
(* handshake.  The queue of NODE_ZERO is not looked at.                   *)
Promote(n) ==
  /\ running
  /\ n \in DOMAIN nodes
  /\ shared_key' = shared_key \cup {n}
  /\ nodes_by_sz' = nodes_by_sz \cup {<<nodes_sz[n], n>>}
  /\ UNCHANGED <<nodes, pending, nodes_sz, node_time, dispatched, submitted, running>>

(* Mutant of Push: the size of the node grows by the unweighted time.      *)
PushUnweighted(j, total_time, weight) ==
  LET time == total_time * weight
  IN  /\ running
      /\ j \notin submitted
      /\ submitted' = submitted \cup {j}
      /\ UNCHANGED <<shared_key, node_time>>
      /\ \/ /\ nodes_by_sz = {}
            /\ nodes' = [nodes EXCEPT ![NODE_ZERO] = @ \cup {Entry(0, time, j)}]
            /\ nodes_sz' = [nodes_sz EXCEPT ![NODE_ZERO] = @ + time]
            /\ UNCHANGED <<pending, nodes_by_sz, dispatched, running>>
         \/ \E p \in nodes_by_sz :
              LET id     == p[2]
                  new_sz == p[1] + total_time
              IN  /\ IsLeast(p, nodes_by_sz)
                  /\ nodes_sz' = [nodes_sz EXCEPT ![id] = new_sz]
                  /\ nodes_by_sz' = (nodes_by_sz \ {p}) \cup {<<new_sz, id>>}
                  /\ Serve(IF pending[id] = None THEN {id} ELSE {},
                           [nodes EXCEPT ![id] =
                              @ \cup {Entry(node_time[id] + time, time, j)}],
                           pending)

(* SchedulerIssue::NewTask: push.  Clients give every request a UUID of   *)
(* its own, so a judgement is pushed once.                                *)
Push(j, total_time, weight) ==
  LET time == total_time * weight
  IN  /\ running
      /\ j \notin submitted
      /\ submitted' = submitted \cup {j}
      /\ UNCHANGED <<shared_key, node_time>>
      /\ \/ /\ nodes_by_sz = {}
            /\ nodes' = [nodes EXCEPT ![NODE_ZERO] = @ \cup {Entry(0, time, j)}]
            /\ nodes_sz' = [nodes_sz EXCEPT ![NODE_ZERO] = @ + time]
            /\ UNCHANGED <<pending, nodes_by_sz, dispatched, running>>
         \/ \E p \in nodes_by_sz :
              LET id     == p[2]
                  new_sz == p[1] + time
              IN  /\ IsLeast(p, nodes_by_sz)
                  /\ nodes_sz' = [nodes_sz EXCEPT ![id] = new_sz]
                  /\ nodes_by_sz' = (nodes_by_sz \ {p}) \cup {<<new_sz, id>>}
                  /\ Serve(IF pending[id] = None THEN {id} ELSE {},
                           [nodes EXCEPT ![id] =
                              @ \cup {Entry(node_time[id] + time, time, j)}],
                           pending)

(* Mutant of Touch: the work that is done stays in the size of the node.   *)
TouchKeepsSize(n) ==
  LET sz == pending[n][2]
  IN  /\ running
      /\ n \in DOMAIN nodes
      /\ UNCHANGED <<shared_key, submitted, nodes_sz, nodes_by_sz>>
      /\ node_time' = [node_time EXCEPT ![n] = @ + sz]
      /\ Serve({n}, nodes, [pending EXCEPT ![n] = None])

(* SchedulerIssue::Touch: the node is done with its pending judgement, if *)
(* it has one, and gets the next one.                                     *)
Touch(n) ==
  LET sz == pending[n][2]
  IN  /\ running
      /\ n \in DOMAIN nodes
      /\ UNCHANGED <<shared_key, submitted>>
      /\ IF pending[n][1] = 0
         THEN UNCHANGED <<nodes_sz, nodes_by_sz, node_time>>
         ELSE /\ nodes_sz' = [nodes_sz EXCEPT ![n] = @ - sz]
              /\ nodes_by_sz' = (nodes_by_sz \ {<<nodes_sz[n], n>>})
                                  \cup {<<nodes_sz[n] - sz, n>>}
              /\ node_time' = [node_time EXCEPT ![n] = @ + sz]
      /\ Serve({n}, nodes,
               IF pending[n][1] = 0 THEN pending ELSE [pending EXCEPT ![n] = None])

(* Touch for a node that is not registered indexes pending, and panics.   *)
TouchMissing(n) ==
  /\ running
  /\ n \notin DOMAIN nodes
  /\ running' = FALSE
  /\ UNCHANGED <<nodes, shared_key, pending, nodes_sz, nodes_by_sz, node_time,
                 dispatched, submitted>>

(* Mutant of Unregister: the queue of the node is not put back.            *)
UnregisterDropsQueue(n) ==
  /\ running
  /\ n \in DOMAIN nodes
  /\ node_time' = Without(node_time, n)
  /\ shared_key' = shared_key \ {n}
  /\ UNCHANGED submitted
  /\ Rebalance(Without(nodes, n), Without(pending, n), Without(nodes_sz, n),
               nodes_by_sz \ {<<nodes_sz[n], n>>})

(* SchedulerIssue::RemoveNode: unregister.  The queued judgements go back *)
(* to NODE_ZERO and are rebalanced; the pending one is forgotten.         *)
Unregister(n) ==
  LET requeued == {Entry(0, e.time, e.judge) : e \in nodes[n]}
  IN  /\ running
      /\ n \in DOMAIN nodes
      /\ node_time' = Without(node_time, n)
      /\ shared_key' = shared_key \ {n}
      /\ UNCHANGED submitted
      /\ Rebalance([Without(nodes, n) EXCEPT ![NODE_ZERO] = @ \cup requeued],
                   Without(pending, n),
                   [Without(nodes_sz, n) EXCEPT ![NODE_ZERO] = @ + TimeOf(nodes[n])],
                   nodes_by_sz \ {<<nodes_sz[n], n>>})

(* SchedulerIssue::ForceRebalance. *)
ForceRebalance ==
  /\ running
  /\ UNCHANGED <<node_time, shared_key, submitted>>
  /\ Rebalance(nodes, pending, nodes_sz, nodes_by_sz)

Next ==
  \/ \E n \in Node : Register(n)
  \/ \E n \in Node : Promote(n)
  \/ \E n \in Node : Touch(n)
  \/ \E n \in Node : TouchMissing(n)
  \/ \E n \in Node : Unregister(n)
  \/ \E j \in Judge, t \in TotalTime, w \in Weight : Push(j, t, w)
  \/ ForceRebalance

Spec == Init /\ [][Next]_vars

-----------------------------------------------------------------------------
(* Invariants.                                                             *)

EntrySet == [deadline : Nat, time : Nat, judge : Judge]
Waiting  == {e.judge : e \in UNION {nodes[n] : n \in DOMAIN nodes}}
Sent     == {d[1] : d \in dispatched}
Lost     == submitted \ (Waiting \cup Sent)

(* The types of the maps, which always have the same keys, and that no     *)
(* size goes below zero: touch subtracts in u64.                           *)
TypeOK ==
  /\ NODE_ZERO \in DOMAIN nodes /\ DOMAIN nodes \subseteq Node \cup {NODE_ZERO}
  /\ nodes \in [DOMAIN nodes -> SUBSET EntrySet]
  /\ pending \in [DOMAIN nodes -> (Judge \X Nat) \cup {None}]
  /\ nodes_sz \in [DOMAIN nodes -> Nat]
  /\ node_time \in [DOMAIN nodes -> Nat]
  /\ shared_key \subseteq Node
  /\ nodes_by_sz \subseteq Nat \X Node
  /\ dispatched \subseteq submitted \X Node /\ submitted \subseteq Judge
  /\ running \in BOOLEAN

(* The index holds exactly the nodes whose handshake is established, each  *)
(* once, with its current size.  Every lookup the selector makes rests on  *)
(* this: a stale or double element sends a judgement to a node that is     *)
(* gone, and the lookups of that node panic.                               *)
IndexConsistent ==
  /\ shared_key \subseteq DOMAIN nodes \ {NODE_ZERO}
  /\ nodes_by_sz = {<<nodes_sz[n], n>> : n \in shared_key}

(* The size of a node is the work queued at it and the work outstanding on *)
(* it, through any order of pushes, touches and rebalances; what NODE_ZERO *)
(* has accumulated covers its queue.  Hence the subtraction of touch never *)
(* goes below zero.                                                        *)
WorkAccounted ==
  /\ \A n \in DOMAIN nodes \ {NODE_ZERO} :
       nodes_sz[n] = pending[n][2] + TimeOf(nodes[n])
  /\ nodes_sz[NODE_ZERO] >= TimeOf(nodes[NODE_ZERO])

(* No node is left idle with judgements in its queue, since only a touch   *)
(* or a push would ever look at that queue again; and a node without an    *)
(* established handshake, for which touch has no key, has nothing at all.  *)
NoIdleBacklog ==
  \A n \in DOMAIN nodes \ {NODE_ZERO} :
    /\ nodes[n] # {} => pending[n] # None
    /\ (nodes[n] # {} \/ pending[n] # None) => n \in shared_key

(* A judgement is in at most one place: one entry of one queue, or sent to *)
(* one node.  So it is dispatched at most once, whatever nodes leave, come *)
(* back or repeat their handshake in between.                              *)
OnePlace ==
  /\ \A m, n \in DOMAIN nodes : \A e \in nodes[m], f \in nodes[n] :
       e.judge = f.judge => m = n /\ e = f
  /\ \A n \in DOMAIN nodes : \A e \in nodes[n] :
       e.judge \in submitted /\ \A d \in dispatched : d[1] # e.judge
  /\ \A c, d \in dispatched : c[1] = d[1] => c[2] = d[2]
  /\ \A n \in DOMAIN nodes :
       pending[n] # None => <<pending[n][1], n>> \in dispatched

(* The deadline of a queued judgement is its own time after a moment the   *)
(* node's clock has reached, and no later than the moment at which the     *)
(* node would be through with all its work.                                *)
DeadlineBounds ==
  \A n \in DOMAIN nodes \ {NODE_ZERO} : \A e \in nodes[n] :
    /\ e.time <= e.deadline /\ e.deadline - e.time <= node_time[n]
    /\ e.deadline <= node_time[n] + nodes_sz[n]

(* What a node has done and what it has to do, together, never exceed the  *)
(* longest time a request can take for every request there was, however    *)
(* often queues were put back and rebalanced: the sums of push, touch and  *)
(* rebalance for a node, deadlines included, stay within u64 as long as    *)
(* that product does.                                                      *)
WorkBounded ==
  \A limit \in TotalTime : (\A t \in TotalTime : t <= limit) =>
    \A n \in DOMAIN nodes \ {NODE_ZERO} :
      node_time[n] + nodes_sz[n] <= 2 * limit * Cardinality(submitted)

-----------------------------------------------------------------------------
(* Action properties.                                                      *)

(* The actor dies only on a Touch for a node that is not registered: no    *)
(* other sequence of messages makes a lookup of a handler fail.            *)
PanicOnlyOnStaleTouch ==
  [][running /\ ~running' => \E n \in Node : TouchMissing(n)]_vars

(* A waiting judgement is lost only in a step that leaves nodes registered *)
(* of which none has finished its handshake; as long as one node is ready, *)
(* nodes may come and go and no judgement is lost.                         *)
LossOnlyWithoutReadyNode ==
  [][Lost' \subseteq Lost \/ (shared_key' = {} /\ DOMAIN nodes' # {NODE_ZERO})]_vars

(* Once the clock of a node has passed the deadline of a judgement in its  *)
(* queue, what reaches the node later does not get ahead of it.            *)
NoOvertakeOnceDue ==
  [][\A n \in (DOMAIN nodes \cap DOMAIN nodes') \ {NODE_ZERO} :
       \A e \in nodes[n] : e.deadline < node_time[n] =>
         /\ \A f \in nodes'[n] \ nodes[n] : Before(e, f)
         /\ e \in nodes'[n] => \A d \in dispatched' \ dispatched :
              d[2] = n => \E f \in nodes[n] : f.judge = d[1]]_vars

-----------------------------------------------------------------------------
(* What the tests expect.  src/tests/mod.rs submits a judgement before any *)
(* node has connected and waits for its verdict, so a judgement that was   *)
(* pushed must stay queued until it is sent to a node.                     *)
NoTaskLost == Lost = {}
=============================================================================
