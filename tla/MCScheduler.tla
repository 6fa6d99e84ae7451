----------------------------- MODULE MCScheduler -----------------------------
(***************************************************************************)
(* The checks of Scheduler that need more than its own definitions: that   *)
(* it implements Dispatching, and that the placement of rebalance is what  *)
(* its loop computes.                                                      *)
(***************************************************************************)
EXTENDS Scheduler

(* The refinement mapping.                                                 *)
Promise == INSTANCE Dispatching WITH
  asked   <- submitted,
  waiting <- Waiting,
  handed  <- dispatched,
  joined  <- DOMAIN nodes \ {NODE_ZERO},
  ready   <- shared_key,
  serving <- [n \in Node |-> IF n \in DOMAIN pending THEN pending[n][1] ELSE 0]

(* The scheduler implements what Dispatching promises: every hand-out goes *)
(* to a ready node that is free, each judgement at most once, and only a   *)
(* step with no ready node drops what waits.                               *)
ImplementsDispatching == Promise!Spec

(* The loop of rebalance, one popped entry after the other, on the index   *)
(* alone: the least element is taken out and put back with its new size.   *)
PlaceNext(acc, e) ==
  LET p == CHOOSE q \in acc.index : IsLeast(q, acc.index)
  IN  [index |-> (acc.index \ {p}) \cup {<<p[1] + e.time, p[2]>>},
       to    |-> Insert(acc.to, e, p[2])]

\* The entry of a heap that is popped last.
LastOf(S) == CHOOSE e \in S : \A f \in S \ {e} : Before(f, e)

\* The loop after it has popped the entries S.
Rounds(heap, index) ==
  LET acc[S \in SUBSET heap] ==
        IF S = {} THEN [index |-> index, to |-> <<>>]
        ELSE PlaceNext(acc[S \ {LastOf(S)}], LastOf(S))
  IN  acc

Loop(heap, index) == Rounds(heap, index)[heap]

(* In every reachable state the placement that Rebalance specifies exists, *)
(* is unique and is the one the loop of rebalance arrives at, and the sums *)
(* by which Rebalance updates the index are what the loop leaves there.    *)
PlacementIsLoop ==
  LET heap == nodes[NODE_ZERO]
      loop == Loop(heap, nodes_by_sz)
  IN  nodes_by_sz # {} =>
        /\ {to \in [heap -> Ready(nodes_by_sz)] : IsPlacement(to, heap, nodes_by_sz)}
             = {loop.to}
        /\ loop.index = {<<p[1] + TimeOf({e \in heap : loop.to[e] = p[2]}), p[2]>>
                           : p \in nodes_by_sz}
=============================================================================
