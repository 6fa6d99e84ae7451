----------------------------- MODULE Dispatching -----------------------------
(***************************************************************************)
(* What a scheduler of judgements promises, without queues, sizes or       *)
(* deadlines: a judgement that was asked for waits until it is handed to   *)
(* one node, which has finished its handshake and is serving nothing else; *)
(* it is handed out at most once, and while it waits it may be dropped     *)
(* only at a moment when nodes have joined and none of them is ready.      *)
(***************************************************************************)
EXTENDS Naturals, Functions

CONSTANTS Node, Judge      \* 0 is not a judgement

VARIABLES
  asked,     \* judgements asked for so far
  waiting,   \* those that wait for a node
  handed,    \* <<judgement, node>> for every hand-out so far
  joined,    \* nodes that have joined
  ready,     \* those of them that have finished their handshake
  serving    \* the judgement each node is busy with, or 0

dvars == <<asked, waiting, handed, joined, ready, serving>>

Init ==
  /\ asked = {} /\ waiting = {} /\ handed = {}
  /\ joined = {} /\ ready = {}
  /\ serving = [n \in Node |-> 0]

Free(busy) == {n \in ready' : busy[n] = 0}

(* Some of the free nodes get a judgement each, out of pool.               *)
HandOut(pool, busy, free) ==
  \E S \in SUBSET free : \E pick \in Injection(S, pool) :
    /\ waiting' = pool \ Range(pick)
    /\ serving' = [n \in Node |-> IF n \in S THEN pick[n] ELSE busy[n]]
    /\ handed' = handed \cup {<<pick[n], n>> : n \in S}

(* Nobody is ready: everything that waits is dropped.                      *)
Drop(busy) ==
  /\ joined' # {} /\ ready' = {}
  /\ waiting' = {}
  /\ serving' = busy
  /\ UNCHANGED handed

Ask(j) ==
  /\ j \notin asked
  /\ asked' = asked \cup {j}
  /\ UNCHANGED <<joined, ready>>
  /\ HandOut(waiting \cup {j}, serving, Free(serving))

Join(n) ==
  /\ n \notin joined
  /\ joined' = joined \cup {n}
  /\ UNCHANGED <<asked, ready>>
  /\ HandOut(waiting, serving, Free(serving)) \/ Drop(serving)

Establish(n) ==
  /\ n \in joined
  /\ ready' = ready \cup {n}
  /\ UNCHANGED <<asked, waiting, handed, joined, serving>>

Finish(n) ==
  /\ n \in joined
  /\ UNCHANGED <<asked, joined, ready>>
  /\ LET busy == [serving EXCEPT ![n] = 0]
     IN  HandOut(waiting, busy, {n} \cap Free(busy))

Leave(n) ==
  /\ n \in joined
  /\ joined' = joined \ {n}
  /\ ready' = ready \ {n}
  /\ UNCHANGED asked
  /\ LET busy == [serving EXCEPT ![n] = 0]
     IN  HandOut(waiting, busy, Free(busy)) \/ Drop(busy)

Balance ==
  /\ UNCHANGED <<asked, joined, ready>>
  /\ HandOut(waiting, serving, Free(serving)) \/ Drop(serving)

Next ==
  \/ \E j \in Judge : Ask(j)
  \/ \E n \in Node : Join(n) \/ Establish(n) \/ Finish(n) \/ Leave(n)
  \/ Balance

Spec == Init /\ [][Next]_dvars
=============================================================================
