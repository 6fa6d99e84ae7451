-------------------------------- MODULE Mailboxes -------------------------------
(***************************************************************************)
(* Facts about the mailboxes of actors, sequences that senders append to   *)
(* and handlers take the head of: which messages are in them, where, and   *)
(* how many.                                                               *)
(***************************************************************************)
EXTENDS Integers, Sequences, FiniteSetTheorems, TLAPS

-----------------------------------------------------------------------------
(* What is in a mailbox.                                                   *)

Content(box) == {box[i] : i \in DOMAIN box}

(* A mailbox of the right type holds messages of that type.                *)
LEMMA ContentOfSeq ==
  ASSUME NEW S, NEW b \in Seq(S)
  PROVE  Content(b) \subseteq S
BY DEF Content

(* A handler takes the head and leaves the rest.                           *)
LEMMA ContentTaken ==
  ASSUME NEW S, NEW b \in Seq(S), b # <<>>
  PROVE  /\ Head(b) \in Content(b) /\ Tail(b) \in Seq(S)
         /\ Content(Tail(b)) \subseteq Content(b)
<1>1. Len(b) \in Nat \ {0} /\ DOMAIN b = 1 .. Len(b) /\ Head(b) = b[1]
  OBVIOUS
<1>2. Tail(b) \in Seq(S) /\ DOMAIN Tail(b) = 1 .. Len(b) - 1
  OBVIOUS
<1>3. \A i \in DOMAIN Tail(b) : Tail(b)[i] = b[i + 1]
  OBVIOUS
<1> QED
  BY <1>1, <1>2, <1>3 DEF Content

(* A sender adds its message at the end.                                   *)
LEMMA ContentAppended ==
  ASSUME NEW S, NEW b \in Seq(S), NEW m \in S
  PROVE  Append(b, m) \in Seq(S) /\ Content(Append(b, m)) = Content(b) \cup {m}
<1>1. /\ DOMAIN b = 1 .. Len(b) /\ Len(b) \in Nat
      /\ DOMAIN Append(b, m) = 1 .. Len(b) + 1
      /\ \A i \in DOMAIN b : Append(b, m)[i] = b[i]
      /\ Append(b, m)[Len(b) + 1] = m
  OBVIOUS
<1> QED
  BY <1>1 DEF Content

(* The scheduler adds several.                                             *)
LEMMA ContentJoined ==
  ASSUME NEW S, NEW b \in Seq(S), NEW c \in Seq(S)
  PROVE  b \o c \in Seq(S) /\ Content(b \o c) = Content(b) \cup Content(c)
<1>1. /\ DOMAIN b = 1 .. Len(b) /\ Len(b) \in Nat
      /\ DOMAIN c = 1 .. Len(c) /\ Len(c) \in Nat
      /\ DOMAIN (b \o c) = 1 .. Len(b) + Len(c)
      /\ \A i \in 1 .. Len(b) : (b \o c)[i] = b[i]
      /\ \A i \in 1 .. Len(b) + Len(c) : i > Len(b) => (b \o c)[i] = c[i - Len(b)]
  OBVIOUS
<1>2. \A i \in DOMAIN c : Len(b) + i \in DOMAIN (b \o c) /\ (b \o c)[Len(b) + i] = c[i]
  BY <1>1
<1>3. \A i \in DOMAIN (b \o c) : i \in DOMAIN b \/ i - Len(b) \in DOMAIN c
  BY <1>1
<1>4. Content(b) \cup Content(c) \subseteq Content(b \o c)
  <2>1. \A i \in DOMAIN b : i \in DOMAIN (b \o c) /\ (b \o c)[i] = b[i]
    BY <1>1
  <2> QED
    BY <1>2, <2>1 DEF Content
<1>5. Content(b \o c) \subseteq Content(b) \cup Content(c)
  <2>1. \A i \in DOMAIN (b \o c) :
          \/ i \in DOMAIN b /\ (b \o c)[i] = b[i]
          \/ i - Len(b) \in DOMAIN c /\ (b \o c)[i] = c[i - Len(b)]
    BY <1>1, <1>3
  <2> QED
    BY <2>1 DEF Content
<1> QED
  BY <1>4, <1>5

-----------------------------------------------------------------------------
(* Where it is.                                                            *)

(* When the head is taken the others move up by one.                       *)
LEMMA PositionsTaken ==
  ASSUME NEW S, NEW b \in Seq(S), b # <<>>
  PROVE  /\ 1 \in DOMAIN b /\ Head(b) = b[1] /\ b[1] \in S
         /\ DOMAIN b \subseteq Nat \ {0} /\ DOMAIN Tail(b) \subseteq Nat \ {0}
         /\ Len(b) \in Nat /\ Len(Tail(b)) = Len(b) - 1
         /\ \A i \in DOMAIN Tail(b) : i + 1 \in DOMAIN b /\ Tail(b)[i] = b[i + 1]
         /\ \A i \in DOMAIN b \ {1} : i - 1 \in DOMAIN Tail(b) /\ Tail(b)[i - 1] = b[i]
         /\ \A m \in Content(b) : m = Head(b) \/ m \in Content(Tail(b))
<1>1. /\ DOMAIN b = 1 .. Len(b) /\ Len(b) \in Nat \ {0} /\ Head(b) = b[1]
      /\ DOMAIN Tail(b) = 1 .. Len(b) - 1 /\ Len(Tail(b)) = Len(b) - 1
      /\ \A i \in DOMAIN Tail(b) : Tail(b)[i] = b[i + 1]
      /\ b[1] \in S
  OBVIOUS
<1>2. \A i \in DOMAIN Tail(b) : i + 1 \in DOMAIN b
  BY <1>1
<1>3. \A i \in DOMAIN b \ {1} : i - 1 \in DOMAIN Tail(b) /\ Tail(b)[i - 1] = b[i]
  <2>1. SUFFICES ASSUME NEW i \in DOMAIN b, i # 1
                 PROVE  i - 1 \in DOMAIN Tail(b) /\ Tail(b)[i - 1] = b[i]
    OBVIOUS
  <2>2. i - 1 \in DOMAIN Tail(b) /\ (i - 1) + 1 = i
    BY <1>1, <2>1
  <2> QED
    BY <1>1, <2>2
<1>4. \A m \in Content(b) : m = Head(b) \/ m \in Content(Tail(b))
  <2>1. SUFFICES ASSUME NEW i \in DOMAIN b, i # 1
                 PROVE  b[i] \in Content(Tail(b))
    BY <1>1 DEF Content
  <2>2. i - 1 \in DOMAIN Tail(b) /\ Tail(b)[i - 1] = b[i]
    BY <1>3, <2>1
  <2> QED
    BY <2>2, Zenon DEF Content
<1> QED
  BY <1>1, <1>2, <1>3, <1>4

(* What is appended comes last.                                            *)
LEMMA PositionsAppended ==
  ASSUME NEW S, NEW b \in Seq(S), NEW m \in S
  PROVE  /\ DOMAIN b \subseteq 1 .. Len(b) /\ Len(b) \in Nat
         /\ DOMAIN Append(b, m) = DOMAIN b \cup {Len(b) + 1}
         /\ Len(Append(b, m)) = Len(b) + 1
         /\ \A i \in DOMAIN b : Append(b, m)[i] = b[i] /\ i < Len(b) + 1
         /\ Append(b, m)[Len(b) + 1] = m
OBVIOUS

-----------------------------------------------------------------------------
(* How often a message of a kind is in a mailbox, and how often one is.    *)

At(box, M)    == {i \in DOMAIN box : box[i] \in M}
Count(box, m) == Cardinality(At(box, {m}))

(* Positions of a mailbox can be counted.                                  *)
LEMMA Positions ==
  ASSUME NEW n \in Nat, NEW I, I \subseteq 1 .. n
  PROVE  IsFiniteSet(I) /\ Cardinality(I) \in Nat
<1>1. IsFiniteSet(1 .. n)
  BY FS_Interval
<1>2. IsFiniteSet(I)
  BY <1>1, FS_Subset
<1> QED
  BY <1>2, FS_CardinalityType

(* A message that is appended counts if it is of the kind that is counted. *)
LEMMA AtAppended ==
  ASSUME NEW S, NEW b \in Seq(S), NEW m \in S, NEW M
  PROVE  /\ At(b, M) \subseteq 1 .. Len(b) /\ Cardinality(At(b, M)) \in Nat
         /\ At(Append(b, m), M) = At(b, M) \cup (IF m \in M THEN {Len(b) + 1} ELSE {})
         /\ Cardinality(At(Append(b, m), M)) =
              Cardinality(At(b, M)) + (IF m \in M THEN 1 ELSE 0)
<1> DEFINE I == At(b, M)
           K == At(Append(b, m), M)
<1>1. /\ DOMAIN b = 1 .. Len(b) /\ Len(b) \in Nat
      /\ DOMAIN Append(b, m) = 1 .. Len(b) + 1
      /\ \A i \in DOMAIN b : Append(b, m)[i] = b[i]
      /\ Append(b, m)[Len(b) + 1] = m
  OBVIOUS
<1>2. I \subseteq 1 .. Len(b)
  BY <1>1 DEF At
<1>3. IsFiniteSet(I) /\ Cardinality(I) \in Nat
  BY <1>1, <1>2, Positions, Zenon
<1>4. K = I \cup (IF m \in M THEN {Len(b) + 1} ELSE {}) /\ Len(b) + 1 \notin I
  BY <1>1 DEF At
<1> HIDE DEF I, K
<1>5. CASE m \in M
  <2>1. K = I \cup {Len(b) + 1}
    BY <1>4, <1>5
  <2>2. Cardinality(K) = Cardinality(I) + 1
    BY <1>3, <1>4, <2>1, FS_AddElement
  <2> QED
    BY <1>2, <1>3, <1>4, <1>5, <2>2 DEF I, K
<1>6. CASE m \notin M
  <2>1. K = I
    BY <1>4, <1>6
  <2> QED
    BY <1>2, <1>3, <1>4, <1>6, <2>1 DEF I, K
<1> QED
  BY <1>5, <1>6

(* The head that is taken no longer does.                                  *)
LEMMA AtTaken ==
  ASSUME NEW S, NEW b \in Seq(S), b # <<>>, NEW M
  PROVE  /\ Cardinality(At(Tail(b), M)) \in Nat
         /\ Cardinality(At(b, M)) =
              Cardinality(At(Tail(b), M)) + (IF Head(b) \in M THEN 1 ELSE 0)
<1> DEFINE I == At(b, M)
           K == At(Tail(b), M)
           L == {i \in I : i # 1}
           f == [i \in K |-> i + 1]
<1>1. /\ DOMAIN b = 1 .. Len(b) /\ Len(b) \in Nat \ {0} /\ Head(b) = b[1]
      /\ DOMAIN Tail(b) = 1 .. Len(b) - 1
      /\ \A i \in DOMAIN Tail(b) : Tail(b)[i] = b[i + 1]
  OBVIOUS
<1>2. /\ IsFiniteSet(I) /\ IsFiniteSet(K) /\ IsFiniteSet(L)
      /\ Cardinality(K) \in Nat /\ Cardinality(L) \in Nat
  <2>1. /\ Len(b) - 1 \in Nat
        /\ I \subseteq 1 .. Len(b) /\ K \subseteq 1 .. Len(b) - 1
        /\ L \subseteq 1 .. Len(b)
    BY <1>1 DEF At
  <2> HIDE DEF I, K, L
  <2> QED
    BY <1>1, <2>1, Positions
<1>3. f \in Bijection(K, L)
  <2>1. \A i \in K : i \in Int /\ i + 1 \in L
    BY <1>1 DEF At
  <2>2. \A i \in L : i - 1 \in K /\ (i - 1) + 1 = i
    BY <1>1 DEF At
  <2> HIDE DEF K, L
  <2>3. f \in [K -> L]
    BY <2>1
  <2>4. \A i, k \in K : f[i] = f[k] => i = k
    BY <2>1
  <2>5. \A i \in L : \E k \in K : f[k] = i
    BY <2>2
  <2> QED
    BY <2>3, <2>4, <2>5 DEF Bijection, Injection, IsInjective, Surjection
<1>4. I = (IF Head(b) \in M THEN L \cup {1} ELSE L) /\ 1 \notin L
  BY <1>1 DEF At
<1> HIDE DEF I, K, L, f
<1>5. Cardinality(K) = Cardinality(L)
  <2>1. ExistsBijection(K, L)
    BY <1>3 DEF ExistsBijection
  <2> QED
    BY <1>2, <2>1, FS_Bijection
<1>6. CASE Head(b) \in M
  <2>1. I = L \cup {1}
    BY <1>4, <1>6
  <2>2. Cardinality(I) = Cardinality(L) + 1
    BY <1>2, <1>4, <2>1, FS_AddElement
  <2> QED
    BY <1>2, <1>5, <1>6, <2>2 DEF I, K
<1>7. CASE Head(b) \notin M
  <2>1. I = L
    BY <1>4, <1>7
  <2> QED
    BY <1>2, <1>5, <1>7, <2>1 DEF I, K
<1> QED
  BY <1>6, <1>7

(* A kind that does not count is not there.                                *)
LEMMA AtNone ==
  ASSUME NEW S, NEW b \in Seq(S), NEW M, Cardinality(At(b, M)) = 0
  PROVE  Content(b) \cap M = {}
<1>1. At(b, M) \subseteq 1 .. Len(b) /\ Len(b) \in Nat
  BY DEF At
<1>2. At(b, M) = {}
  BY <1>1, Positions, FS_EmptySet
<1> QED
  BY <1>2 DEF At, Content

(* The same of one message.                                                *)
LEMMA CountAppended ==
  ASSUME NEW S, NEW b \in Seq(S), NEW m \in S, NEW x
  PROVE  /\ Count(b, x) \in Nat
         /\ Count(Append(b, m), x) = Count(b, x) + (IF m = x THEN 1 ELSE 0)
BY AtAppended, m \in {x} <=> m = x DEF Count

LEMMA CountTaken ==
  ASSUME NEW S, NEW b \in Seq(S), b # <<>>, NEW x
  PROVE  /\ Count(Tail(b), x) \in Nat
         /\ Count(b, x) = Count(Tail(b), x) + (IF Head(b) = x THEN 1 ELSE 0)
BY AtTaken, Head(b) \in {x} <=> Head(b) = x DEF Count

(* Mailboxes with the same messages in the same order are the same.        *)
LEMMA SameSeq ==
  ASSUME NEW S, NEW b \in Seq(S), NEW c \in Seq(S), Len(b) = Len(c),
         \A i \in 1 .. Len(b) : b[i] = c[i]
  PROVE  b = c
OBVIOUS

-----------------------------------------------------------------------------
(* Mailboxes with their messages seen otherwise.                           *)
\* A mailbox with every message replaced by what g makes of it.
Mapped(g, b) == [i \in DOMAIN b |-> g[b[i]]]

LEMMA MappedAlike ==
  ASSUME NEW S, NEW b \in Seq(S), NEW g
  PROVE  /\ Len(Mapped(g, b)) = Len(b) /\ Len(b) \in Nat
         /\ \A i \in 1 .. Len(b) : Mapped(g, b)[i] = g[b[i]]
<1>1. DOMAIN b = 1 .. Len(b) /\ Len(b) \in Nat
  OBVIOUS
<1>2. Mapped(g, b) = [i \in 1 .. Len(b) |-> g[b[i]]]
  BY <1>1 DEF Mapped
<1> HIDE DEF Mapped
<1> QED
  BY <1>1, <1>2

LEMMA MappedIs ==
  ASSUME NEW S, NEW T, NEW g \in [S -> T], NEW b \in Seq(S)
  PROVE  Mapped(g, b) \in Seq(T)
<1>1. DOMAIN b = 1 .. Len(b) /\ Len(b) \in Nat /\ \A i \in 1 .. Len(b) : g[b[i]] \in T
  OBVIOUS
<1>2. Mapped(g, b) = [i \in 1 .. Len(b) |-> g[b[i]]]
  BY <1>1 DEF Mapped
<1> HIDE DEF Mapped
<1>3. Mapped(g, b) \in [1 .. Len(b) -> T]
  BY <1>1, <1>2
<1> QED
  BY <1>1, <1>3

(* What is appended is appended to the image,                              *)
LEMMA MappedAppended ==
  ASSUME NEW S, NEW T, NEW g \in [S -> T], NEW b \in Seq(S), NEW m \in S
  PROVE  Mapped(g, Append(b, m)) = Append(Mapped(g, b), g[m])
<1>0. \A e \in Seq(S) : /\ Mapped(g, e) \in Seq(T) /\ Len(Mapped(g, e)) = Len(e)
                         /\ \A i \in 1 .. Len(e) : Mapped(g, e)[i] = g[e[i]]
  <2> SUFFICES ASSUME NEW e \in Seq(S)
               PROVE  /\ Mapped(g, e) \in Seq(T) /\ Len(Mapped(g, e)) = Len(e)
                      /\ \A i \in 1 .. Len(e) : Mapped(g, e)[i] = g[e[i]]
    OBVIOUS
  <2>1. Mapped(g, e) \in Seq(T)
    BY Zenon, MappedIs
  <2>2. Len(Mapped(g, e)) = Len(e) /\ \A i \in 1 .. Len(e) : Mapped(g, e)[i] = g[e[i]]
    BY MappedAlike
  <2> QED
    BY <2>1, <2>2
<1> DEFINE a == Append(b, m)
           c == Mapped(g, b)
           d == Mapped(g, a)
<1>1. /\ a \in Seq(S) /\ Len(a) = Len(b) + 1 /\ Len(b) \in Nat
      /\ \A i \in 1 .. Len(b) : a[i] = b[i]
      /\ a[Len(b) + 1] = m /\ g[m] \in T
  OBVIOUS
<1>2. c \in Seq(T) /\ Len(c) = Len(b) /\ \A i \in 1 .. Len(b) : c[i] = g[b[i]]
  BY <1>0
<1>3. d \in Seq(T) /\ Len(d) = Len(a) /\ \A i \in 1 .. Len(a) : d[i] = g[a[i]]
  <2>1. a \in Seq(S)
    BY <1>1
  <2> HIDE DEF a
  <2> QED
    BY <1>0, <2>1
<1> HIDE DEF a, c, d
<1>4. /\ Append(c, g[m]) \in Seq(T) /\ Len(Append(c, g[m])) = Len(b) + 1
      /\ \A i \in 1 .. Len(b) : Append(c, g[m])[i] = c[i]
      /\ Append(c, g[m])[Len(b) + 1] = g[m]
  BY <1>1, <1>2
<1>5. \A i \in 1 .. Len(a) : d[i] = Append(c, g[m])[i]
  <2> SUFFICES ASSUME NEW i \in 1 .. Len(a) PROVE d[i] = Append(c, g[m])[i]
    OBVIOUS
  <2>1. i \in 1 .. Len(b) \/ i = Len(b) + 1
    BY <1>1
  <2> QED
    BY <1>1, <1>2, <1>3, <1>4, <2>1
<1>6. d = Append(c, g[m])
  BY <1>1, <1>3, <1>4, <1>5, SameSeq
<1> QED
  BY <1>6 DEF a, c, d

(* and what is taken is taken from it.                                     *)
LEMMA MappedTaken ==
  ASSUME NEW S, NEW T, NEW g \in [S -> T], NEW b \in Seq(S), b # <<>>
  PROVE  /\ Mapped(g, b) # <<>> /\ Head(Mapped(g, b)) = g[Head(b)]
         /\ Tail(Mapped(g, b)) = Mapped(g, Tail(b))
<1>0. \A e \in Seq(S) : /\ Mapped(g, e) \in Seq(T) /\ Len(Mapped(g, e)) = Len(e)
                         /\ \A i \in 1 .. Len(e) : Mapped(g, e)[i] = g[e[i]]
  <2> SUFFICES ASSUME NEW e \in Seq(S)
               PROVE  /\ Mapped(g, e) \in Seq(T) /\ Len(Mapped(g, e)) = Len(e)
                      /\ \A i \in 1 .. Len(e) : Mapped(g, e)[i] = g[e[i]]
    OBVIOUS
  <2>1. Mapped(g, e) \in Seq(T)
    BY Zenon, MappedIs
  <2>2. Len(Mapped(g, e)) = Len(e) /\ \A i \in 1 .. Len(e) : Mapped(g, e)[i] = g[e[i]]
    BY MappedAlike
  <2> QED
    BY <2>1, <2>2
<1> DEFINE a == Tail(b)
           c == Mapped(g, b)
           d == Mapped(g, a)
<1>1. /\ a \in Seq(S) /\ Len(b) = Len(a) + 1 /\ Len(a) \in Nat
      /\ \A i \in 1 .. Len(a) : a[i] = b[i + 1]
      /\ Head(b) = b[1]
  OBVIOUS
<1>2. c \in Seq(T) /\ Len(c) = Len(b) /\ \A i \in 1 .. Len(b) : c[i] = g[b[i]]
  BY <1>0
<1>3. d \in Seq(T) /\ Len(d) = Len(a) /\ \A i \in 1 .. Len(a) : d[i] = g[a[i]]
  <2>1. a \in Seq(S)
    BY <1>1
  <2> HIDE DEF a
  <2> QED
    BY <1>0, <2>1
<1> HIDE DEF a, c, d
<1>4. /\ c # <<>> /\ Head(c) = c[1] /\ Tail(c) \in Seq(T) /\ Len(Tail(c)) = Len(a)
      /\ \A i \in 1 .. Len(a) : Tail(c)[i] = c[i + 1]
  BY <1>1, <1>2
<1>5. \A i \in 1 .. Len(a) : Tail(c)[i] = d[i]
  <2> SUFFICES ASSUME NEW i \in 1 .. Len(a) PROVE Tail(c)[i] = d[i]
    OBVIOUS
  <2>1. i + 1 \in 1 .. Len(b)
    BY <1>1
  <2> QED
    BY <1>1, <1>2, <1>3, <1>4, <2>1
<1>6. Tail(c) = d
  BY <1>3, <1>4, <1>5, SameSeq
<1>7. Head(c) = g[Head(b)]
  BY <1>1, <1>2, <1>4
<1> QED
  BY <1>4, <1>6, <1>7 DEF a, c, d
=============================================================================
