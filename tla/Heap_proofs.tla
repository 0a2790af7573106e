----------------------------- MODULE Heap_proofs -----------------------------
(***************************************************************************)
(* Proofs about Heap: the list of holes stays a sorted list of the holes   *)
(* that are not lost, chunks and holes share no byte, one extension serves *)
(* a request, and malloc, free and realloc keep what the heap promises.    *)
(***************************************************************************)
EXTENDS Heap, FiniteSetTheorems, WellFoundedInduction, TLAPS

-----------------------------------------------------------------------------
(* The list of holes as a set of addresses *)

Cell == [size : Nat, next : Int, prev : Int]

\* A list whose memory has the words of the addresses in D.
ListOn(D) == [head : Nat, tail : Nat, mem : [D -> Cell]]

\* Without a node of H behind h (before h) the link is NULL, else it is the
\* nearest one.
IsNext(H, h, n) ==
    IF n = NULL THEN \A g \in H : g <= h
    ELSE n \in H /\ h < n /\ \A g \in H : g <= h \/ n <= g
IsPrev(H, h, p) ==
    IF p = NULL THEN \A g \in H : g >= h
    ELSE p \in H /\ p < h /\ \A g \in H : g >= h \/ g <= p

\* From head the links lead through H in the order of the addresses, and back.
Linked(l, H) ==
    /\ IsNext(H, NULL, l.head)
    /\ \A h \in H : IsNext(H, h, NextOf(l, h)) /\ IsPrev(H, h, PrevOf(l, h))

\* holes_list_tail is the last node, or has been left behind by the extension
\* that put a hole at NULL.
Sound(l, H) == IF l.tail = NULL THEN H = {} ELSE l.tail \in H /\ \A h \in H : h <= l.tail
Hidden(l, H) == l.tail # NULL /\ l.tail \notin H

\* A set of addresses that can be the nodes of a list on D.
Nodes(D, H) == D \in SUBSET Nat /\ IsFiniteSet(D) /\ NULL \in D /\ H \subseteq D \ {NULL}

LEMMA Smallest ==
    ASSUME NEW T \in SUBSET Nat, T # {}
    PROVE  \E m \in T : \A n \in T : m <= n
<1> DEFINE R == OpToRel(<, Nat)
<1>1. IsWellFoundedOn(R, Nat)
  BY NatLessThanWellFounded
<1>2. \A a, b \in Nat : (<<a, b>> \in R) = (a < b)
  BY DEF OpToRel
<1> HIDE DEF R
<1>3. PICK m \in T : \A n \in T : <<n, m>> \notin R
  BY <1>1, WFMin
<1>4. ASSUME NEW n \in T PROVE m <= n
  <2>1. m \in Nat /\ n \in Nat /\ ~ (n < m)
    BY <1>2, <1>3
  <2>2. QED
    BY <2>1
<1>5. QED
  BY <1>4

(* What the operators do to the words of the memory.                       *)

LEMMA SetSizeFacts ==
    ASSUME NEW D, NEW l \in ListOn(D), NEW a \in D, NEW v, v \in Nat
    PROVE  LET k == SetSize(l, a, v)
           IN  /\ k \in ListOn(D) /\ k.head = l.head /\ k.tail = l.tail
               /\ \A b \in D : /\ Size(k, b) = IF b = a THEN v ELSE Size(l, b)
                               /\ NextOf(k, b) = NextOf(l, b)
                               /\ PrevOf(k, b) = PrevOf(l, b)
BY DEF SetSize, Size, NextOf, PrevOf, ListOn, Cell

LEMMA SetNextFacts ==
    ASSUME NEW D, NEW l \in ListOn(D), NEW a \in D, NEW v, v \in Int
    PROVE  LET k == SetNext(l, a, v)
           IN  /\ k \in ListOn(D) /\ k.head = l.head /\ k.tail = l.tail
               /\ \A b \in D : /\ Size(k, b) = Size(l, b)
                               /\ NextOf(k, b) = IF b = a /\ a # NULL THEN v ELSE NextOf(l, b)
                               /\ PrevOf(k, b) = PrevOf(l, b)
BY DEF SetNext, Size, NextOf, PrevOf, ListOn, Cell

LEMMA SetPrevFacts ==
    ASSUME NEW D, NEW l \in ListOn(D), NEW a \in D, NEW v, v \in Int
    PROVE  LET k == SetPrev(l, a, v)
           IN  /\ k \in ListOn(D) /\ k.head = l.head /\ k.tail = l.tail
               /\ \A b \in D : /\ Size(k, b) = Size(l, b)
                               /\ NextOf(k, b) = NextOf(l, b)
                               /\ PrevOf(k, b) = IF b = a /\ a # NULL THEN v ELSE PrevOf(l, b)
BY DEF SetPrev, Size, NextOf, PrevOf, ListOn, Cell

LEMMA PutHeaderFacts ==
    ASSUME NEW D, NEW l \in ListOn(D), NEW a, a \in Nat, NEW v, v \in Nat,
           NEW E, E = D \cup {a}
    PROVE  LET k == PutHeader(l, a, v)
           IN  /\ k \in ListOn(E) /\ k.head = l.head /\ k.tail = l.tail
               /\ Size(k, a) = v
               /\ \A b \in D : b # a => /\ Size(k, b) = Size(l, b)
                                       /\ NextOf(k, b) = NextOf(l, b)
                                       /\ PrevOf(k, b) = PrevOf(l, b)
<1> DEFINE cell == [size |-> v, next |-> UserData, prev |-> UserData]
           k == PutHeader(l, a, v)
<1>1. cell \in Cell
  BY DEF Cell, UserData
<1> HIDE DEF cell
<1>2. Put(l.mem, a, cell) \in [E -> Cell]
  BY <1>1 DEF Put, ListOn
<1>3. k = [l EXCEPT !.mem = Put(l.mem, a, cell)]
  BY DEF PutHeader, cell
<1> HIDE DEF k
<1>4. k \in ListOn(E) /\ k.head = l.head /\ k.tail = l.tail
      /\ k.mem = Put(l.mem, a, cell)
  BY <1>2, <1>3 DEF ListOn
<1>5. \A b \in E : k.mem[b] = IF b = a THEN cell ELSE l.mem[b]
  BY <1>4 DEF Put, ListOn
<1>6. cell.size = v
  BY DEF cell
<1>7. QED
  BY <1>4, <1>5, <1>6 DEF k, Size, NextOf, PrevOf

LEMMA Typed ==
    ASSUME NEW D \in SUBSET Nat, NEW l \in ListOn(D)
    PROVE  /\ l.head \in Nat /\ l.tail \in Nat /\ DOMAIN l.mem = D
           /\ \A a \in D : Size(l, a) \in Nat /\ NextOf(l, a) \in Int /\ PrevOf(l, a) \in Int
BY DEF ListOn, Cell, Size, NextOf, PrevOf
-----------------------------------------------------------------------------
(* A loop over the list *)

\* A loop over the list exists for every bound on its turns.
LEMMA WalkExists ==
    ASSUME NEW l, NEW N \in Nat
    PROVE  \E f : /\ f = [n \in 0 .. N |-> f[n]]
                  /\ \A n \in 0 .. N :
                       f[n] = IF n = 0 THEN l.head
                              ELSE IF f[n - 1] = NULL THEN NULL ELSE NextOf(l, f[n - 1])
<1> DEFINE Is(f, k) ==
             f = [n \in 0 .. k |-> IF n = 0 THEN l.head
                                   ELSE IF f[n - 1] = NULL THEN NULL
                                   ELSE NextOf(l, f[n - 1])]
           T == {k \in Nat : \A f : ~ Is(f, k)}
<1>1. ASSUME T # {} PROVE FALSE
  <2>1. PICK k \in T : \A j \in T : k <= j
    BY <1>1, Smallest
  <2>2. CASE k = 0
    <3> DEFINE f == [n \in 0 .. 0 |-> l.head]
    <3>1. Is(f, 0)
      OBVIOUS
    <3>2. QED
      BY <2>2, <3>1
  <2>3. CASE k # 0
    <3>1. k - 1 \in Nat /\ k - 1 \notin T
      <4>1. k \in Nat
        BY <2>1
      <4> HIDE DEF T
      <4>2. QED
        BY <2>1, <2>3, <4>1
    <3>2. PICK g : Is(g, k - 1)
      <4> HIDE DEF Is
      <4>1. QED
        BY <3>1
    <3> DEFINE f == [n \in 0 .. k |-> IF n = 0 THEN l.head
                                      ELSE IF g[n - 1] = NULL THEN NULL
                                      ELSE NextOf(l, g[n - 1])]
    <3>3. \A n \in 0 .. k - 1 : f[n] = g[n]
      BY <3>1, <3>2
    <3>4. \A n \in 0 .. k : n # 0 => n - 1 \in 0 .. k - 1
      BY <3>1
    <3> HIDE DEF Is
    <3>5. f = [n \in 0 .. k |-> IF n = 0 THEN l.head
                                ELSE IF f[n - 1] = NULL THEN NULL
                                ELSE NextOf(l, f[n - 1])]
      BY <3>3, <3>4
    <3>6. Is(f, k)
      BY <3>5 DEF Is
    <3>7. QED
      BY <2>1, <3>6
  <2>4. QED
    BY <2>2, <2>3
<1>2. N \notin T
  BY <1>1
<1>3. PICK f : Is(f, N)
  BY <1>2
<1>4. QED
  BY <1>3

LEMMA NodeAtTurns ==
    ASSUME NEW D, IsFiniteSet(D), NEW l \in ListOn(D)
    PROVE  LET at == NodeAt(l)
           IN  /\ DOMAIN at = 0 .. Cardinality(D)
               /\ \A n \in 0 .. Cardinality(D) :
                    at[n] = IF n = 0 THEN l.head
                            ELSE IF at[n - 1] = NULL THEN NULL ELSE NextOf(l, at[n - 1])
<1> DEFINE N == Cardinality(DOMAIN l.mem)
           at[n \in 0 .. N] ==
             IF n = 0 THEN l.head
             ELSE IF at[n - 1] = NULL THEN NULL ELSE NextOf(l, at[n - 1])
<1>1. DOMAIN l.mem = D /\ N \in Nat
  BY FS_CardinalityType DEF ListOn
<1>2. at = [n \in 0 .. N |-> IF n = 0 THEN l.head
                             ELSE IF at[n - 1] = NULL THEN NULL ELSE NextOf(l, at[n - 1])]
  <2>1. PICK f : /\ f = [n \in 0 .. N |-> f[n]]
                 /\ \A n \in 0 .. N :
                      f[n] = IF n = 0 THEN l.head
                             ELSE IF f[n - 1] = NULL THEN NULL ELSE NextOf(l, f[n - 1])
    BY <1>1, WalkExists
  <2>2. f = [n \in 0 .. N |-> IF n = 0 THEN l.head
                              ELSE IF f[n - 1] = NULL THEN NULL ELSE NextOf(l, f[n - 1])]
    BY <2>1
  <2>3. QED
    BY <2>2
<1>3. NodeAt(l) = at
  BY DEF NodeAt
<1> HIDE DEF at
<1>4. QED
  BY <1>1, <1>2, <1>3
LEMMA ProperSubset ==
    ASSUME NEW S, IsFiniteSet(S), NEW T \in SUBSET S, T # S
    PROVE  /\ IsFiniteSet(T) /\ Cardinality(T) \in Nat
           /\ Cardinality(S) \in Nat /\ Cardinality(T) < Cardinality(S)
<1>1. IsFiniteSet(T) /\ Cardinality(T) <= Cardinality(S) /\ Cardinality(T) # Cardinality(S)
  BY FS_Subset
<1>2. Cardinality(T) \in Nat /\ Cardinality(S) \in Nat
  BY <1>1, FS_CardinalityType
<1>3. QED
  BY <1>1, <1>2

\* The loop meets the nodes of a linked list, and each of them, in the order of
\* their addresses: the node with n nodes below it is met in turn n.
LEMMA NodesInOrder ==
    ASSUME NEW D, NEW H, Nodes(D, H), NEW l \in ListOn(D), Linked(l, H)
    PROVE  LET at == NodeAt(l)
               turns == 0 .. Cardinality(D)
           IN  /\ DOMAIN at = turns /\ Cardinality(D) \in Nat
               /\ \A n \in turns : at[n] = NULL \/ at[n] \in H
               /\ \A h \in H : \E n \in turns : at[n] = h
               /\ \A n, m \in turns : n < m /\ at[n] # NULL /\ at[m] # NULL => at[n] < at[m]
<1> DEFINE at == NodeAt(l)
           turns == 0 .. Cardinality(D)
           Below(h) == {g \in H : g < h}
           all == Cardinality(H)
<1>1. /\ H \in SUBSET Nat /\ NULL \notin H /\ IsFiniteSet(H) /\ IsFiniteSet(D)
      /\ H \subseteq D /\ \A h \in H : h \in Nat
  BY FS_Subset DEF Nodes
<1>2. Cardinality(D) \in Nat /\ all \in Nat /\ all < Cardinality(D)
  <2>1. H # D
    BY DEF Nodes
  <2>2. QED
    BY <1>1, <2>1, ProperSubset
<1>3. /\ DOMAIN at = turns
      /\ \A n \in turns :
           at[n] = IF n = 0 THEN l.head
                   ELSE IF at[n - 1] = NULL THEN NULL ELSE NextOf(l, at[n - 1])
  BY <1>1, NodeAtTurns
<1> HIDE DEF at
<1>4. \A h \in H : /\ IsFiniteSet(Below(h)) /\ h \notin Below(h)
                   /\ Cardinality(Below(h)) \in Nat /\ Cardinality(Below(h)) < all
  <2>1. SUFFICES ASSUME NEW h \in H
                 PROVE  /\ IsFiniteSet(Below(h)) /\ h \notin Below(h)
                        /\ Cardinality(Below(h)) \in Nat /\ Cardinality(Below(h)) < all
    OBVIOUS
  <2>2. Below(h) \subseteq H /\ h \notin Below(h)
    BY <1>1
  <2>3. Below(h) # H
    BY <2>2
  <2>4. QED
    BY <1>1, <2>2, <2>3, ProperSubset
<1>5. ASSUME NEW g \in H, NEW h \in H, IsNext(H, g, h)
      PROVE  Cardinality(Below(h)) = Cardinality(Below(g)) + 1
  <2>1. h # NULL /\ g < h /\ \A f \in H : f <= g \/ h <= f
    BY <1>1, <1>5 DEF IsNext
  <2>2. \A f \in H : f < h <=> f < g \/ f = g
    BY <1>1, <2>1
  <2>3. Below(h) = Below(g) \cup {g}
    BY <2>2
  <2>4. QED
    BY <1>4, <2>3, FS_AddElement
<1>6. ASSUME NEW g \in H, IsNext(H, g, NULL)
      PROVE  all = Cardinality(Below(g)) + 1
  <2>1. \A f \in H : f < g \/ f = g
    BY <1>1, <1>6 DEF IsNext
  <2>2. H = Below(g) \cup {g}
    BY <2>1
  <2>3. QED
    BY <1>4, <2>2, FS_AddElement
<1>7. ASSUME NEW g \in H, NEW h \in H, g < h
      PROVE  Cardinality(Below(g)) < Cardinality(Below(h))
  <2>1. \A f \in H : f < g => f < h
    BY <1>1, <1>7
  <2>2. Below(g) \subseteq Below(h) /\ g \in Below(h)
    BY <1>7, <2>1
  <2>3. g \notin Below(g)
    BY <1>4
  <2>4. QED
    BY <1>4, <2>2, <2>3, ProperSubset
<1> DEFINE Turn(n) == IF n < all THEN at[n] \in H /\ Cardinality(Below(at[n])) = n
                      ELSE at[n] = NULL
           T == {n \in turns : ~ Turn(n)}
<1>8. T = {}
  <2>1. SUFFICES ASSUME T # {} PROVE FALSE
    OBVIOUS
  <2>2. PICK m \in T : \A n \in T : m <= n
    <3>1. T \in SUBSET Nat
      BY <1>2
    <3> HIDE DEF T
    <3>2. QED
      BY <2>1, <3>1, Smallest
  <2>3. CASE m = 0
    <3>1. at[0] = l.head /\ IsNext(H, NULL, l.head)
      BY <1>2, <1>3 DEF Linked
    <3>2. CASE l.head = NULL
      <4>1. H = {}
        BY <1>1, <3>1, <3>2 DEF IsNext, NULL
      <4>2. all = 0
        BY <4>1, FS_EmptySet
      <4>3. QED
        BY <2>2, <2>3, <3>1, <3>2, <4>2
    <3>3. CASE l.head # NULL
      <4>1. at[0] \in H /\ Below(at[0]) = {}
        <5>1. l.head \in H /\ \A f \in H : f <= NULL \/ l.head <= f
          BY <3>1, <3>3 DEF IsNext
        <5>2. \A f \in H : ~ (f < l.head)
          <6>1. \A f \in H : f \in Nat /\ f # 0
            BY <1>1 DEF NULL
          <6>2. \A f \in H : l.head <= f
            BY <5>1, <6>1 DEF NULL
          <6>3. QED
            BY <5>1, <6>1, <6>2
        <5>3. QED
          BY <3>1, <5>1, <5>2
      <4>2. Cardinality(Below(at[0])) = 0
        BY <4>1, FS_EmptySet
      <4>3. 0 < all
        BY <1>4, <4>1, <4>2
      <4>4. Turn(0)
        BY <4>1, <4>2, <4>3
      <4>5. QED
        BY <2>2, <2>3, <4>4
    <3>4. QED
      BY <3>2, <3>3
  <2>4. CASE m # 0
    <3>1. m \in turns /\ m - 1 \in turns /\ m - 1 \notin T /\ m \in Nat
      BY <1>2, <2>2, <2>4
    <3>2. Turn(m - 1)
      BY <3>1
    <3>3. at[m] = IF at[m - 1] = NULL THEN NULL ELSE NextOf(l, at[m - 1])
      BY <1>3, <2>4, <3>1
    <3>4. Turn(m)
      <4>1. CASE m - 1 >= all
        BY <1>2, <3>1, <3>2, <3>3, <4>1
      <4>2. CASE m - 1 < all
        <5>1. /\ at[m - 1] \in H /\ Cardinality(Below(at[m - 1])) = m - 1
              /\ at[m] = NextOf(l, at[m - 1]) /\ IsNext(H, at[m - 1], at[m])
          BY <1>1, <3>2, <3>3, <4>2 DEF Linked
        <5>2. CASE at[m] = NULL
          <6>1. all = m
            BY <1>6, <3>1, <5>1, <5>2
          <6>2. QED
            BY <5>2, <6>1
        <5>3. CASE at[m] # NULL
          <6>1. at[m] \in H
            BY <5>1, <5>3 DEF IsNext
          <6>2. Cardinality(Below(at[m])) = m
            BY <1>5, <3>1, <5>1, <6>1
          <6>3. QED
            BY <1>4, <6>1, <6>2
        <5>4. QED
          BY <5>2, <5>3
      <4>3. QED
        BY <1>2, <3>1, <4>1, <4>2
    <3>5. QED
      BY <2>2, <3>4
  <2>5. QED
    BY <2>3, <2>4
<1>9. \A n \in turns : Turn(n)
  BY <1>8
<1>10. \A n \in turns : at[n] = NULL \/ at[n] \in H
  BY <1>9
<1>11. ASSUME NEW h \in H PROVE \E n \in turns : at[n] = h
  <2>1. PICK n \in turns : n = Cardinality(Below(h)) /\ n < all
    BY <1>2, <1>4
  <2>2. at[n] \in H /\ Cardinality(Below(at[n])) = n
    BY <1>9, <2>1
  <2>3. ~ (at[n] < h) /\ ~ (h < at[n])
    BY <1>4, <1>7, <2>1, <2>2
  <2>4. at[n] = h
    <3>1. at[n] \in Nat /\ h \in Nat
      BY <1>1, <2>2
    <3>2. QED
      BY <2>3, <3>1
  <2>5. QED
    BY <2>4
<1>12. ASSUME NEW n \in turns, NEW m \in turns, n < m, at[n] # NULL, at[m] # NULL
       PROVE  at[n] < at[m]
  <2>1. /\ at[n] \in H /\ Cardinality(Below(at[n])) = n
        /\ at[m] \in H /\ Cardinality(Below(at[m])) = m
    BY <1>1, <1>9, <1>12
  <2>2. n \in Nat /\ m \in Nat /\ ~ (m < n)
    BY <1>2, <1>12
  <2>3. ~ (at[m] < at[n]) /\ at[m] # at[n]
    BY <1>7, <1>12, <2>1, <2>2
  <2>4. at[n] \in Nat /\ at[m] \in Nat
    BY <1>1, <2>1
  <2>5. QED
    BY <2>3, <2>4
<1>13. QED
  BY <1>2, <1>3, <1>10, <1>11, <1>12 DEF at
LEMMA HolesAreNodes ==
    ASSUME NEW D, NEW H, Nodes(D, H), NEW l \in ListOn(D), Linked(l, H)
    PROVE  Holes(l) = H
<1>1. NULL \notin H
  BY DEF Nodes
<1>2. \A n \in DOMAIN NodeAt(l) : NodeAt(l)[n] = NULL \/ NodeAt(l)[n] \in H
  BY NodesInOrder
<1>3. \A h \in H : \E n \in DOMAIN NodeAt(l) : NodeAt(l)[n] = h
  BY NodesInOrder
<1>4. QED
  BY <1>1, <1>2, <1>3 DEF Holes

\* The first node met among those of a set Q is the one with the least address.
LEMMA FirstFound ==
    ASSUME NEW D, NEW H, Nodes(D, H), NEW l \in ListOn(D), Linked(l, H),
           NEW Q \in SUBSET H
    PROVE  LET at    == NodeAt(l)
               found == {n \in DOMAIN at : at[n] \in Q}
               first == IF found = {} THEN NULL
                        ELSE at[CHOOSE n \in found : \A m \in found : n <= m]
           IN  IF first = NULL THEN Q = {}
               ELSE first \in Q /\ \A q \in Q : first <= q
<1> DEFINE at    == NodeAt(l)
           found == {n \in DOMAIN at : at[n] \in Q}
           first == IF found = {} THEN NULL
                    ELSE at[CHOOSE n \in found : \A m \in found : n <= m]
<1>1. /\ \A n \in DOMAIN at : n \in Nat
      /\ \A h \in H : \E n \in DOMAIN at : at[n] = h
      /\ \A n, m \in DOMAIN at : n < m /\ at[n] # NULL /\ at[m] # NULL => at[n] < at[m]
  BY NodesInOrder
<1>2. NULL \notin H /\ \A h \in H : h \in Nat
  BY DEF Nodes
<1> HIDE DEF at
<1>3. CASE found = {}
  <2>1. Q = {}
    BY <1>1, <1>3
  <2>2. QED
    BY <1>3, <2>1 DEF at
<1>4. CASE found # {}
  <2> DEFINE c == CHOOSE n \in found : \A m \in found : n <= m
  <2>1. \E n \in found : \A m \in found : n <= m
    <3>1. found \in SUBSET Nat
      BY <1>1
    <3> HIDE DEF found
    <3>2. QED
      BY <1>4, <3>1, Smallest
  <2>2. c \in found /\ \A m \in found : c <= m
    BY <2>1
  <2> HIDE DEF c
  <2>3. at[c] \in Q /\ c \in DOMAIN at /\ first = at[c]
    BY <1>4, <2>2 DEF c
  <2>4. ASSUME NEW q \in Q PROVE at[c] <= q
    <3>1. PICK m \in DOMAIN at : at[m] = q
      BY <1>1
    <3>2. c <= m /\ c \in Nat /\ m \in Nat
      BY <1>1, <2>2, <2>3, <3>1
    <3>3. at[c] # NULL /\ at[m] # NULL /\ at[c] \in Nat /\ at[m] \in Nat
      BY <1>2, <2>3, <3>1
    <3>4. CASE c = m
      BY <3>1, <3>3, <3>4
    <3>5. CASE c < m
      BY <1>1, <2>3, <3>1, <3>3, <3>5
    <3>6. QED
      BY <3>2, <3>4, <3>5
  <2>5. first # NULL
    BY <1>2, <2>3
  <2>6. QED
    BY <2>3, <2>4, <2>5 DEF at
<1>5. QED
  BY <1>3, <1>4

LEMMA FirstAbove ==
    ASSUME NEW D, NEW H, Nodes(D, H), NEW l \in ListOn(D), Linked(l, H),
           NEW x \in Nat
    PROVE  IsNext(H, x, FirstNode(l, LAMBDA n : x < n))
<1> DEFINE at == NodeAt(l)
           Q  == {h \in H : x < h}
           found(S) == {n \in DOMAIN at : at[n] \in S}
           pick(S)  == IF S = {} THEN NULL ELSE at[CHOOSE n \in S : \A m \in S : n <= m]
           first(S) == pick(found(S))
<1>1. {n \in DOMAIN at : at[n] # NULL /\ x < at[n]} = found(Q)
  <2>1. \A n \in DOMAIN at : at[n] = NULL \/ at[n] \in H
    BY NodesInOrder
  <2>2. NULL \notin H
    BY DEF Nodes
  <2>3. QED
    BY <2>1, <2>2
<1>2. FirstNode(l, LAMBDA n : x < n) = first(Q)
  <2>1. FirstNode(l, LAMBDA n : x < n) = pick({n \in DOMAIN at : at[n] # NULL /\ x < at[n]})
    BY DEF FirstNode
  <2> HIDE DEF pick, at
  <2>2. QED
    BY <1>1, <2>1
<1>3. IF first(Q) = NULL THEN Q = {} ELSE first(Q) \in Q /\ \A q \in Q : first(Q) <= q
  BY FirstFound
<1> HIDE DEF first
<1>4. \A h \in H : h \in Nat
  BY DEF Nodes
<1>5. CASE first(Q) = NULL
  <2>1. \A h \in H : ~ (x < h)
    BY <1>3, <1>5
  <2>2. QED
    BY <1>2, <1>4, <1>5, <2>1 DEF IsNext
<1>6. CASE first(Q) # NULL
  <2>1. first(Q) \in H /\ x < first(Q) /\ \A h \in H : x < h => first(Q) <= h
    BY <1>3, <1>6
  <2>2. QED
    <3>1. \A h \in H : h <= x \/ x < h
      BY <1>4
    <3>2. IsNext(H, x, first(Q))
      BY <1>6, <2>1, <3>1 DEF IsNext
    <3>3. QED
      BY <1>2, <3>2
<1>7. QED
  BY <1>5, <1>6

LEMMA FirstFitFound ==
    ASSUME NEW D, NEW H, Nodes(D, H), NEW l \in ListOn(D), Linked(l, H),
           NEW required \in Nat
    PROVE  LET hole == FirstFit(l, required)
           IN  IF hole = NULL THEN \A h \in H : ~ (Size(l, h) >= required)
               ELSE /\ hole \in H /\ Size(l, hole) >= required
                    /\ \A h \in H : Size(l, h) >= required => hole <= h
<1> DEFINE at == NodeAt(l)
           Q  == {h \in H : Size(l, h) >= required}
           found(S) == {n \in DOMAIN at : at[n] \in S}
           pick(S)  == IF S = {} THEN NULL ELSE at[CHOOSE n \in S : \A m \in S : n <= m]
           first(S) == pick(found(S))
<1>1. {n \in DOMAIN at : at[n] # NULL /\ Size(l, at[n]) >= required} = found(Q)
  <2>1. \A n \in DOMAIN at : at[n] = NULL \/ at[n] \in H
    BY NodesInOrder
  <2>2. NULL \notin H
    BY DEF Nodes
  <2>3. QED
    BY <2>1, <2>2
<1>2. FirstFit(l, required) = first(Q)
  <2>1. FirstFit(l, required)
          = pick({n \in DOMAIN at : at[n] # NULL /\ Size(l, at[n]) >= required})
    BY DEF FirstFit, FirstNode
  <2> HIDE DEF pick, at
  <2>2. QED
    BY <1>1, <2>1
<1>3. IF first(Q) = NULL THEN Q = {} ELSE first(Q) \in Q /\ \A q \in Q : first(Q) <= q
  BY FirstFound
<1> HIDE DEF first
<1>4. QED
  BY <1>2, <1>3
-----------------------------------------------------------------------------
(* Inserting, removing and merging *)

\* The first node of a linked list is the one without a previous node, and links
\* agree in both directions.
LEMMA LinksAgree ==
    ASSUME NEW D, NEW H, Nodes(D, H), NEW l \in ListOn(D), Linked(l, H)
    PROVE  /\ \A h \in H : (h = l.head) <=> (PrevOf(l, h) = NULL)
           /\ (l.head = NULL) <=> (H = {})
           /\ \A g, h \in H : (NextOf(l, g) = h) <=> (PrevOf(l, h) = g)
<1>1. \A h \in H : h \in Nat /\ h # 0
  BY DEF Nodes, NULL
<1>2. IsNext(H, NULL, l.head)
  BY DEF Linked
<1>3. \A h \in H : IsNext(H, h, NextOf(l, h)) /\ IsPrev(H, h, PrevOf(l, h))
  BY DEF Linked
<1>4. (l.head = NULL) <=> (H = {})
  BY <1>1, <1>2 DEF IsNext, NULL
<1>5. l.head # NULL => l.head \in H /\ \A h \in H : l.head <= h
  BY <1>1, <1>2 DEF IsNext, NULL
<1>6. ASSUME NEW h \in H PROVE (h = l.head) <=> (PrevOf(l, h) = NULL)
  <2>1. h = l.head => PrevOf(l, h) = NULL
    BY <1>1, <1>3, <1>5, <1>6 DEF IsPrev, NULL
  <2>2. PrevOf(l, h) = NULL => h = l.head
    BY <1>1, <1>3, <1>4, <1>5, <1>6 DEF IsPrev, NULL
  <2>3. QED
    BY <2>1, <2>2
<1>7. ASSUME NEW g \in H, NEW h \in H
      PROVE  (NextOf(l, g) = h) <=> (PrevOf(l, h) = g)
  <2>1. g # NULL /\ h # NULL
    BY <1>1 DEF NULL
  <2>2. ASSUME NextOf(l, g) = h PROVE PrevOf(l, h) = g
    <3>1. g < h /\ \A f \in H : f <= g \/ h <= f
      BY <1>3, <2>1, <2>2 DEF IsNext
    <3>2. PrevOf(l, h) # NULL
      BY <1>1, <1>3, <3>1 DEF IsPrev
    <3>3. PrevOf(l, h) \in H /\ PrevOf(l, h) < h /\ (g >= h \/ g <= PrevOf(l, h))
      BY <1>3, <3>2 DEF IsPrev
    <3>4. PrevOf(l, h) <= g \/ h <= PrevOf(l, h)
      BY <3>1, <3>3
    <3> DEFINE p == PrevOf(l, h)
    <3>5. p \in Nat /\ g \in Nat /\ h \in Nat
      BY <1>1, <3>3
    <3> HIDE DEF p
    <3>6. p = g
      BY <3>1, <3>3, <3>4, <3>5 DEF p
    <3>7. QED
      BY <3>6 DEF p
  <2>3. ASSUME PrevOf(l, h) = g PROVE NextOf(l, g) = h
    <3>1. g < h /\ \A f \in H : f >= h \/ f <= g
      BY <1>3, <2>1, <2>3 DEF IsPrev
    <3>2. NextOf(l, g) # NULL
      BY <1>1, <1>3, <3>1 DEF IsNext
    <3>3. NextOf(l, g) \in H /\ g < NextOf(l, g) /\ (h <= g \/ NextOf(l, g) <= h)
      BY <1>3, <3>2 DEF IsNext
    <3>4. NextOf(l, g) >= h \/ NextOf(l, g) <= g
      BY <3>1, <3>3
    <3> DEFINE n == NextOf(l, g)
    <3>5. n \in Nat /\ g \in Nat /\ h \in Nat
      BY <1>1, <3>3
    <3> HIDE DEF n
    <3>6. n = h
      BY <3>1, <3>3, <3>4, <3>5 DEF n
    <3>7. QED
      BY <3>6 DEF n
  <2>4. QED
    BY <2>2, <2>3
<1>8. QED
  BY <1>4, <1>6, <1>7

\* A node put between the nodes before and behind it.
LEMMA PutBetween ==
    ASSUME NEW D, NEW H, Nodes(D, H), NEW l \in ListOn(D), Linked(l, H),
           NEW x \in D, x # NULL, x \notin H,
           NEW p, NEW n, IsPrev(H, x, p), IsNext(H, x, n),
           NEW k, k.head = (IF p = NULL THEN x ELSE l.head),
           NextOf(k, x) = n, PrevOf(k, x) = p,
           \A h \in H : NextOf(k, h) = IF h = p THEN x ELSE NextOf(l, h),
           \A h \in H : PrevOf(k, h) = IF h = n THEN x ELSE PrevOf(l, h)
    PROVE  Linked(k, H \cup {x})
<1> DEFINE K == H \cup {x}
<1>1. /\ \A h \in H : h \in Nat /\ h # 0 /\ h # x
      /\ x \in Nat /\ x # 0
  BY DEF Nodes, NULL
<1>2. \A h \in H : h \in Nat /\ IsNext(H, h, NextOf(l, h)) /\ IsPrev(H, h, PrevOf(l, h))
  BY <1>1 DEF Linked
<1>3. IsNext(K, NULL, k.head)
  <2>1. IsNext(H, NULL, l.head)
    BY DEF Linked
  <2>2. CASE p = NULL
    BY <1>1, <2>2 DEF IsNext, IsPrev, NULL
  <2>3. CASE p # NULL
    <3>1. p \in H /\ p < x /\ l.head # 0
      BY <1>1, <2>1, <2>3 DEF IsPrev, IsNext, NULL
    <3>2. l.head \in H /\ (\A h \in H : l.head <= h) /\ l.head <= x
      BY <1>1, <2>1, <3>1 DEF IsNext, NULL
    <3>3. QED
      BY <1>1, <2>3, <3>1, <3>2 DEF IsNext, NULL
  <2>4. QED
    BY <2>2, <2>3
<1>4. IsNext(K, x, NextOf(k, x)) /\ IsPrev(K, x, PrevOf(k, x))
  BY <1>1 DEF IsNext, IsPrev
<1>5. ASSUME NEW h \in H PROVE IsNext(K, h, NextOf(k, h))
  <2>1. CASE h = p
    <3>1. NextOf(k, h) = x /\ h < x /\ \A g \in H : g >= x \/ g <= h
      BY <1>1, <2>1 DEF IsPrev, NULL
    <3>2. QED
      BY <1>1, <3>1 DEF IsNext, NULL
  <2>2. CASE h # p
    <3>1. NextOf(k, h) = NextOf(l, h) /\ IsNext(H, h, NextOf(l, h))
      BY <1>2, <2>2
    <3>2. CASE NextOf(l, h) = NULL
      <4>1. \A g \in H : g <= h
        BY <3>1, <3>2 DEF IsNext
      <4>2. x <= h
        BY <1>1, <2>2, <4>1 DEF IsPrev, NULL
      <4>3. QED
        BY <3>1, <3>2, <4>1, <4>2 DEF IsNext
    <3>3. CASE NextOf(l, h) # NULL
      <4> DEFINE m == NextOf(l, h)
      <4>1. m \in H /\ h < m /\ \A g \in H : g <= h \/ m <= g
        BY <3>1, <3>3 DEF IsNext
      <4> HIDE DEF m
      <4>2. x <= h \/ m <= x
        <5>1. CASE p = NULL
          BY <1>1, <5>1 DEF IsPrev
        <5>2. CASE p # NULL
          <6>1. p \in H /\ p < x /\ (h >= x \/ h <= p) /\ (m >= x \/ m <= p)
            BY <4>1, <5>2 DEF IsPrev
          <6>2. p <= h \/ m <= p
            BY <4>1, <6>1
          <6>3. h \in Nat /\ m \in Nat /\ p \in Nat /\ x \in Nat
            BY <1>1, <4>1, <6>1
          <6>4. QED
            BY <2>2, <4>1, <6>1, <6>2, <6>3
        <5>3. QED
          BY <5>1, <5>2
      <4>3. QED
        BY <3>1, <3>3, <4>1, <4>2 DEF IsNext, m
    <3>4. QED
      BY <3>2, <3>3
  <2>3. QED
    BY <2>1, <2>2
<1>6. ASSUME NEW h \in H PROVE IsPrev(K, h, PrevOf(k, h))
  <2>1. CASE h = n
    <3>1. PrevOf(k, h) = x /\ x < h /\ \A g \in H : g <= x \/ h <= g
      BY <1>1, <2>1 DEF IsNext, NULL
    <3>2. QED
      BY <1>1, <3>1 DEF IsPrev, NULL
  <2>2. CASE h # n
    <3>1. PrevOf(k, h) = PrevOf(l, h) /\ IsPrev(H, h, PrevOf(l, h))
      BY <1>2, <2>2
    <3>2. CASE PrevOf(l, h) = NULL
      <4>1. \A g \in H : g >= h
        BY <3>1, <3>2 DEF IsPrev
      <4>2. x >= h
        BY <1>1, <2>2, <4>1 DEF IsNext, NULL
      <4>3. QED
        BY <3>1, <3>2, <4>1, <4>2 DEF IsPrev
    <3>3. CASE PrevOf(l, h) # NULL
      <4> DEFINE m == PrevOf(l, h)
      <4>1. m \in H /\ m < h /\ \A g \in H : g >= h \/ g <= m
        BY <3>1, <3>3 DEF IsPrev
      <4> HIDE DEF m
      <4>2. x >= h \/ x <= m
        <5>1. CASE n = NULL
          BY <1>1, <5>1 DEF IsNext
        <5>2. CASE n # NULL
          <6>1. n \in H /\ x < n /\ (h <= x \/ n <= h) /\ (m <= x \/ n <= m)
            BY <4>1, <5>2 DEF IsNext
          <6>2. n >= h \/ n <= m
            BY <4>1, <6>1
          <6>3. h \in Nat /\ m \in Nat /\ n \in Nat /\ x \in Nat
            BY <1>1, <4>1, <6>1
          <6>4. QED
            BY <2>2, <4>1, <6>1, <6>2, <6>3
        <5>3. QED
          BY <5>1, <5>2
      <4>3. QED
        BY <3>1, <3>3, <4>1, <4>2 DEF IsPrev, m
    <3>4. QED
      BY <3>2, <3>3
  <2>3. QED
    BY <2>1, <2>2
<1>7. QED
  BY <1>3, <1>4, <1>5, <1>6 DEF Linked

\* A node skipped by its neighbours.
LEMMA TakeOut ==
    ASSUME NEW D, NEW H, Nodes(D, H), NEW l \in ListOn(D), Linked(l, H), NEW x \in H,
           NEW k, k.head = (IF PrevOf(l, x) = NULL THEN NextOf(l, x) ELSE l.head),
           \A h \in H \ {x} :
              NextOf(k, h) = IF h = PrevOf(l, x) THEN NextOf(l, x) ELSE NextOf(l, h),
           \A h \in H \ {x} :
              PrevOf(k, h) = IF h = NextOf(l, x) THEN PrevOf(l, x) ELSE PrevOf(l, h)
    PROVE  Linked(k, H \ {x})
<1> DEFINE K == H \ {x}
           p == PrevOf(l, x)
           n == NextOf(l, x)
<1>1. \A h \in H : h \in Nat /\ h # 0
  BY DEF Nodes, NULL
<1>2. \A h \in H : IsNext(H, h, NextOf(l, h)) /\ IsPrev(H, h, PrevOf(l, h))
  BY DEF Linked
<1>3. IsNext(H, x, n) /\ IsPrev(H, x, p)
  BY <1>2
<1>4. /\ \A h \in H : (h = l.head) <=> (PrevOf(l, h) = NULL)
      /\ (l.head = NULL) <=> (H = {})
      /\ \A g, h \in H : (NextOf(l, g) = h) <=> (PrevOf(l, h) = g)
  BY LinksAgree
<1>5. /\ \A h \in K : NextOf(k, h) = IF h = p THEN n ELSE NextOf(l, h)
      /\ \A h \in K : PrevOf(k, h) = IF h = n THEN p ELSE PrevOf(l, h)
      /\ k.head = IF p = NULL THEN n ELSE l.head
      /\ (x = l.head) <=> (p = NULL)
      /\ \A g \in H : (NextOf(l, g) = x) <=> (p = g)
      /\ \A g \in H : (PrevOf(l, g) = x) <=> (n = g)
  BY <1>4
<1>6. IsNext(H, NULL, l.head)
  BY DEF Linked
<1> HIDE DEF p, n
<1>7. IsNext(K, NULL, k.head)
  <2>1. CASE p = NULL
    <3>1. \A g \in H : x <= g
      BY <1>1, <1>3, <2>1 DEF IsPrev
    <3>2. QED
      BY <1>1, <1>3, <1>5, <2>1, <3>1 DEF IsNext, NULL
  <2>2. CASE p # NULL
    BY <1>1, <1>5, <1>6, <2>2 DEF IsNext, NULL
  <2>3. QED
    BY <2>1, <2>2
<1>8. ASSUME NEW h \in K PROVE IsNext(K, h, NextOf(k, h))
  <2>1. CASE h = p
    <3>1. h < x /\ \A g \in H : g >= x \/ g <= h
      BY <1>1, <1>3, <2>1 DEF IsPrev, NULL
    <3>2. NextOf(k, h) = n
      BY <1>5, <2>1
    <3>3. \A g \in K : g <= x => g <= h
      BY <1>1, <3>1
    <3>4. QED
      BY <1>1, <1>3, <3>1, <3>2, <3>3 DEF IsNext
  <2>2. CASE h # p
    <3>1. NextOf(k, h) = NextOf(l, h) /\ NextOf(l, h) # x /\ IsNext(H, h, NextOf(l, h))
      BY <1>2, <1>5, <2>2
    <3>2. QED
      BY <3>1 DEF IsNext
  <2>3. QED
    BY <2>1, <2>2
<1>9. ASSUME NEW h \in K PROVE IsPrev(K, h, PrevOf(k, h))
  <2>1. CASE h = n
    <3>1. x < h /\ \A g \in H : g <= x \/ h <= g
      BY <1>1, <1>3, <2>1 DEF IsNext, NULL
    <3>2. PrevOf(k, h) = p
      BY <1>5, <2>1
    <3>3. \A g \in K : g >= x => g >= h
      BY <1>1, <3>1
    <3>4. QED
      BY <1>1, <1>3, <3>1, <3>2, <3>3 DEF IsPrev
  <2>2. CASE h # n
    <3>1. PrevOf(k, h) = PrevOf(l, h) /\ PrevOf(l, h) # x /\ IsPrev(H, h, PrevOf(l, h))
      BY <1>2, <1>5, <2>2
    <3>2. QED
      BY <3>1 DEF IsPrev
  <2>3. QED
    BY <2>1, <2>2
<1>10. QED
  BY <1>7, <1>8, <1>9 DEF Linked

\* insert_to_holes_list puts a node in its place; a node behind all others goes
\* behind a tail that was left behind, where the list does not lead.
LEMMA InsertFacts ==
    ASSUME NEW D, NEW H, Nodes(D, H), NEW l \in ListOn(D), Linked(l, H),
           NEW x \in D, x # NULL, x \notin H,
           Sound(l, H) \/ (Hidden(l, H) /\ l.tail \in D /\ l.tail # x)
    PROVE  LET k == InsertToHolesList(l, x)
           IN  /\ k \in ListOn(D)
               /\ \A a \in D : Size(k, a) = Size(l, a)
               /\ Sound(l, H) => Linked(k, H \cup {x}) /\ Sound(k, H \cup {x})
               /\ ~ Sound(l, H) =>
                     \/ Linked(k, H \cup {x}) /\ k.tail = l.tail
                     \/ /\ Linked(k, H) /\ k.tail = x /\ H # {} /\ \A h \in H : h < x
                        /\ NextOf(k, x) = NULL /\ PrevOf(k, x) = l.tail
<1> DEFINE k == InsertToHolesList(l, x)
           node == FirstNode(l, LAMBDA n : x < n)
           prev == PrevOf(l, node)
           Put2(m, p, n) == SetNext(SetPrev(m, x, p), x, n)
<1>1. /\ D \in SUBSET Nat /\ NULL \in D /\ H \subseteq D /\ NULL \notin H
      /\ \A h \in H : h \in Nat /\ h \in D /\ h # NULL
      /\ x \in Nat /\ x > 0 /\ NULL \in Int
  BY DEF Nodes, NULL
<1>2. /\ l.head \in Nat /\ l.tail \in Nat
      /\ \A a \in D : Size(l, a) \in Nat /\ NextOf(l, a) \in Int /\ PrevOf(l, a) \in Int
  BY <1>1, Typed
<1>3. IsNext(H, x, node)
  BY <1>1, FirstAbove
<1>4. /\ \A h \in H : (h = l.head) <=> (PrevOf(l, h) = NULL)
      /\ (l.head = NULL) <=> (H = {})
      /\ \A g, h \in H : (NextOf(l, g) = h) <=> (PrevOf(l, h) = g)
  BY LinksAgree
<1>5. \A h \in H : IsNext(H, h, NextOf(l, h)) /\ IsPrev(H, h, PrevOf(l, h))
  BY DEF Linked
<1>6. node = NULL \/ node \in H
  BY <1>3 DEF IsNext
<1> DEFINE m1 == [l EXCEPT !.head = x, !.tail = x]
           m2 == [l EXCEPT !.head = x]
           m3 == [l EXCEPT !.tail = x]
<1>7. k = IF l.tail = NULL THEN Put2(m1, NULL, NULL)
          ELSE IF node = l.head THEN SetPrev(Put2(m2, NULL, node), node, x)
          ELSE IF node = NULL THEN Put2(SetNext(m3, l.tail, x), l.tail, NULL)
          ELSE Put2(SetPrev(SetNext(l, prev, x), node, x), prev, node)
  BY DEF InsertToHolesList
<1>8. /\ m1 \in ListOn(D) /\ m1.head = x /\ m1.tail = x
      /\ m2 \in ListOn(D) /\ m2.head = x /\ m2.tail = l.tail
      /\ m3 \in ListOn(D) /\ m3.head = l.head /\ m3.tail = x
      /\ \A a \in D : /\ Size(m1, a) = Size(l, a) /\ Size(m2, a) = Size(l, a)
                      /\ Size(m3, a) = Size(l, a)
                      /\ NextOf(m1, a) = NextOf(l, a) /\ NextOf(m2, a) = NextOf(l, a)
                      /\ NextOf(m3, a) = NextOf(l, a)
                      /\ PrevOf(m1, a) = PrevOf(l, a) /\ PrevOf(m2, a) = PrevOf(l, a)
                      /\ PrevOf(m3, a) = PrevOf(l, a)
  <2>1. x \in Nat
    BY <1>1
  <2>2. /\ m1 \in ListOn(D) /\ m1.head = x /\ m1.tail = x /\ m1.mem = l.mem
        /\ m2 \in ListOn(D) /\ m2.head = x /\ m2.tail = l.tail /\ m2.mem = l.mem
        /\ m3 \in ListOn(D) /\ m3.head = l.head /\ m3.tail = x /\ m3.mem = l.mem
    BY <2>1 DEF ListOn
  <2> HIDE DEF m1, m2, m3
  <2>3. QED
    BY <2>2 DEF Size, NextOf, PrevOf
<1>9. ASSUME NEW m \in ListOn(D), NEW p \in Int, NEW n \in Int
      PROVE  /\ Put2(m, p, n) \in ListOn(D)
             /\ Put2(m, p, n).head = m.head /\ Put2(m, p, n).tail = m.tail
             /\ \A a \in D : /\ Size(Put2(m, p, n), a) = Size(m, a)
                             /\ NextOf(Put2(m, p, n), a) = IF a = x THEN n ELSE NextOf(m, a)
                             /\ PrevOf(Put2(m, p, n), a) = IF a = x THEN p ELSE PrevOf(m, a)
  <2> DEFINE q == SetPrev(m, x, p)
  <2>1. /\ q \in ListOn(D) /\ q.head = m.head /\ q.tail = m.tail
        /\ \A b \in D : /\ Size(q, b) = Size(m, b)
                        /\ NextOf(q, b) = NextOf(m, b)
                        /\ PrevOf(q, b) = IF b = x /\ x # NULL THEN p ELSE PrevOf(m, b)
    BY SetPrevFacts
  <2> HIDE DEF q
  <2>2. /\ SetNext(q, x, n) \in ListOn(D)
        /\ SetNext(q, x, n).head = q.head /\ SetNext(q, x, n).tail = q.tail
        /\ \A b \in D : /\ Size(SetNext(q, x, n), b) = Size(q, b)
                        /\ NextOf(SetNext(q, x, n), b)
                             = IF b = x /\ x # NULL THEN n ELSE NextOf(q, b)
                        /\ PrevOf(SetNext(q, x, n), b) = PrevOf(q, b)
    BY <2>1, SetNextFacts
  <2>3. QED
    BY <2>1, <2>2 DEF q
<1> HIDE DEF k, node, Put2, m1, m2, m3
<1>10. CASE l.tail = NULL
  <2>1. /\ k \in ListOn(D) /\ k.head = x /\ k.tail = x
        /\ \A a \in D : Size(k, a) = Size(l, a)
        /\ NextOf(k, x) = NULL /\ PrevOf(k, x) = NULL
    BY <1>1, <1>7, <1>8, <1>9, <1>10
  <2>2. Sound(l, H) /\ H = {}
    BY <1>10 DEF Sound, Hidden
  <2>3. Linked(k, H \cup {x}) /\ Sound(k, H \cup {x})
    BY <1>1, <2>1, <2>2 DEF Linked, Sound, IsNext, IsPrev, NULL
  <2>4. QED
    BY <2>1, <2>2, <2>3 DEF k
<1>11. CASE l.tail # NULL /\ node = l.head
  <2> DEFINE q == Put2(m2, NULL, node)
  <2>1. /\ q \in ListOn(D) /\ q.head = x /\ q.tail = l.tail
        /\ \A a \in D : /\ Size(q, a) = Size(l, a)
                        /\ NextOf(q, a) = IF a = x THEN node ELSE NextOf(l, a)
                        /\ PrevOf(q, a) = IF a = x THEN NULL ELSE PrevOf(l, a)
    BY <1>1, <1>2, <1>8, <1>9, <1>11
  <2> HIDE DEF q
  <2>2. k = SetPrev(q, node, x) /\ node \in D
    BY <1>1, <1>6, <1>7, <1>11 DEF q
  <2>3. /\ k \in ListOn(D) /\ k.head = x /\ k.tail = l.tail
        /\ \A a \in D : /\ Size(k, a) = Size(l, a)
                        /\ NextOf(k, a) = IF a = x THEN node ELSE NextOf(l, a)
                        /\ PrevOf(k, a) = IF a = node /\ node # NULL THEN x
                                          ELSE IF a = x THEN NULL ELSE PrevOf(l, a)
    <3>1. x \in Int /\ node \in D
      BY <1>1, <2>2
    <3>2. LET m == SetPrev(q, node, x)
          IN  /\ m \in ListOn(D) /\ m.head = q.head /\ m.tail = q.tail
              /\ \A b \in D : /\ Size(m, b) = Size(q, b)
                              /\ NextOf(m, b) = NextOf(q, b)
                              /\ PrevOf(m, b) = IF b = node /\ node # NULL THEN x
                                                ELSE PrevOf(q, b)
      BY <2>1, <3>1, SetPrevFacts
    <3>3. QED
      BY <2>1, <2>2, <3>2
  <2>4. IsPrev(H, x, NULL)
    <3>1. CASE node = NULL
      BY <1>4, <1>11, <3>1 DEF IsPrev
    <3>2. CASE node # NULL
      <4>1. node \in H /\ x < node /\ IsPrev(H, node, NULL)
        BY <1>3, <1>4, <1>5, <1>11, <3>2 DEF IsNext
      <4>2. QED
        BY <1>1, <4>1 DEF IsPrev
    <3>3. QED
      BY <3>1, <3>2
  <2>5. Linked(k, H \cup {x})
    <3>1. /\ k.head = (IF NULL = NULL THEN x ELSE l.head)
          /\ NextOf(k, x) = node /\ PrevOf(k, x) = NULL
          /\ \A h \in H : NextOf(k, h) = IF h = NULL THEN x ELSE NextOf(l, h)
          /\ \A h \in H : PrevOf(k, h) = IF h = node THEN x ELSE PrevOf(l, h)
      BY <1>1, <1>6, <2>3
    <3>2. QED
      BY <1>3, <2>4, <3>1, PutBetween
  <2>6. Sound(l, H) => Sound(k, H \cup {x})
    BY <1>1, <1>11, <2>3, <2>4 DEF Sound, IsPrev
  <2>7. QED
    BY <2>3, <2>5, <2>6 DEF k
<1>12. CASE l.tail # NULL /\ node # l.head /\ node = NULL
  <2>1. l.tail \in D /\ l.tail # x /\ H # {}
    BY <1>1, <1>4, <1>12 DEF Sound
  <2> DEFINE q == SetNext(m3, l.tail, x)
  <2>2. /\ q \in ListOn(D) /\ q.head = l.head /\ q.tail = x
        /\ \A a \in D : /\ Size(q, a) = Size(l, a)
                        /\ NextOf(q, a) = IF a = l.tail /\ l.tail # NULL THEN x ELSE NextOf(l, a)
                        /\ PrevOf(q, a) = PrevOf(l, a)
    <3>1. x \in Int /\ m3 \in ListOn(D)
      BY <1>1, <1>8
    <3>2. /\ q \in ListOn(D) /\ q.head = m3.head /\ q.tail = m3.tail
          /\ \A b \in D : /\ Size(q, b) = Size(m3, b)
                          /\ NextOf(q, b) = IF b = l.tail /\ l.tail # NULL THEN x
                                            ELSE NextOf(m3, b)
                          /\ PrevOf(q, b) = PrevOf(m3, b)
      BY <2>1, <3>1, SetNextFacts
    <3> HIDE DEF q
    <3>3. QED
      BY <1>8, <3>2
  <2> HIDE DEF q
  <2>3. k = Put2(q, l.tail, NULL)
    BY <1>7, <1>12 DEF q
  <2>4. /\ k \in ListOn(D) /\ k.head = l.head /\ k.tail = x
        /\ \A a \in D : /\ Size(k, a) = Size(l, a)
                        /\ NextOf(k, a) = IF a = x THEN NULL
                                          ELSE IF a = l.tail THEN x ELSE NextOf(l, a)
                        /\ PrevOf(k, a) = IF a = x THEN l.tail ELSE PrevOf(l, a)
    BY <1>1, <1>2, <1>9, <1>12, <2>2, <2>3
  <2>5. \A h \in H : h < x
    BY <1>1, <1>3, <1>12 DEF IsNext
  <2>6. ASSUME Sound(l, H) PROVE Linked(k, H \cup {x}) /\ Sound(k, H \cup {x})
    <3>1. l.tail \in H /\ \A h \in H : h <= l.tail
      BY <1>12, <2>6 DEF Sound
    <3>2. IsPrev(H, x, l.tail)
      BY <1>12, <2>5, <3>1 DEF IsPrev
    <3>3. IsNext(H, x, NULL)
      BY <1>3, <1>12
    <3>4. Linked(k, H \cup {x})
      <4>1. /\ k.head = (IF l.tail = NULL THEN x ELSE l.head)
            /\ NextOf(k, x) = NULL /\ PrevOf(k, x) = l.tail
            /\ \A h \in H : NextOf(k, h) = IF h = l.tail THEN x ELSE NextOf(l, h)
            /\ \A h \in H : PrevOf(k, h) = IF h = NULL THEN x ELSE PrevOf(l, h)
        BY <1>1, <1>12, <2>4
      <4>2. QED
        BY <3>2, <3>3, <4>1, PutBetween
    <3>5. Sound(k, H \cup {x})
      BY <1>1, <2>4, <2>5 DEF Sound
    <3>6. QED
      BY <3>4, <3>5
  <2>7. ASSUME ~ Sound(l, H)
        PROVE  Linked(k, H) /\ NextOf(k, x) = NULL /\ PrevOf(k, x) = l.tail
    <3>1. l.tail \notin H
      BY <2>7 DEF Hidden
    <3>2. /\ k.head = l.head
          /\ \A h \in H : NextOf(k, h) = NextOf(l, h) /\ PrevOf(k, h) = PrevOf(l, h)
      BY <1>1, <2>4, <3>1
    <3>3. QED
      BY <2>4, <3>2 DEF Linked
  <2>8. QED
    BY <2>1, <2>4, <2>5, <2>6, <2>7 DEF k
<1>13. CASE l.tail # NULL /\ node # l.head /\ node # NULL
  <2>1. node \in H /\ x < node /\ (\A g \in H : g <= x \/ node <= g)
    BY <1>3, <1>13 DEF IsNext
  <2>2. prev # NULL /\ prev \in H /\ prev < node /\ (\A g \in H : g >= node \/ g <= prev)
        /\ NextOf(l, prev) = node
    BY <1>4, <1>5, <1>13, <2>1 DEF IsPrev
  <2> HIDE DEF prev
  <2>3. IsPrev(H, x, prev)
    <3>1. prev < x
      BY <1>1, <2>1, <2>2
    <3>2. \A g \in H : g >= x \/ g <= prev
      BY <1>1, <2>1, <2>2
    <3>3. QED
      BY <2>2, <3>1, <3>2 DEF IsPrev
  <2> DEFINE q == SetNext(l, prev, x)
             r == SetPrev(q, node, x)
  <2>4. /\ q \in ListOn(D) /\ q.head = l.head /\ q.tail = l.tail
        /\ \A a \in D : /\ Size(q, a) = Size(l, a)
                        /\ NextOf(q, a) = IF a = prev /\ prev # NULL THEN x ELSE NextOf(l, a)
                        /\ PrevOf(q, a) = PrevOf(l, a)
    <3>1. x \in Int /\ prev \in D
      BY <1>1, <2>2
    <3>2. QED
      BY <3>1, SetNextFacts
  <2> HIDE DEF q
  <2>5. /\ r \in ListOn(D) /\ r.head = q.head /\ r.tail = q.tail
        /\ \A a \in D : /\ Size(r, a) = Size(q, a)
                        /\ NextOf(r, a) = NextOf(q, a)
                        /\ PrevOf(r, a) = IF a = node /\ node # NULL THEN x ELSE PrevOf(q, a)
    <3>1. x \in Int /\ node \in D /\ q \in ListOn(D)
      BY <1>1, <2>1, <2>4
    <3>2. QED
      BY <3>1, SetPrevFacts
  <2> HIDE DEF r
  <2>6. k = Put2(r, prev, node)
    BY <1>7, <1>13 DEF q, r, prev
  <2>7. /\ k \in ListOn(D) /\ k.head = l.head /\ k.tail = l.tail
        /\ \A a \in D : /\ Size(k, a) = Size(l, a)
                        /\ NextOf(k, a) = IF a = x THEN node
                                          ELSE IF a = prev THEN x ELSE NextOf(l, a)
                        /\ PrevOf(k, a) = IF a = x THEN prev
                                          ELSE IF a = node THEN x ELSE PrevOf(l, a)
    <3>1. prev \in Int /\ node \in Int
      BY <1>1, <2>1, <2>2
    <3>2. QED
      BY <1>9, <1>13, <2>2, <2>4, <2>5, <2>6, <3>1
  <2>8. Linked(k, H \cup {x})
    <3>1. /\ k.head = (IF prev = NULL THEN x ELSE l.head)
          /\ NextOf(k, x) = node /\ PrevOf(k, x) = prev
          /\ \A h \in H : NextOf(k, h) = IF h = prev THEN x ELSE NextOf(l, h)
          /\ \A h \in H : PrevOf(k, h) = IF h = node THEN x ELSE PrevOf(l, h)
      BY <1>1, <2>2, <2>7
    <3>2. QED
      BY <1>3, <2>3, <3>1, PutBetween
  <2>9. Sound(l, H) => Sound(k, H \cup {x})
    <3>1. node \in Nat /\ x \in Nat /\ \A h \in H : h \in Nat
      BY <1>1, <2>1
    <3>2. ASSUME Sound(l, H) PROVE l.tail \in H /\ x <= l.tail /\ \A h \in H : h <= l.tail
      <4>1. l.tail \in H /\ \A h \in H : h <= l.tail
        BY <1>13, <3>2 DEF Sound
      <4>2. node <= l.tail /\ l.tail \in Nat
        BY <2>1, <3>1, <4>1
      <4>3. QED
        BY <2>1, <3>1, <4>1, <4>2
    <3>3. QED
      BY <1>13, <2>7, <3>2 DEF Sound
  <2>10. QED
    BY <2>7, <2>8, <2>9 DEF k
<1>14. QED
  BY <1>10, <1>11, <1>12, <1>13

\* remove_from_holes_list takes a node out; its own words stay as they are.
LEMMA RemoveFacts ==
    ASSUME NEW D, NEW H, Nodes(D, H), NEW l \in ListOn(D), Linked(l, H), NEW x \in H,
           Sound(l, H) \/ Hidden(l, H)
    PROVE  LET k == RemoveFromHolesList(l, x)
           IN  /\ k \in ListOn(D) /\ Linked(k, H \ {x})
               /\ \A a \in D : Size(k, a) = Size(l, a)
               /\ NextOf(k, x) = NextOf(l, x)
               /\ Sound(l, H) => Sound(k, H \ {x})
               /\ ~ Sound(l, H) => Sound(k, H \ {x}) \/ k.tail = l.tail
<1> DEFINE k == RemoveFromHolesList(l, x)
           n == NextOf(l, x)
           p == PrevOf(l, x)
           m1 == [l EXCEPT !.head = NULL, !.tail = NULL]
           m2 == [l EXCEPT !.head = n]
           m3 == [l EXCEPT !.tail = p]
<1>1. /\ D \in SUBSET Nat /\ NULL \in D /\ H \subseteq D /\ NULL \notin H
      /\ \A h \in H : h \in Nat /\ h \in D /\ h # NULL
      /\ x \in Nat /\ x \in D /\ x # NULL /\ NULL \in Int /\ NULL \in Nat
  BY DEF Nodes, NULL
<1>2. /\ \A h \in H : (h = l.head) <=> (PrevOf(l, h) = NULL)
      /\ \A g, h \in H : (NextOf(l, g) = h) <=> (PrevOf(l, h) = g)
  BY LinksAgree
<1>3. IsNext(H, x, n) /\ IsPrev(H, x, p)
  BY DEF Linked
<1>4. /\ n \in H \/ n = NULL
      /\ p \in H \/ p = NULL
      /\ n # x /\ p # x
  BY <1>1, <1>3 DEF IsNext, IsPrev
<1>5. (x = l.head) <=> (p = NULL)
  BY <1>2
<1>6. k = IF p = NULL /\ n = NULL THEN m1
          ELSE IF x = l.head THEN SetPrev(m2, n, NULL)
          ELSE IF x = l.tail THEN SetNext(m3, p, NULL)
          ELSE SetPrev(SetNext(l, p, n), n, p)
  BY DEF RemoveFromHolesList
<1> HIDE DEF k, n, p
<1>7. n \in Nat /\ p \in Nat /\ n \in D /\ p \in D /\ n \in Int /\ p \in Int
  <2>1. n \in Nat /\ n \in D
    BY <1>1, <1>4
  <2>2. p \in Nat /\ p \in D
    BY <1>1, <1>4
  <2>3. QED
    BY <2>1, <2>2
<1>8. /\ m1 \in ListOn(D) /\ m1.head = NULL /\ m1.tail = NULL
      /\ m2 \in ListOn(D) /\ m2.head = n /\ m2.tail = l.tail
      /\ m3 \in ListOn(D) /\ m3.head = l.head /\ m3.tail = p
      /\ \A a \in D : /\ Size(m1, a) = Size(l, a) /\ Size(m2, a) = Size(l, a)
                      /\ Size(m3, a) = Size(l, a)
                      /\ NextOf(m1, a) = NextOf(l, a) /\ NextOf(m2, a) = NextOf(l, a)
                      /\ NextOf(m3, a) = NextOf(l, a)
                      /\ PrevOf(m1, a) = PrevOf(l, a) /\ PrevOf(m2, a) = PrevOf(l, a)
                      /\ PrevOf(m3, a) = PrevOf(l, a)
  <2>1. NULL \in Nat
    BY <1>1
  <2>2. /\ m1 \in ListOn(D) /\ m1.head = NULL /\ m1.tail = NULL /\ m1.mem = l.mem
        /\ m2 \in ListOn(D) /\ m2.head = n /\ m2.tail = l.tail /\ m2.mem = l.mem
        /\ m3 \in ListOn(D) /\ m3.head = l.head /\ m3.tail = p /\ m3.mem = l.mem
    BY <1>7, <2>1 DEF ListOn
  <2> HIDE DEF m1, m2, m3
  <2>3. QED
    BY <2>2 DEF Size, NextOf, PrevOf
<1> HIDE DEF m1, m2, m3
<1>9. CASE p = NULL /\ n = NULL
  <2>1. /\ k \in ListOn(D) /\ k.head = NULL /\ k.tail = NULL
        /\ \A a \in D : Size(k, a) = Size(l, a) /\ NextOf(k, a) = NextOf(l, a)
    BY <1>6, <1>8, <1>9
  <2>2. H = {x}
    <3>1. \A h \in H : h <= x /\ h >= x
      BY <1>3, <1>9 DEF IsNext, IsPrev
    <3>2. \A h \in H : h = x
      BY <1>1, <3>1
    <3>3. QED
      BY <3>2
  <2>3. H \ {x} = {}
    BY <2>2
  <2>4. Linked(k, {}) /\ Sound(k, {})
    BY <2>1 DEF Linked, Sound, IsNext
  <2>5. QED
    BY <1>1, <2>1, <2>3, <2>4 DEF k
<1>10. CASE ~ (p = NULL /\ n = NULL) /\ x = l.head
  <2>1. p = NULL /\ n \in H
    BY <1>4, <1>5, <1>10
  <2>2. LET m == SetPrev(m2, n, NULL)
        IN  /\ m \in ListOn(D) /\ m.head = m2.head /\ m.tail = m2.tail
            /\ \A b \in D : /\ Size(m, b) = Size(m2, b)
                            /\ NextOf(m, b) = NextOf(m2, b)
                            /\ PrevOf(m, b) = IF b = n /\ n # NULL THEN NULL ELSE PrevOf(m2, b)
    BY <1>1, <1>7, <1>8, SetPrevFacts
  <2>3. /\ k \in ListOn(D) /\ k.head = n /\ k.tail = l.tail
        /\ \A a \in D : /\ Size(k, a) = Size(l, a)
                        /\ NextOf(k, a) = NextOf(l, a)
                        /\ PrevOf(k, a) = IF a = n THEN NULL ELSE PrevOf(l, a)
    BY <1>1, <1>6, <1>8, <1>10, <2>1, <2>2
  <2>4. Linked(k, H \ {x})
    <3>1. /\ k.head = (IF p = NULL THEN n ELSE l.head)
          /\ \A h \in H \ {x} : NextOf(k, h) = IF h = p THEN n ELSE NextOf(l, h)
          /\ \A h \in H \ {x} : PrevOf(k, h) = IF h = n THEN p ELSE PrevOf(l, h)
      BY <1>1, <2>1, <2>3
    <3>2. QED
      BY <3>1, TakeOut DEF p, n
  <2>5. Sound(l, H) => Sound(k, H \ {x})
    <3>1. SUFFICES ASSUME Sound(l, H) PROVE Sound(k, H \ {x})
      OBVIOUS
    <3>2. l.tail # NULL /\ l.tail \in H /\ \A h \in H : h <= l.tail
      BY <3>1 DEF Sound
    <3>3. n > x
      BY <1>1, <1>3, <2>1 DEF IsNext
    <3>4. l.tail # x
      BY <1>1, <2>1, <3>2, <3>3
    <3>5. QED
      BY <2>3, <3>2, <3>4 DEF Sound
  <2>6. QED
    BY <1>1, <2>3, <2>4, <2>5 DEF k
<1>11. CASE ~ (p = NULL /\ n = NULL) /\ x # l.head /\ x = l.tail
  <2>1. p \in H
    BY <1>4, <1>5, <1>11
  <2>2. Sound(l, H)
    BY <1>11 DEF Hidden
  <2>3. \A h \in H : h <= x
    BY <1>1, <1>11, <2>2 DEF Sound
  <2>4. n = NULL
    <3>1. n # NULL => n \in H /\ x < n
      BY <1>3 DEF IsNext
    <3>2. n # NULL => n <= x /\ x < n
      BY <2>3, <3>1
    <3>3. QED
      BY <1>1, <1>7, <3>2
  <2>5. LET m == SetNext(m3, p, NULL)
        IN  /\ m \in ListOn(D) /\ m.head = m3.head /\ m.tail = m3.tail
            /\ \A b \in D : /\ Size(m, b) = Size(m3, b)
                            /\ NextOf(m, b) = IF b = p /\ p # NULL THEN NULL ELSE NextOf(m3, b)
                            /\ PrevOf(m, b) = PrevOf(m3, b)
    BY <1>1, <1>7, <1>8, SetNextFacts
  <2>6. /\ k \in ListOn(D) /\ k.head = l.head /\ k.tail = p
        /\ \A a \in D : /\ Size(k, a) = Size(l, a)
                        /\ NextOf(k, a) = IF a = p THEN NULL ELSE NextOf(l, a)
                        /\ PrevOf(k, a) = PrevOf(l, a)
    BY <1>1, <1>6, <1>8, <1>11, <2>1, <2>5
  <2>7. Linked(k, H \ {x})
    <3>1. /\ k.head = (IF p = NULL THEN n ELSE l.head)
          /\ \A h \in H \ {x} : NextOf(k, h) = IF h = p THEN n ELSE NextOf(l, h)
          /\ \A h \in H \ {x} : PrevOf(k, h) = IF h = n THEN p ELSE PrevOf(l, h)
      BY <1>1, <2>1, <2>4, <2>6
    <3>2. QED
      BY <3>1, TakeOut DEF p, n
  <2>8. Sound(k, H \ {x})
    <3>1. p < x /\ \A h \in H : h >= x \/ h <= p
      BY <1>1, <1>3, <2>1 DEF IsPrev
    <3>2. \A h \in H \ {x} : h <= p
      BY <1>1, <2>3, <3>1
    <3>3. QED
      <4>1. k.tail # NULL /\ k.tail \in H \ {x} /\ \A h \in H \ {x} : h <= k.tail
        BY <1>1, <1>4, <2>1, <2>6, <3>2
      <4>2. QED
        BY <4>1 DEF Sound
  <2>9. QED
    BY <1>1, <1>4, <2>2, <2>6, <2>7, <2>8 DEF k
<1>12. CASE ~ (p = NULL /\ n = NULL) /\ x # l.head /\ x # l.tail
  <2>1. p \in H
    BY <1>4, <1>5, <1>12
  <2> DEFINE q == SetNext(l, p, n)
  <2>2. /\ q \in ListOn(D) /\ q.head = l.head /\ q.tail = l.tail
        /\ \A b \in D : /\ Size(q, b) = Size(l, b)
                        /\ NextOf(q, b) = IF b = p /\ p # NULL THEN n ELSE NextOf(l, b)
                        /\ PrevOf(q, b) = PrevOf(l, b)
    BY <1>7, SetNextFacts
  <2> HIDE DEF q
  <2>3. LET m == SetPrev(q, n, p)
        IN  /\ m \in ListOn(D) /\ m.head = q.head /\ m.tail = q.tail
            /\ \A b \in D : /\ Size(m, b) = Size(q, b)
                            /\ NextOf(m, b) = NextOf(q, b)
                            /\ PrevOf(m, b) = IF b = n /\ n # NULL THEN p ELSE PrevOf(q, b)
    BY <1>7, <2>2, SetPrevFacts
  <2>4. k = SetPrev(q, n, p)
    BY <1>6, <1>12 DEF q
  <2>5. /\ k \in ListOn(D) /\ k.head = l.head /\ k.tail = l.tail
        /\ \A a \in D : /\ Size(k, a) = Size(l, a)
                        /\ NextOf(k, a) = IF a = p THEN n ELSE NextOf(l, a)
                        /\ PrevOf(k, a) = IF a = n /\ n # NULL THEN p ELSE PrevOf(l, a)
    BY <1>1, <2>1, <2>2, <2>3, <2>4
  <2>6. Linked(k, H \ {x})
    <3>1. /\ k.head = (IF p = NULL THEN n ELSE l.head)
          /\ \A h \in H \ {x} : NextOf(k, h) = IF h = p THEN n ELSE NextOf(l, h)
          /\ \A h \in H \ {x} : PrevOf(k, h) = IF h = n THEN p ELSE PrevOf(l, h)
      BY <1>1, <2>1, <2>5
    <3>2. QED
      BY <3>1, TakeOut DEF p, n
  <2>7. Sound(l, H) => Sound(k, H \ {x})
    BY <1>1, <1>12, <2>5 DEF Sound
  <2>8. QED
    BY <1>1, <1>4, <2>1, <2>5, <2>6, <2>7 DEF k
<1>13. QED
  BY <1>9, <1>10, <1>11, <1>12
LEMMA SetSizeKeeps ==
    ASSUME NEW D, NEW H, Nodes(D, H), NEW l \in ListOn(D), Linked(l, H),
           NEW a \in D, NEW v, v \in Nat
    PROVE  LET k == SetSize(l, a, v)
           IN  /\ k \in ListOn(D) /\ Linked(k, H) /\ k.tail = l.tail
               /\ (Sound(k, H) <=> Sound(l, H))
               /\ \A b \in D : /\ Size(k, b) = IF b = a THEN v ELSE Size(l, b)
                               /\ NextOf(k, b) = NextOf(l, b)
                               /\ PrevOf(k, b) = PrevOf(l, b)
<1> DEFINE k == SetSize(l, a, v)
<1>1. /\ k \in ListOn(D) /\ k.head = l.head /\ k.tail = l.tail
      /\ \A b \in D : /\ Size(k, b) = IF b = a THEN v ELSE Size(l, b)
                      /\ NextOf(k, b) = NextOf(l, b)
                      /\ PrevOf(k, b) = PrevOf(l, b)
  BY SetSizeFacts
<1> HIDE DEF k
<1>2. Linked(k, H)
  <2>1. \A h \in H : NextOf(k, h) = NextOf(l, h) /\ PrevOf(k, h) = PrevOf(l, h)
    BY <1>1 DEF Nodes
  <2>2. QED
    BY <1>1, <2>1 DEF Linked
<1>3. (Sound(k, H) <=> Sound(l, H))
  BY <1>1 DEF Sound
<1>4. QED
  BY <1>1, <1>2, <1>3 DEF k

\* merge makes the hole part of the hole before it, and takes the next hole out
\* of the list, whose bytes it adds to the header of the hole it was called for.
LEMMA MergeFacts ==
    ASSUME NEW D, NEW H, Nodes(D, H), NEW l \in ListOn(D), Linked(l, H), NEW x \in H,
           Sound(l, H) \/ Hidden(l, H), Size(l, NULL) # x
    PROVE  LET k == Merge(l, x)
               p == PrevOf(l, x)
               n == NextOf(l, x)
               joins == p # NULL /\ p + Size(l, p) = x
               grows == n # NULL /\ x + Size(l, x) = n
               gone  == {h \in H : (h = x /\ joins) \/ (h = n /\ grows)}
           IN  /\ k \in ListOn(D) /\ Linked(k, H \ gone)
               /\ \A a \in D : Size(k, a) = IF a = p /\ joins THEN Size(l, p) + Size(l, x)
                                            ELSE IF a = x /\ grows THEN Size(l, x) + Size(l, n)
                                            ELSE Size(l, a)
               /\ Sound(l, H) => Sound(k, H \ gone)
               /\ ~ Sound(l, H) => Sound(k, H \ gone) \/ k.tail = l.tail
<1> DEFINE p == PrevOf(l, x)
           n == NextOf(l, x)
           joins == p # NULL /\ p + Size(l, p) = x
           grows == n # NULL /\ x + Size(l, x) = n
           first == IF joins THEN {x} ELSE {}
           gone  == {h \in H : (h = x /\ joins) \/ (h = n /\ grows)}
           m == IF EndsAt(l, p, x) THEN MergePrevious(l, x) ELSE l
           k == IF EndsAt(m, x, NextOf(m, x)) THEN MergeNext(m, x) ELSE m
<1>1. /\ D \in SUBSET Nat /\ NULL \in D /\ H \subseteq D /\ NULL \notin H /\ NULL = 0
      /\ \A h \in H : h \in Nat /\ h \in D /\ h # NULL
      /\ x \in Nat /\ x \in D /\ x > 0
  BY DEF Nodes, NULL
<1>2. IsNext(H, x, n) /\ IsPrev(H, x, p)
  BY DEF Linked
<1>3. /\ n \in H \/ n = NULL
      /\ p \in H \/ p = NULL
      /\ n # x /\ p # x
  BY <1>1, <1>2 DEF IsNext, IsPrev
<1>4. \A a \in D : Size(l, a) \in Nat
  BY <1>1, Typed
<1>5. Merge(l, x) = k
  BY DEF Merge
<1> HIDE DEF n, p
<1>6. EndsAt(l, p, x) <=> joins
  <2>1. CASE p = NULL
    <3>1. NULL + Size(l, NULL) = Size(l, NULL)
      BY <1>1, <1>4
    <3>2. QED
      BY <2>1, <3>1 DEF EndsAt
  <2>2. CASE p # NULL
    BY <2>2 DEF EndsAt
  <2>3. QED
    BY <2>1, <2>2
<1>7. /\ m \in ListOn(D) /\ Linked(m, H \ first) /\ NextOf(m, x) = n
      /\ \A a \in D : Size(m, a) = IF a = p /\ joins THEN Size(l, p) + Size(l, x)
                                   ELSE Size(l, a)
      /\ Sound(l, H) => Sound(m, H \ first)
      /\ ~ Sound(l, H) => Sound(m, H \ first) \/ m.tail = l.tail
  <2>1. CASE joins
    <3> DEFINE v == Size(l, p) + Size(l, x)
               q == SetSize(l, p, v)
    <3>1. p \in H /\ p \in D /\ v \in Nat
      <4>1. p \in H
        BY <1>3, <2>1
      <4>2. p \in D /\ x \in D
        BY <1>1, <4>1
      <4>3. Size(l, p) \in Nat /\ Size(l, x) \in Nat
        BY <1>4, <4>2
      <4>4. QED
        BY <4>1, <4>2, <4>3
    <3> HIDE DEF v
    <3>2. /\ q \in ListOn(D) /\ Linked(q, H) /\ q.tail = l.tail
          /\ (Sound(q, H) <=> Sound(l, H))
          /\ \A b \in D : /\ Size(q, b) = IF b = p THEN v ELSE Size(l, b)
                          /\ NextOf(q, b) = NextOf(l, b)
                          /\ PrevOf(q, b) = PrevOf(l, b)
      BY <3>1, SetSizeKeeps
    <3> HIDE DEF q
    <3>3. m = RemoveFromHolesList(q, x)
      BY <1>6, <2>1 DEF MergePrevious, q, p, v
    <3>4. Sound(q, H) \/ Hidden(q, H)
      BY <3>2 DEF Hidden
    <3>5. LET r == RemoveFromHolesList(q, x)
          IN  /\ r \in ListOn(D) /\ Linked(r, H \ {x})
              /\ \A a \in D : Size(r, a) = Size(q, a)
              /\ NextOf(r, x) = NextOf(q, x)
              /\ Sound(q, H) => Sound(r, H \ {x})
              /\ ~ Sound(q, H) => Sound(r, H \ {x}) \/ r.tail = q.tail
      BY <3>2, <3>4, RemoveFacts
    <3> HIDE DEF m
    <3>6. first = {x}
      BY <2>1
    <3>7. /\ m \in ListOn(D) /\ Linked(m, H \ {x})
          /\ \A a \in D : Size(m, a) = Size(q, a)
          /\ NextOf(m, x) = NextOf(q, x)
          /\ Sound(q, H) => Sound(m, H \ {x})
          /\ ~ Sound(q, H) => Sound(m, H \ {x}) \/ m.tail = q.tail
      BY <3>3, <3>5
    <3>8. NextOf(q, x) = n
      BY <1>1, <3>2 DEF n
    <3> HIDE DEF joins, first
    <3>9. QED
      BY <2>1, <3>2, <3>6, <3>7, <3>8 DEF v
  <2>2. CASE ~ joins
    <3>1. m = l /\ first = {}
      BY <1>6, <2>2
    <3>2. H \ first = H
      BY <3>1
    <3> HIDE DEF joins, first, m
    <3>3. QED
      BY <1>4, <2>2, <3>1, <3>2 DEF n
  <2>3. QED
    BY <2>1, <2>2
<1> HIDE DEF m
<1>8. EndsAt(m, x, NextOf(m, x)) <=> grows
  <2>1. Size(m, x) = Size(l, x) /\ Size(l, x) \in Nat
    BY <1>1, <1>3, <1>4, <1>7
  <2>2. QED
    BY <1>1, <1>7, <2>1 DEF EndsAt
<1>9. H \ gone = IF grows THEN (H \ first) \ {n} ELSE H \ first
  OBVIOUS
<1>10. CASE grows
  <2> DEFINE v == Size(m, x) + Size(m, n)
             q == SetSize(m, x, v)
             K == H \ first
  <2>1. n \in H /\ n \in D /\ n \in K
    BY <1>1, <1>3, <1>10
  <2>2. v \in Nat /\ Size(m, n) \in Nat
    BY <1>1, <1>7, <2>1, Typed
  <2>3. Nodes(D, K)
    BY DEF Nodes
  <2> HIDE DEF K, v
  <2>4. /\ q \in ListOn(D) /\ Linked(q, K) /\ q.tail = m.tail
        /\ (Sound(q, K) <=> Sound(m, K))
        /\ \A b \in D : /\ Size(q, b) = IF b = x THEN v ELSE Size(m, b)
                        /\ NextOf(q, b) = NextOf(m, b)
                        /\ PrevOf(q, b) = PrevOf(m, b)
    <3>1. m \in ListOn(D) /\ Linked(m, K) /\ x \in D
      BY <1>1, <1>7 DEF K
    <3>2. QED
      BY <2>2, <2>3, <3>1, SetSizeKeeps
  <2> HIDE DEF q
  <2>5. k = RemoveFromHolesList(q, n)
    BY <1>7, <1>8, <1>10 DEF MergeNext, q, v
  <2>6. Sound(q, K) \/ Hidden(q, K)
    <3>1. Sound(m, K) \/ m.tail = l.tail
      BY <1>7 DEF K
    <3>2. ~ Sound(l, H) => l.tail # NULL /\ l.tail \notin K
      BY DEF Hidden, K
    <3>3. Sound(l, H) => Sound(m, K)
      BY <1>7 DEF K
    <3>4. QED
      BY <2>4, <3>1, <3>2, <3>3 DEF Hidden
  <2>7. LET r == RemoveFromHolesList(q, n)
        IN  /\ r \in ListOn(D) /\ Linked(r, K \ {n})
            /\ \A a \in D : Size(r, a) = Size(q, a)
            /\ Sound(q, K) => Sound(r, K \ {n})
            /\ ~ Sound(q, K) => Sound(r, K \ {n}) \/ r.tail = q.tail
    BY <2>1, <2>3, <2>4, <2>6, RemoveFacts
  <2> HIDE DEF k
  <2>8. /\ k \in ListOn(D) /\ Linked(k, K \ {n})
        /\ \A a \in D : Size(k, a) = Size(q, a)
        /\ Sound(q, K) => Sound(k, K \ {n})
        /\ ~ Sound(q, K) => Sound(k, K \ {n}) \/ k.tail = q.tail
    BY <2>5, <2>7
  <2>9. H \ gone = K \ {n}
    BY <1>9, <1>10 DEF K
  <2>10. \A a \in D : Size(k, a) = IF a = p /\ joins THEN Size(l, p) + Size(l, x)
                                   ELSE IF a = x /\ grows THEN Size(l, x) + Size(l, n)
                                   ELSE Size(l, a)
    <3>1. n # p
      BY <1>1, <1>2, <1>3, <2>1 DEF IsNext, IsPrev
    <3>2. Size(m, n) = Size(l, n) /\ Size(m, x) = Size(l, x)
      BY <1>1, <1>3, <1>7, <2>1, <3>1
    <3> HIDE DEF joins, grows
    <3>3. QED
      BY <1>3, <1>7, <1>10, <2>4, <2>8, <3>2 DEF v
  <2>11. Sound(l, H) => Sound(k, H \ gone)
    <3>1. Sound(l, H) => Sound(m, K)
      BY <1>7 DEF K
    <3>2. QED
      BY <2>4, <2>8, <2>9, <3>1
  <2>12. ~ Sound(l, H) => Sound(k, H \ gone) \/ k.tail = l.tail
    <3>1. ~ Sound(l, H) => Sound(m, K) \/ m.tail = l.tail
      BY <1>7 DEF K
    <3>2. QED
      BY <2>4, <2>8, <2>9, <3>1
  <2>13. QED
    BY <1>5, <2>8, <2>9, <2>10, <2>11, <2>12 DEF k, n, p
<1>11. CASE ~ grows
  <2>1. k = m /\ H \ gone = H \ first
    BY <1>8, <1>9, <1>11
  <2> HIDE DEF k, gone, first
  <2>2. QED
    BY <1>5, <1>7, <1>11, <2>1 DEF n, p, gone
<1>12. QED
  BY <1>10, <1>11

\* merge of a hole that was put behind a tail left behind changes nothing that
\* the list leads to.
LEMMA MergeLost ==
    ASSUME NEW D, NEW H, Nodes(D, H), NEW l \in ListOn(D), Linked(l, H), H # {},
           NEW x \in D, x # NULL, x \notin H, l.tail = x, NextOf(l, x) = NULL,
           PrevOf(l, x) \in D \ (H \cup {NULL, x})
    PROVE  LET k == Merge(l, x)
           IN  /\ k \in ListOn(D) /\ Linked(k, H) /\ k.tail \in {x, PrevOf(l, x)}
               /\ \A a \in D \ {PrevOf(l, x)} : Size(k, a) = Size(l, a)
<1> DEFINE t == PrevOf(l, x)
           v == Size(l, t) + Size(l, x)
           q == SetSize(l, t, v)
           q2 == [q EXCEPT !.tail = t]
           r == SetNext(q2, t, NULL)
           m == IF EndsAt(l, t, x) THEN MergePrevious(l, x) ELSE l
           k == IF EndsAt(m, x, NextOf(m, x)) THEN MergeNext(m, x) ELSE m
<1>1. /\ D \in SUBSET Nat /\ NULL \in D /\ H \subseteq D /\ NULL \notin H /\ NULL = 0
      /\ \A h \in H : h \in Nat /\ h \in D /\ h # NULL
      /\ x \in Nat /\ x \in D /\ x > 0 /\ t \in D /\ t \in Nat /\ t \notin H /\ t # NULL /\ t # x
  <2>1. t \in D /\ t \notin H /\ t # NULL /\ t # x
    OBVIOUS
  <2> HIDE DEF t
  <2>2. QED
    BY <2>1 DEF Nodes, NULL
<1>2. v \in Nat /\ Size(l, x) \in Nat
  BY <1>1, Typed
<1>3. l.head # x
  BY DEF Linked, IsNext
<1>4. Merge(l, x) = k
  BY DEF Merge
<1> HIDE DEF t, v
<1>5. /\ q \in ListOn(D) /\ Linked(q, H) /\ q.tail = l.tail /\ q.head = l.head
      /\ \A b \in D : /\ Size(q, b) = IF b = t THEN v ELSE Size(l, b)
                      /\ NextOf(q, b) = NextOf(l, b)
                      /\ PrevOf(q, b) = PrevOf(l, b)
  <2>1. q.head = l.head
    BY DEF SetSize
  <2>2. t \in D
    BY <1>1
  <2>3. QED
    BY <1>2, <2>1, <2>2, SetSizeKeeps
<1> HIDE DEF q
<1>6. /\ q2 \in ListOn(D) /\ q2.head = q.head /\ q2.tail = t
      /\ \A b \in D : /\ Size(q2, b) = Size(q, b) /\ NextOf(q2, b) = NextOf(q, b)
                      /\ PrevOf(q2, b) = PrevOf(q, b)
  <2>1. q2 \in ListOn(D) /\ q2.head = q.head /\ q2.tail = t /\ q2.mem = q.mem
    BY <1>1, <1>5 DEF ListOn
  <2> HIDE DEF q2
  <2>2. QED
    BY <2>1 DEF Size, NextOf, PrevOf
<1> HIDE DEF q2
<1>7. /\ r \in ListOn(D) /\ r.head = q2.head /\ r.tail = q2.tail
      /\ \A b \in D : /\ Size(r, b) = Size(q2, b)
                      /\ NextOf(r, b) = IF b = t /\ t # NULL THEN NULL ELSE NextOf(q2, b)
                      /\ PrevOf(r, b) = PrevOf(q2, b)
  <2>1. t \in D /\ NULL \in Int
    BY <1>1
  <2>2. QED
    BY <1>6, <2>1, SetNextFacts
<1> HIDE DEF r
<1>8. EndsAt(l, t, x) => m = r
  <2>1. PrevOf(q, x) = t /\ NextOf(q, x) = NULL /\ t # NULL /\ x # q.head /\ x = q.tail
    BY <1>1, <1>3, <1>5 DEF t
  <2>2. RemoveFromHolesList(q, x) = r
    BY <2>1 DEF RemoveFromHolesList, q2, r
  <2>3. MergePrevious(l, x) = RemoveFromHolesList(q, x)
    BY DEF MergePrevious, q, t, v
  <2>4. QED
    BY <2>2, <2>3
<1>9. /\ m \in ListOn(D) /\ Linked(m, H) /\ m.tail \in {x, t} /\ NextOf(m, x) = NULL
      /\ \A a \in D \ {t} : Size(m, a) = Size(l, a)
  <2>1. CASE EndsAt(l, t, x)
    <3>1. /\ r \in ListOn(D) /\ r.tail = t /\ r.head = l.head
          /\ \A b \in D : b # t => /\ Size(r, b) = Size(l, b)
                                   /\ NextOf(r, b) = NextOf(l, b)
                                   /\ PrevOf(r, b) = PrevOf(l, b)
      BY <1>5, <1>6, <1>7
    <3>2. \A h \in H : NextOf(r, h) = NextOf(l, h) /\ PrevOf(r, h) = PrevOf(l, h)
      BY <1>1, <3>1
    <3>3. Linked(r, H)
      BY <3>1, <3>2 DEF Linked
    <3>4. NextOf(r, x) = NULL
      BY <1>1, <3>1
    <3>5. m = r
      BY <1>8, <2>1
    <3> HIDE DEF m
    <3>6. QED
      BY <3>1, <3>3, <3>4, <3>5
  <2>2. CASE ~ EndsAt(l, t, x)
    BY <2>2
  <2>3. QED
    BY <2>1, <2>2
<1> HIDE DEF m
<1>10. ~ EndsAt(m, x, NextOf(m, x))
  <2>1. Size(m, x) = Size(l, x)
    BY <1>1, <1>9
  <2>2. QED
    BY <1>1, <1>2, <1>9, <2>1 DEF EndsAt
<1>11. k = m
  BY <1>10
<1> HIDE DEF k
<1>12. QED
  BY <1>4, <1>9, <1>11 DEF t
-----------------------------------------------------------------------------
(* Chunks and holes side by side *)

LEMMA PutHeaderKeeps ==
    ASSUME NEW D, NEW H, Nodes(D, H), NEW l \in ListOn(D), Linked(l, H),
           NEW a, a \in Nat, a \notin H, NEW v, v \in Nat, NEW E, E = D \cup {a}
    PROVE  LET k == PutHeader(l, a, v)
           IN  /\ Nodes(E, H)
               /\ k \in ListOn(E) /\ Linked(k, H) /\ k.tail = l.tail
               /\ Size(k, a) = v
               /\ \A b \in D : b # a => Size(k, b) = Size(l, b)
<1> DEFINE k == PutHeader(l, a, v)
<1>1. /\ k \in ListOn(E) /\ k.head = l.head /\ k.tail = l.tail
      /\ Size(k, a) = v
      /\ \A b \in D : b # a => /\ Size(k, b) = Size(l, b)
                              /\ NextOf(k, b) = NextOf(l, b)
                              /\ PrevOf(k, b) = PrevOf(l, b)
  BY PutHeaderFacts
<1> HIDE DEF k
<1>2. \A h \in H : NextOf(k, h) = NextOf(l, h) /\ PrevOf(k, h) = PrevOf(l, h)
  BY <1>1 DEF Nodes
<1>3. Linked(k, H)
  BY <1>1, <1>2 DEF Linked
<1>4. Nodes(E, H)
  BY FS_AddElement DEF Nodes
<1>5. QED
  BY <1>1, <1>3, <1>4 DEF k

\* The chunks and holes at the addresses in S lie behind each other below top.
Laid(l, S, top) ==
    /\ \A a \in S : a >= HEAP_START /\ Size(l, a) > 0 /\ a + Size(l, a) <= top
    /\ \A a, b \in S : a < b => a + Size(l, a) <= b

\* Every byte of them is in a page mapped for the heap.
Backed(l, S, pgs) ==
    \A a \in S, b \in Nat :
       a <= b /\ b < a + Size(l, a) => \E p \in pgs : p <= b /\ b < p + PAGE_SIZE

\* The tail is sound, or has been left behind when the frames had run out, on a
\* header that is in no chunk and no hole.
TailKept(D, H, S, l, free) ==
    \/ Sound(l, H) /\ Size(l, NULL) = LOW_WORD
    \/ /\ Size(l, NULL) = 0 /\ free = 0
       /\ \/ Sound(l, H)
          \/ /\ Hidden(l, H) /\ l.tail \in D
             /\ \A a \in S : l.tail < a \/ a + Size(l, a) <= l.tail

\* A list on D with the holes H beside the chunks A.
Fits(D, H, A, l, top, free, pgs) ==
    /\ Nodes(D, H) /\ l \in ListOn(D) /\ Linked(l, H)
    /\ A \subseteq D /\ A \cap H = {}
    /\ Laid(l, A \cup H, top)
    /\ Backed(l, A \cup H, pgs)
    /\ TailKept(D, H, A \cup H, l, free)

\* What Fits says of its addresses, for the provers.
LEMMA FitsFacts ==
    ASSUME NEW D, NEW H, NEW A, NEW l, NEW top, NEW free, NEW pgs,
           Fits(D, H, A, l, top, free, pgs)
    PROVE  /\ D \in SUBSET Nat /\ NULL \in D /\ NULL = 0 /\ NULL \notin A \cup H
           /\ \A a \in A \cup H : /\ a \in Nat /\ a > 0 /\ a \in D /\ Size(l, a) \in Nat
                                  /\ Size(l, a) > 0
           /\ \A a \in A : a \notin H
           /\ \A d \in D : Size(l, d) \in Nat
           /\ Sound(l, H) \/ (Hidden(l, H) /\ l.tail \in D /\ l.tail \notin A \cup H)
<1>1. D \in SUBSET Nat /\ NULL \in D /\ NULL = 0 /\ l \in ListOn(D) /\ A \cup H \subseteq D
  BY DEF Fits, Nodes, NULL
<1>2. \A d \in D : Size(l, d) \in Nat /\ d \in Nat
  BY <1>1, Typed
<1>3. \A a \in A \cup H : a >= HEAP_START /\ Size(l, a) > 0
  BY DEF Fits, Laid
<1>4. \A a \in A \cup H : a \in D /\ a \in Nat /\ Size(l, a) \in Nat /\ Size(l, a) > 0
  BY <1>1, <1>2, <1>3
<1>5. \A a \in A \cup H : a > 0
  BY <1>3, <1>4, HeapAssumption
<1>6. NULL \notin A \cup H
  BY <1>1, <1>5
<1>7. \A a \in A : a \notin H
  BY DEF Fits
<1>8. Sound(l, H) \/ (Hidden(l, H) /\ l.tail \in D /\ l.tail \notin A \cup H)
  <2>1. SUFFICES ASSUME ~ Sound(l, H)
                 PROVE  Hidden(l, H) /\ l.tail \in D /\ l.tail \notin A \cup H
    OBVIOUS
  <2>2. /\ Hidden(l, H) /\ l.tail \in D
        /\ \A a \in A \cup H : l.tail < a \/ a + Size(l, a) <= l.tail
    BY <2>1 DEF Fits, TailKept
  <2>3. \A a \in A \cup H : l.tail # a
    BY <1>4, <2>2
  <2>4. QED
    BY <2>2, <2>3
<1>9. QED
  BY <1>1, <1>2, <1>4, <1>5, <1>6, <1>7, <1>8

\* Shrinking and dropping what lies side by side.  A hole that becomes two pieces
\* at hole and hole + n keeps everything apart.
LEMMA Apart ==
    ASSUME NEW S, NEW l, NEW k, NEW top, Laid(l, S, top),
           \A a \in S : a \in Nat /\ Size(l, a) \in Nat, top \in Nat,
           NEW hole \in S, NEW n, n \in Nat, n > 0, n <= Size(l, hole),
           NEW T, T \subseteq S \cup {hole + n}, hole + n \in T => n < Size(l, hole),
           \A a \in T : a # hole /\ a # hole + n => Size(k, a) = Size(l, a),
           hole \in T => Size(k, hole) = n,
           hole + n \in T => Size(k, hole + n) = Size(l, hole) - n
    PROVE  Laid(k, T, top)
<1>1. /\ \A a \in S : a >= HEAP_START /\ Size(l, a) > 0 /\ a + Size(l, a) <= top
      /\ \A a, b \in S : a < b => a + Size(l, a) <= b
  BY DEF Laid
<1>2. hole \in Nat /\ Size(l, hole) \in Nat /\ HEAP_START \in Nat
  BY HeapAssumption
<1> DEFINE nh == hole + n
<1>3. nh \in Nat /\ nh > hole /\ nh <= hole + Size(l, hole)
  BY <1>2
<1>4. \A a \in T : a = nh \/ (a \in S /\ a # nh)
  OBVIOUS
<1> HIDE DEF nh
<1>5. \A a \in S : a # hole => a + Size(l, a) <= hole \/ hole + Size(l, hole) <= a
  BY <1>1, <1>2
<1>6. ASSUME NEW a \in T
      PROVE  a >= HEAP_START /\ Size(k, a) > 0 /\ a + Size(k, a) <= top
  <2>1. CASE a = nh
    <3>1. Size(k, a) = Size(l, hole) - n /\ n < Size(l, hole)
      BY <2>1 DEF nh
    <3>2. a >= HEAP_START /\ hole + Size(l, hole) <= top
      BY <1>1, <1>2, <1>3, <2>1
    <3>3. a + Size(k, a) = hole + Size(l, hole)
      BY <1>2, <2>1, <3>1 DEF nh
    <3>4. QED
      BY <1>2, <3>1, <3>2, <3>3
  <2>2. CASE a = hole
    <3>1. Size(k, a) = n
      BY <2>2
    <3>2. a >= HEAP_START /\ hole + Size(l, hole) <= top
      BY <1>1, <2>2
    <3>3. QED
      BY <1>2, <2>2, <3>1, <3>2
  <2>3. CASE a # nh /\ a # hole
    <3>1. a \in S /\ Size(k, a) = Size(l, a)
      BY <1>4, <2>3 DEF nh
    <3>2. QED
      BY <1>1, <3>1
  <2>4. QED
    BY <2>1, <2>2, <2>3
<1>7. ASSUME NEW a \in T, NEW b \in T, a < b
      PROVE  a + Size(k, a) <= b
  <2>1. CASE a = nh
    <3>1. Size(k, a) = Size(l, hole) - n /\ n < Size(l, hole)
      BY <2>1 DEF nh
    <3>2. a + Size(k, a) = hole + Size(l, hole)
      BY <1>2, <2>1, <3>1 DEF nh
    <3>3. b # nh /\ b \in S /\ b \in Nat
      BY <1>3, <1>4, <1>7, <2>1
    <3>4. b # hole
      BY <1>2, <1>3, <1>7, <2>1
    <3>5. b + Size(l, b) <= hole \/ hole + Size(l, hole) <= b
      BY <1>5, <3>3, <3>4
    <3>6. Size(l, b) \in Nat
      BY <3>3
    <3>7. QED
      BY <1>2, <1>3, <1>7, <2>1, <3>2, <3>3, <3>5, <3>6
  <2>2. CASE a = hole
    <3>1. Size(k, a) = n
      BY <2>2
    <3>2. CASE b = nh
      BY <1>2, <2>2, <3>1, <3>2 DEF nh
    <3>3. CASE b # nh
      <4>1. b \in S /\ b \in Nat
        BY <1>4, <3>3
      <4>2. hole + Size(l, hole) <= b
        BY <1>1, <1>7, <2>2, <4>1
      <4>3. QED
        BY <1>2, <2>2, <3>1, <4>1, <4>2
    <3>4. QED
      BY <3>2, <3>3
  <2>3. CASE a # nh /\ a # hole
    <3>1. a \in S /\ Size(k, a) = Size(l, a) /\ a \in Nat /\ Size(l, a) \in Nat
      BY <1>4, <2>3 DEF nh
    <3>2. CASE b = nh
      <4>1. a + Size(l, a) <= hole \/ hole + Size(l, hole) <= a
        BY <1>5, <2>3, <3>1
      <4>2. QED
        BY <1>2, <1>3, <1>7, <3>1, <3>2, <4>1
    <3>3. CASE b # nh
      BY <1>1, <1>4, <1>7, <3>1, <3>3
    <3>4. QED
      BY <3>2, <3>3
  <2>4. QED
    BY <2>1, <2>2, <2>3
<1>8. QED
  BY <1>6, <1>7 DEF Laid

\* The pieces of what is backed are backed.
LEMMA PiecesBacked ==
    ASSUME NEW S, NEW l, NEW k, NEW pgs, Backed(l, S, pgs), NEW T,
           \A a \in T : a \in Nat /\ Size(k, a) \in Nat,
           \A a \in S : a \in Nat /\ Size(l, a) \in Nat,
           \A a \in T : \E c \in S : c <= a /\ a + Size(k, a) <= c + Size(l, c)
    PROVE  Backed(k, T, pgs)
<1>1. SUFFICES ASSUME NEW a \in T, NEW b \in Nat, a <= b, b < a + Size(k, a)
               PROVE  \E p \in pgs : p <= b /\ b < p + PAGE_SIZE
  BY DEF Backed
<1>2. PICK c \in S : c <= a /\ a + Size(k, a) <= c + Size(l, c)
  OBVIOUS
<1>3. c <= b /\ b < c + Size(l, c)
  <2>1. a \in Nat /\ Size(k, a) \in Nat /\ c \in Nat /\ Size(l, c) \in Nat
    OBVIOUS
  <2>2. QED
    BY <1>1, <1>2, <2>1
<1>4. QED
  BY <1>3 DEF Backed

\* A hole is taken for a chunk; what is left of it is a hole of its own, or lies
\* behind the tail that was left behind.
TakenAs(E, K, D, H, A, l, k, hole, required, free) ==
    LET n  == Size(k, hole)
        nh == hole + n
    IN  /\ n \in Nat /\ n >= required
        /\ \A a \in (A \cup H) \ {hole} : Size(k, a) = Size(l, a)
        /\ Size(k, NULL) = Size(l, NULL)
        /\ H \ {hole} \subseteq K
        /\ IF Size(l, hole) - required > HEADER
           THEN /\ n = IF required > HEADER THEN required ELSE HEADER
                /\ n < Size(l, hole)
                /\ K \subseteq (H \ {hole}) \cup {nh}
                /\ nh \in K => Size(k, nh) = Size(l, hole) - n
                /\ nh \in K \/ Size(k, NULL) = 0
           ELSE n = Size(l, hole) /\ K = H \ {hole}

LEMMA TakeWhole ==
    ASSUME NEW D, NEW H, NEW A, NEW l, NEW top, NEW free, NEW pgs,
           Fits(D, H, A, l, top, free, pgs), top \in Nat,
           NEW hole \in H, NEW required, required \in Nat, required > 0,
           Size(l, hole) >= required, ~ (Size(l, hole) - required > HEADER)
    PROVE  LET k == PutHeader(RemoveFromHolesList(l, hole), hole, Size(l, hole))
           IN  \E E, K : /\ Fits(E, K, A \cup {hole}, k, top, free, pgs)
                         /\ TakenAs(E, K, D, H, A, l, k, hole, required, free)
<1> DEFINE K == H \ {hole}
           S == A \cup H
           n == Size(l, hole)
           r == RemoveFromHolesList(l, hole)
           k == PutHeader(r, hole, n)
<1>1. /\ D \in SUBSET Nat /\ NULL \in D /\ NULL = 0 /\ NULL \notin S
      /\ \A a \in S : a \in Nat /\ a > 0 /\ a \in D /\ Size(l, a) \in Nat /\ Size(l, a) > 0
      /\ \A a \in A : a \notin H
      /\ Sound(l, H) \/ (Hidden(l, H) /\ l.tail \in D /\ l.tail \notin S)
  BY FitsFacts
<1>2. Nodes(D, H) /\ l \in ListOn(D) /\ Linked(l, H) /\ A \subseteq D
  BY DEF Fits
<1>3. hole \in Nat /\ hole > 0 /\ hole \in D /\ hole \notin A /\ n \in Nat /\ n > 0
  BY <1>1
<1>4. /\ r \in ListOn(D) /\ Linked(r, K)
      /\ \A a \in D : Size(r, a) = Size(l, a)
      /\ Sound(l, H) => Sound(r, K)
      /\ ~ Sound(l, H) => Sound(r, K) \/ r.tail = l.tail
  BY <1>1, <1>2, RemoveFacts
<1>5. Nodes(D, K) /\ hole \notin K /\ D = D \cup {hole}
  BY <1>2, <1>3 DEF Nodes
<1> HIDE DEF r, n, K
<1>6. /\ Nodes(D, K) /\ k \in ListOn(D) /\ Linked(k, K) /\ k.tail = r.tail
      /\ Size(k, hole) = n
      /\ \A b \in D : b # hole => Size(k, b) = Size(r, b)
  BY <1>3, <1>4, <1>5, PutHeaderKeeps
<1> HIDE DEF k
<1>7. \A a \in D : Size(k, a) = Size(l, a)
  BY <1>4, <1>6 DEF n
<1> DEFINE T == (A \cup {hole}) \cup K
<1>8. T = S
  BY DEF K
<1>9. Laid(k, T, top)
  <2>1. \A a \in S : Size(k, a) = Size(l, a)
    BY <1>1, <1>7
  <2>2. QED
    BY <1>8, <2>1 DEF Fits, Laid
<1>10. Backed(k, T, pgs)
  <2>1. \A a \in S : Size(k, a) = Size(l, a)
    BY <1>1, <1>7
  <2>2. QED
    BY <1>8, <2>1 DEF Fits, Backed
<1>11. TailKept(D, K, T, k, free)
  <2>1. Size(k, NULL) = Size(l, NULL) /\ \A a \in S : Size(k, a) = Size(l, a)
    BY <1>1, <1>7
  <2>2. Sound(l, H) => Sound(k, K)
    BY <1>4, <1>6 DEF Sound
  <2>3. ~ Sound(l, H) => Sound(k, K) \/ k.tail = l.tail
    BY <1>4, <1>6 DEF Sound
  <2>4. Hidden(l, H) /\ k.tail = l.tail => Hidden(k, K)
    BY DEF Hidden, K
  <2>5. TailKept(D, H, S, l, free)
    BY DEF Fits
  <2>6. CASE Sound(l, H)
    BY <2>1, <2>2, <2>5, <2>6 DEF TailKept
  <2>7. CASE ~ Sound(l, H)
    <3>1. /\ Size(l, NULL) = 0 /\ free = 0 /\ Hidden(l, H) /\ l.tail \in D
          /\ \A a \in S : l.tail < a \/ a + Size(l, a) <= l.tail
      BY <2>5, <2>7 DEF TailKept
    <3>2. CASE Sound(k, K)
      BY <2>1, <3>1, <3>2 DEF TailKept
    <3>3. CASE ~ Sound(k, K)
      <4>1. k.tail = l.tail /\ Hidden(k, K)
        BY <2>3, <2>4, <2>7, <3>1, <3>3
      <4>2. \A a \in T : k.tail < a \/ a + Size(k, a) <= k.tail
        BY <1>8, <2>1, <3>1, <4>1
      <4>3. QED
        BY <2>1, <3>1, <4>1, <4>2 DEF TailKept
    <3>4. QED
      BY <3>2, <3>3
  <2>8. QED
    BY <2>6, <2>7
<1>12. A \cup {hole} \subseteq D /\ (A \cup {hole}) \cap K = {}
  BY <1>1, <1>2, <1>3 DEF K
<1>13. Fits(D, K, A \cup {hole}, k, top, free, pgs)
  BY <1>6, <1>9, <1>10, <1>11, <1>12 DEF Fits
<1>14. TakenAs(D, K, D, H, A, l, k, hole, required, free)
  BY <1>1, <1>2, <1>3, <1>6, <1>7 DEF TakenAs, K, n
<1>15. QED
  BY <1>13, <1>14 DEF k, r, n
LEMMA TakePart ==
    ASSUME NEW D, NEW H, NEW A, NEW l, NEW top, NEW free, NEW pgs,
           Fits(D, H, A, l, top, free, pgs), top \in Nat,
           NEW hole \in H, NEW required, required \in Nat, required > 0,
           Size(l, hole) - required > HEADER,
           NEW n, n = (IF required > HEADER THEN required ELSE HEADER)
    PROVE  LET rest == PutHeader(l, hole + n, Size(l, hole) - n)
               k == PutHeader(RemoveFromHolesList(InsertToHolesList(rest, hole + n), hole),
                              hole, n)
           IN  \E E, K : /\ Fits(E, K, A \cup {hole}, k, top, free, pgs)
                         /\ TakenAs(E, K, D, H, A, l, k, hole, required, free)
<1> DEFINE S == A \cup H
           nh == hole + n
           v == Size(l, hole) - n
           E == D \cup {nh}
           rest == PutHeader(l, nh, v)
           i == InsertToHolesList(rest, nh)
           r == RemoveFromHolesList(i, hole)
           k == PutHeader(r, hole, n)
<1>1. /\ D \in SUBSET Nat /\ NULL \in D /\ NULL = 0 /\ NULL \notin S
      /\ \A a \in S : a \in Nat /\ a > 0 /\ a \in D /\ Size(l, a) \in Nat /\ Size(l, a) > 0
      /\ \A a \in A : a \notin H
      /\ Sound(l, H) \/ (Hidden(l, H) /\ l.tail \in D /\ l.tail \notin S)
  BY FitsFacts
<1>2. Nodes(D, H) /\ l \in ListOn(D) /\ Linked(l, H) /\ A \subseteq D
  BY DEF Fits
<1>3. hole \in Nat /\ hole > 0 /\ hole \in D /\ hole \notin A /\ Size(l, hole) \in Nat
  BY <1>1
<1>4. HEADER \in Nat /\ n \in Nat /\ n > 0 /\ n >= required /\ n < Size(l, hole)
  <2>1. HEADER \in Nat
    BY HeapAssumption
  <2>2. QED
    BY <1>3, <2>1
<1>5. nh \in Nat /\ nh > hole /\ nh < hole + Size(l, hole) /\ nh # NULL /\ v \in Nat
  BY <1>1, <1>3, <1>4
<1>6. /\ \A a, b \in S : a < b => a + Size(l, a) <= b
      /\ hole + Size(l, hole) <= top
  BY DEF Fits, Laid
<1>7. nh \notin S
  <2>1. SUFFICES ASSUME nh \in S PROVE FALSE
    OBVIOUS
  <2>2. hole + Size(l, hole) <= nh
    BY <1>5, <1>6, <2>1
  <2>3. QED
    BY <1>3, <1>5, <2>2
<1>8. ~ Sound(l, H) => /\ Size(l, NULL) = 0 /\ free = 0 /\ Hidden(l, H) /\ l.tail \in D
                       /\ \A a \in S : l.tail < a \/ a + Size(l, a) <= l.tail
  BY DEF Fits, TailKept
<1>9. ~ Sound(l, H) => l.tail # nh /\ l.tail \in Nat
  <2>1. SUFFICES ASSUME ~ Sound(l, H) PROVE l.tail # nh /\ l.tail \in Nat
    OBVIOUS
  <2>2. l.tail < hole \/ hole + Size(l, hole) <= l.tail
    BY <1>8, <2>1
  <2>3. l.tail \in Nat
    BY <1>1, <1>8, <2>1
  <2>4. QED
    BY <1>3, <1>5, <2>2, <2>3
<1>10. nh \notin H /\ nh \in E /\ E = D \cup {nh}
  BY <1>7
<1> HIDE DEF nh, v, E
<1>11. /\ Nodes(E, H) /\ rest \in ListOn(E) /\ Linked(rest, H) /\ rest.tail = l.tail
       /\ Size(rest, nh) = v
       /\ \A b \in D : b # nh => Size(rest, b) = Size(l, b)
  BY <1>2, <1>5, <1>10, PutHeaderKeeps
<1> HIDE DEF rest
<1>12. /\ Sound(rest, H) <=> Sound(l, H)
       /\ Hidden(rest, H) <=> Hidden(l, H)
  BY <1>11 DEF Sound, Hidden
<1>13. /\ i \in ListOn(E)
       /\ \A a \in E : Size(i, a) = Size(rest, a)
       /\ Sound(rest, H) => Linked(i, H \cup {nh}) /\ Sound(i, H \cup {nh})
       /\ ~ Sound(rest, H) => \/ Linked(i, H \cup {nh}) /\ i.tail = rest.tail
                              \/ Linked(i, H) /\ i.tail = nh
  <2>1. Sound(rest, H) \/ (Hidden(rest, H) /\ rest.tail \in E /\ rest.tail # nh)
    BY <1>8, <1>9, <1>10, <1>11, <1>12
  <2>2. QED
    BY <1>5, <1>10, <1>11, <2>1, InsertFacts
<1> HIDE DEF i
<1>14. PICK G : /\ G = H \/ G = H \cup {nh}
                /\ Linked(i, G)
                /\ Sound(l, H) => Sound(i, G) /\ nh \in G
                /\ ~ Sound(l, H) => i.tail \notin G /\ i.tail # NULL
                /\ ~ Sound(l, H) => i.tail = l.tail \/ i.tail = nh
                /\ nh \in G \/ ~ Sound(l, H)
  <2>1. CASE Sound(l, H)
    BY <1>12, <1>13, <2>1
  <2>2. CASE ~ Sound(l, H) /\ Linked(i, H \cup {nh}) /\ i.tail = rest.tail
    <3>1. l.tail \notin H \cup {nh} /\ l.tail # NULL
      BY <1>8, <1>9, <2>2 DEF Hidden
    <3>2. QED
      BY <1>11, <2>2, <3>1
  <2>3. CASE ~ Sound(l, H) /\ Linked(i, H) /\ i.tail = nh
    BY <1>5, <1>10, <2>3
  <2>4. QED
    BY <1>12, <1>13, <2>1, <2>2, <2>3
<1> DEFINE K == G \ {hole}
<1>15. Nodes(E, G) /\ hole \in G /\ nh \notin A /\ Nodes(E, K) /\ hole \notin K
       /\ E = E \cup {hole}
  BY <1>3, <1>5, <1>7, <1>10, <1>11, <1>14 DEF Nodes
<1>16. /\ r \in ListOn(E) /\ Linked(r, K)
       /\ \A a \in E : Size(r, a) = Size(i, a)
       /\ Sound(i, G) => Sound(r, K)
       /\ ~ Sound(i, G) => Sound(r, K) \/ r.tail = i.tail
  <2>1. Sound(i, G) \/ Hidden(i, G)
    BY <1>14 DEF Hidden
  <2>2. QED
    BY <1>13, <1>14, <1>15, <2>1, RemoveFacts
<1> HIDE DEF r, K
<1>17. /\ k \in ListOn(E) /\ Linked(k, K) /\ k.tail = r.tail
       /\ Size(k, hole) = n
       /\ \A b \in E : b # hole => Size(k, b) = Size(r, b)
  BY <1>3, <1>4, <1>15, <1>16, PutHeaderKeeps
<1> HIDE DEF k
<1>18. /\ \A a \in D : a # hole /\ a # nh => Size(k, a) = Size(l, a)
       /\ Size(k, hole) = n /\ Size(k, nh) = v
  <2>1. \A a \in D : a \in E
    BY <1>10
  <2>2. hole # nh
    BY <1>3, <1>5
  <2>3. QED
    BY <1>10, <1>11, <1>13, <1>16, <1>17, <2>1, <2>2
<1> DEFINE T == (A \cup {hole}) \cup K
<1>19. /\ T \subseteq S \cup {nh} /\ \A a \in T : a \in E
       /\ \A a \in S : a # hole => Size(k, a) = Size(l, a)
       /\ Size(k, NULL) = Size(l, NULL)
  <2>1. T \subseteq S \cup {nh}
    BY <1>14 DEF K
  <2>2. \A a \in T : a \in E
    BY <1>1, <1>10, <2>1
  <2>3. \A a \in S : a # hole => Size(k, a) = Size(l, a)
    BY <1>1, <1>7, <1>18
  <2>4. Size(k, NULL) = Size(l, NULL)
    BY <1>1, <1>3, <1>5, <1>18
  <2>5. QED
    BY <2>1, <2>2, <2>3, <2>4
<1>20. \A a \in T : a # hole /\ a # nh => a \in S /\ Size(k, a) = Size(l, a)
  BY <1>19
<1>21. Laid(k, T, top)
  <2>1. Laid(l, S, top) /\ hole \in S
    BY DEF Fits
  <2>2. \A a \in S : a \in Nat /\ Size(l, a) \in Nat
    BY <1>1
  <2>3. T \subseteq S \cup {hole + n}
    BY <1>19 DEF nh
  <2>4. \A a \in T : a # hole /\ a # hole + n => Size(k, a) = Size(l, a)
    BY <1>20 DEF nh
  <2>5. Size(k, hole + n) = Size(l, hole) - n
    BY <1>18 DEF nh, v
  <2> HIDE DEF S, T
  <2>6. QED
    BY <1>4, <1>18, <2>1, <2>2, <2>3, <2>4, <2>5, Apart
<1>22. Backed(k, T, pgs)
  <2>1. \A a \in S : a \in Nat /\ Size(l, a) \in Nat
    BY <1>1
  <2>2. \A a \in T : a \in Nat /\ Size(k, a) \in Nat
    BY <1>1, <1>4, <1>5, <1>18, <1>19, <1>20
  <2>3. \A a \in T : \E c \in S : c <= a /\ a + Size(k, a) <= c + Size(l, c)
    <3>1. hole <= nh /\ nh + v <= hole + Size(l, hole) /\ hole <= hole /\ hole \in S
          /\ hole + n <= hole + Size(l, hole)
      BY <1>3, <1>4, <1>5 DEF nh, v
    <3>2. SUFFICES ASSUME NEW a \in T
                   PROVE  \E c \in S : c <= a /\ a + Size(k, a) <= c + Size(l, c)
      OBVIOUS
    <3>3. CASE a = hole \/ a = nh
      BY <1>18, <3>1, <3>3
    <3>4. CASE a # hole /\ a # nh
      <4>1. a \in S /\ Size(k, a) = Size(l, a) /\ a \in Nat /\ Size(l, a) \in Nat
        BY <1>20, <2>1, <3>4
      <4>2. a <= a /\ a + Size(k, a) <= a + Size(l, a)
        BY <4>1
      <4>3. QED
        BY <4>1, <4>2
    <3>5. QED
      BY <3>3, <3>4
  <2>4. Backed(l, S, pgs)
    BY DEF Fits
  <2> HIDE DEF S, T
  <2>5. QED
    BY <2>1, <2>2, <2>3, <2>4, PiecesBacked
<1>23. TailKept(E, K, T, k, free)
  <2>1. CASE Sound(l, H)
    <3>1. Sound(k, K)
      BY <1>14, <1>16, <1>17, <2>1 DEF Sound
    <3>2. Size(l, NULL) = LOW_WORD \/ (Size(l, NULL) = 0 /\ free = 0)
      BY DEF Fits, TailKept
    <3>3. QED
      BY <1>19, <3>1, <3>2 DEF TailKept
  <2>2. CASE ~ Sound(l, H)
    <3>1. Size(k, NULL) = 0 /\ free = 0
      BY <1>8, <1>19, <2>2
    <3>2. CASE Sound(k, K)
      BY <3>1, <3>2 DEF TailKept
    <3>3. CASE ~ Sound(k, K)
      <4>1. k.tail = i.tail
        <5>1. ~ Sound(r, K)
          BY <1>17, <3>3 DEF Sound
        <5>2. QED
          BY <1>16, <1>17, <5>1
      <4>2. k.tail # NULL /\ k.tail \notin K
        BY <1>14, <2>2, <4>1 DEF K
      <4>3. CASE i.tail = l.tail
        <5>1. k.tail \in E
          BY <1>8, <1>10, <2>2, <4>1, <4>3
        <5>2. \A a \in S : k.tail < a \/ a + Size(l, a) <= k.tail
          BY <1>8, <2>2, <4>1, <4>3
        <5>3. \A a \in T : k.tail < a \/ a + Size(k, a) <= k.tail
          <6>1. k.tail < hole \/ hole + Size(l, hole) <= k.tail
            BY <5>2
          <6>2. k.tail \in Nat
            BY <1>9, <2>2, <4>1, <4>3
          <6>3. hole + n <= hole + Size(l, hole) /\ nh + v = hole + Size(l, hole)
            BY <1>3, <1>4 DEF nh, v
          <6>4. k.tail < nh \/ nh + v <= k.tail
            BY <1>3, <1>5, <6>1, <6>2, <6>3
          <6>5. k.tail < hole \/ hole + n <= k.tail
            BY <1>3, <1>4, <6>1, <6>2, <6>3
          <6>6. QED
            BY <1>18, <1>20, <5>2, <6>4, <6>5
        <5>4. QED
          BY <3>1, <4>2, <5>1, <5>3 DEF TailKept, Hidden
      <4>4. CASE i.tail = nh
        <5>1. k.tail = nh /\ nh \in E /\ nh \notin K
          BY <1>10, <4>1, <4>2, <4>4
        <5>2. ASSUME NEW a \in T PROVE nh < a \/ a + Size(k, a) <= nh
          <6>1. CASE a = hole
            BY <1>3, <1>18, <6>1 DEF nh
          <6>2. CASE a # hole
            <7>1. a # nh
              BY <1>15, <5>1, <6>2
            <7>2. a \in S /\ Size(k, a) = Size(l, a) /\ a \in Nat /\ Size(l, a) \in Nat
              BY <1>1, <1>20, <6>2, <7>1
            <7>3. CASE a < hole
              BY <1>3, <1>5, <1>6, <7>2, <7>3
            <7>4. CASE hole < a
              <8>1. hole + Size(l, hole) <= a
                BY <1>6, <7>2, <7>4
              <8>2. QED
                BY <1>3, <1>5, <7>2, <8>1
            <7>5. QED
              BY <1>3, <6>2, <7>2, <7>3, <7>4
          <6>3. QED
            BY <6>1, <6>2
        <5>3. QED
          BY <3>1, <4>2, <5>1, <5>2 DEF TailKept, Hidden
      <4>5. QED
        BY <1>14, <2>2, <4>3, <4>4
    <3>4. QED
      BY <3>2, <3>3
  <2>3. QED
    BY <2>1, <2>2
<1>24. A \cup {hole} \subseteq E /\ (A \cup {hole}) \cap K = {}
  <2>1. \A a \in A : a \notin G
    BY <1>1, <1>14, <1>15
  <2>2. \A a \in A : a \in E
    BY <1>2, <1>10
  <2>3. hole \in E
    BY <1>3, <1>10
  <2>4. QED
    BY <2>1, <2>2, <2>3 DEF K
<1>25. Fits(E, K, A \cup {hole}, k, top, free, pgs)
  BY <1>15, <1>17, <1>21, <1>22, <1>23, <1>24 DEF Fits
<1>26. TakenAs(E, K, D, H, A, l, k, hole, required, free)
  <2>1. \A a \in (A \cup H) \ {hole} : Size(k, a) = Size(l, a)
    BY <1>19
  <2>2. H \ {hole} \subseteq K /\ K \subseteq (H \ {hole}) \cup {nh}
    BY <1>14 DEF K
  <2>3. nh \in K \/ Size(k, NULL) = 0
    <3>1. nh # hole
      BY <1>3, <1>5
    <3>2. QED
      BY <1>8, <1>14, <1>19, <3>1 DEF K
  <2>4. hole + Size(k, hole) = nh
    BY <1>18 DEF nh
  <2>5. Size(k, nh) = Size(l, hole) - n
    BY <1>18 DEF v
  <2>6. QED
    BY <1>4, <1>18, <1>19, <2>1, <2>2, <2>3, <2>4, <2>5 DEF TakenAs
<1>27. QED
  BY <1>25, <1>26 DEF k, r, i, rest, nh, v

\* What malloc does with the hole it has found.
LEMMA TakeFits ==
    ASSUME NEW D, NEW H, NEW A, NEW l, NEW top, NEW free, NEW pgs,
           Fits(D, H, A, l, top, free, pgs), top \in Nat,
           NEW hole \in H, NEW required, required \in Nat, required > 0,
           Size(l, hole) >= required
    PROVE  LET split == Split(l, hole, required)
               k == PutHeader(split.list, hole, split.size)
           IN  \E E, K : /\ Fits(E, K, A \cup {hole}, k, top, free, pgs)
                         /\ TakenAs(E, K, D, H, A, l, k, hole, required, free)
<1>1. CASE Size(l, hole) - required > HEADER
  <2> DEFINE n == IF required > HEADER THEN required ELSE HEADER
             rest == PutHeader(l, hole + n, Size(l, hole) - n)
             list1 == RemoveFromHolesList(InsertToHolesList(rest, hole + n), hole)
  <2>1. Split(l, hole, required) = [list |-> list1, size |-> n]
    BY <1>1 DEF Split
  <2>2. \E E, K : /\ Fits(E, K, A \cup {hole}, PutHeader(list1, hole, n), top, free, pgs)
                  /\ TakenAs(E, K, D, H, A, l, PutHeader(list1, hole, n), hole, required, free)
    BY <1>1, TakePart
  <2> HIDE DEF list1, n
  <2>3. QED
    BY <2>1, <2>2
<1>2. CASE ~ (Size(l, hole) - required > HEADER)
  <2> DEFINE list1 == RemoveFromHolesList(l, hole)
  <2>1. Split(l, hole, required) = [list |-> list1, size |-> Size(l, hole)]
    BY <1>2 DEF Split
  <2>2. \E E, K : /\ Fits(E, K, A \cup {hole}, PutHeader(list1, hole, Size(l, hole)),
                          top, free, pgs)
                  /\ TakenAs(E, K, D, H, A, l, PutHeader(list1, hole, Size(l, hole)),
                             hole, required, free)
    BY <1>2, TakeWhole
  <2> HIDE DEF list1
  <2>3. QED
    BY <2>1, <2>2
<1>3. QED
  BY <1>1, <1>2

\* The bytes of consecutive pages are bytes of one of them.
LEMMA PagesCover ==
    ASSUME NEW first \in Nat, NEW done \in Nat, NEW b \in Nat,
           first <= b, b < first + done * PAGE_SIZE
    PROVE  \E j \in 0 .. done - 1 :
              first + j * PAGE_SIZE <= b /\ b < first + j * PAGE_SIZE + PAGE_SIZE
<1> DEFINE T == {j \in Nat : b < first + j * PAGE_SIZE}
<1>1. PAGE_SIZE \in Nat /\ PAGE_SIZE > 0
  BY HeapAssumption
<1>2. PICK m \in T : \A j \in T : m <= j
  <2>1. T # {} /\ T \in SUBSET Nat
    OBVIOUS
  <2> HIDE DEF T
  <2>2. QED
    BY <2>1, Smallest
<1>3. m \in Nat /\ b < first + m * PAGE_SIZE /\ m <= done
  BY <1>2
<1>4. m # 0
  BY <1>1, <1>3
<1>5. m - 1 \in Nat /\ m - 1 \notin T
  BY <1>2, <1>3, <1>4
<1>6. first + (m - 1) * PAGE_SIZE <= b
  <2>1. (m - 1) * PAGE_SIZE \in Nat
    BY <1>1, <1>5
  <2>2. ~ (b < first + (m - 1) * PAGE_SIZE)
    BY <1>5
  <2>3. QED
    BY <2>1, <2>2
<1>7. (m - 1) * PAGE_SIZE + PAGE_SIZE = m * PAGE_SIZE
  BY <1>1, <1>3
<1>8. b < first + (m - 1) * PAGE_SIZE + PAGE_SIZE
  <2>1. (m - 1) * PAGE_SIZE \in Int /\ m * PAGE_SIZE \in Int
    BY <1>1, <1>3
  <2>2. QED
    BY <1>1, <1>3, <1>7, <2>1
<1>9. m - 1 \in 0 .. done - 1
  BY <1>3, <1>5
<1>10. QED
  BY <1>6, <1>8, <1>9

\* The pages mapped for the heap after an extension that got done frames.
Grown(pgs, first, done) == pgs \cup {first + k * PAGE_SIZE : k \in 0 .. done - 1}

\* An extension that got frames puts one hole behind everything else.
LEMMA ExtendFits ==
    ASSUME NEW D, NEW H, NEW A, NEW l, NEW top, NEW free, NEW pgs,
           Fits(D, H, A, l, top, free, pgs), top \in Nat, top >= HEAP_START,
           NEW done, done \in Nat, done > 0, free \in Nat, done <= free,
           NEW above, above \in Nat, top + done * PAGE_SIZE <= above
    PROVE  LET k == InsertToHolesList(PutHeader(l, top, done * PAGE_SIZE), top)
           IN  \E E, K : /\ Fits(E, K, A, k, above, free - done, Grown(pgs, top, done))
                         /\ top \in K /\ \A a \in H : a \in K
                         /\ \A a \in K : a \in H \/ a = top
                         /\ \A a \in A : Size(k, a) = Size(l, a)
                         /\ \A a \in H : Size(k, a) = Size(l, a)
                         /\ Size(k, top) = done * PAGE_SIZE
                         /\ Size(k, NULL) = Size(l, NULL)
<1> DEFINE S == A \cup H
           w == done * PAGE_SIZE
           E == D \cup {top}
           K == H \cup {top}
           rest == PutHeader(l, top, w)
           k == InsertToHolesList(rest, top)
           more == Grown(pgs, top, done)
<1>1. /\ D \in SUBSET Nat /\ NULL \in D /\ NULL = 0 /\ NULL \notin S
      /\ \A a \in S : a \in Nat /\ a > 0 /\ a \in D /\ Size(l, a) \in Nat /\ Size(l, a) > 0
      /\ \A a \in A : a \notin H
  BY FitsFacts
<1>2. Nodes(D, H) /\ l \in ListOn(D) /\ Linked(l, H) /\ A \subseteq D
  BY DEF Fits
<1>3. PAGE_SIZE \in Nat /\ PAGE_SIZE > 0 /\ HEAP_START \in Nat /\ HEAP_START > 0
  BY HeapAssumption
<1>4. w \in Nat /\ w > 0
  BY <1>3
<1>5. \A a \in S : a + Size(l, a) <= top /\ a < top
  <2>1. \A a \in S : a + Size(l, a) <= top
    BY DEF Fits, Laid
  <2>2. QED
    BY <1>1, <2>1
<1>6. Sound(l, H) /\ Size(l, NULL) = LOW_WORD
  BY DEF Fits, TailKept
<1>7. top \notin S /\ top \notin H /\ top \in E
  BY <1>1, <1>5
<1>8. top > 0 /\ top >= HEAP_START
  BY <1>3
<1>9. QED
  <2> HIDE DEF w, E
  <2>1. /\ Nodes(E, H) /\ rest \in ListOn(E) /\ Linked(rest, H) /\ rest.tail = l.tail
        /\ Size(rest, top) = w
        /\ \A b \in D : b # top => Size(rest, b) = Size(l, b)
    BY <1>2, <1>4, <1>7, PutHeaderKeeps DEF E
  <2> HIDE DEF rest
  <2>2. Sound(rest, H)
    BY <1>6, <2>1 DEF Sound
  <2>3. /\ k \in ListOn(E) /\ Linked(k, K) /\ Sound(k, K)
        /\ \A a \in E : Size(k, a) = Size(rest, a)
    <3> DEFINE x == top
    <3>1. x # NULL /\ x \in E /\ x \notin H
      BY <1>1, <1>7, <1>8
    <3> HIDE DEF x
    <3>2. LET m == InsertToHolesList(rest, x)
          IN  /\ m \in ListOn(E)
              /\ \A a \in E : Size(m, a) = Size(rest, a)
              /\ Sound(rest, H) => Linked(m, H \cup {x}) /\ Sound(m, H \cup {x})
      BY <2>1, <2>2, <3>1, InsertFacts
    <3>3. QED
      BY <2>2, <3>2 DEF x
  <2> HIDE DEF k
  <2>4. /\ Size(k, top) = w /\ Size(k, NULL) = Size(l, NULL)
        /\ \A a \in S : Size(k, a) = Size(l, a)
    BY <1>1, <1>7, <1>8, <2>1, <2>3 DEF E
  <2>5. Nodes(E, K)
    BY <1>1, <1>7, <1>8, <2>1 DEF Nodes
  <2>6. Laid(k, A \cup K, above)
    <3>1. A \cup K = S \cup {top}
      OBVIOUS
    <3>2. top + w <= above
      BY DEF w
    <3>3. /\ \A a \in S : a >= HEAP_START /\ Size(l, a) > 0 /\ a + Size(l, a) <= top
          /\ \A a, b \in S : a < b => a + Size(l, a) <= b
      BY DEF Fits, Laid
    <3> HIDE DEF S, K
    <3>4. \A a \in S : a + Size(l, a) <= above
      BY <1>1, <1>4, <1>5, <3>2
    <3>5. \A a \in S \cup {top} : a >= HEAP_START /\ Size(k, a) > 0 /\ a + Size(k, a) <= above
      BY <1>4, <1>8, <2>4, <3>2, <3>3, <3>4
    <3>6. \A a, b \in S \cup {top} : a < b => a + Size(k, a) <= b
      BY <1>1, <1>5, <2>4, <3>3
    <3>7. QED
      BY <3>1, <3>5, <3>6 DEF Laid
  <2>7. Backed(k, A \cup K, more)
    <3>1. SUFFICES ASSUME NEW a \in S \cup {top}, NEW b \in Nat,
                          a <= b, b < a + Size(k, a)
                   PROVE  \E p \in more : p <= b /\ b < p + PAGE_SIZE
      BY DEF Backed
    <3>2. CASE a = top
      <4>1. top <= b /\ b < top + done * PAGE_SIZE
        BY <2>4, <3>1, <3>2 DEF w
      <4>2. PICK j \in 0 .. done - 1 :
                top + j * PAGE_SIZE <= b /\ b < top + j * PAGE_SIZE + PAGE_SIZE
        BY <4>1, PagesCover
      <4>3. top + j * PAGE_SIZE \in more
        BY DEF Grown
      <4>4. QED
        BY <4>2, <4>3
    <3>3. CASE a # top
      <4>1. a \in S /\ Size(k, a) = Size(l, a)
        BY <2>4, <3>3
      <4>2. Backed(l, S, pgs)
        BY DEF Fits
      <4>3. \E p \in pgs : p <= b /\ b < p + PAGE_SIZE
        BY <3>1, <4>1, <4>2 DEF Backed
      <4>4. QED
        BY <4>3 DEF Grown
    <3>4. QED
      BY <3>2, <3>3
  <2>8. TailKept(E, K, A \cup K, k, free - done)
    BY <1>6, <2>3, <2>4 DEF TailKept
  <2>9. A \subseteq E /\ A \cap K = {}
    BY <1>1, <1>2, <1>7 DEF E
  <2>10. Fits(E, K, A, k, above, free - done, more)
    BY <2>3, <2>5, <2>6, <2>7, <2>8, <2>9 DEF Fits
  <2>11. top \in K /\ (\A a \in H : a \in K) /\ \A a \in K : a \in H \/ a = top
    OBVIOUS
  <2> HIDE DEF K
  <2>12. QED
    BY <1>5, <2>4, <2>10, <2>11 DEF k, rest, w

\* An extension without frames puts a hole at NULL in front of the list, which
\* makes it look empty.
LEMMA ExtendNothing ==
    ASSUME NEW D, NEW H, NEW A, NEW l, NEW top, NEW pgs,
           Fits(D, H, A, l, top, 0, pgs), top \in Nat,
           NEW above, above \in Nat, top <= above
    PROVE  LET k == InsertToHolesList(SetSize(l, NULL, 0), NULL)
           IN  /\ Fits(D, {}, A, k, above, 0, pgs)
               /\ \A a \in A : Size(k, a) = Size(l, a)
               /\ Size(k, NULL) = 0
<1> DEFINE S == A \cup H
           q == SetSize(l, NULL, 0)
           k == InsertToHolesList(q, NULL)
           node == FirstNode(q, LAMBDA n : NULL < n)
           q1 == [q EXCEPT !.head = NULL, !.tail = NULL]
           q2 == [q EXCEPT !.head = NULL]
<1>1. /\ D \in SUBSET Nat /\ NULL \in D /\ NULL = 0 /\ NULL \notin S
      /\ \A a \in S : a \in Nat /\ a > 0 /\ a \in D /\ Size(l, a) \in Nat /\ Size(l, a) > 0
      /\ \A a \in A : a \notin H
  BY FitsFacts
<1>2. Nodes(D, H) /\ l \in ListOn(D) /\ Linked(l, H) /\ A \subseteq D
  BY DEF Fits
<1>3. /\ q \in ListOn(D) /\ Linked(q, H) /\ q.tail = l.tail
      /\ \A b \in D : Size(q, b) = IF b = NULL THEN 0 ELSE Size(l, b)
  BY <1>1, <1>2, SetSizeKeeps
<1> HIDE DEF q
<1>4. /\ q1 \in ListOn(D) /\ q1.head = NULL /\ q1.tail = NULL /\ q1.mem = q.mem
      /\ q2 \in ListOn(D) /\ q2.head = NULL /\ q2.tail = q.tail /\ q2.mem = q.mem
  BY <1>1, <1>3 DEF ListOn
<1>5. node = q.head
  <2>1. IsNext(H, NULL, node)
    BY <1>1, <1>2, <1>3, FirstAbove
  <2>2. IsNext(H, NULL, q.head)
    BY <1>3 DEF Linked
  <2> HIDE DEF node
  <2>3. \A h \in H : h \in Nat /\ h > 0
    BY <1>1
  <2>4. CASE H = {}
    BY <2>1, <2>2, <2>4 DEF IsNext
  <2>5. CASE H # {}
    <3>1. node # NULL /\ q.head # NULL
      BY <1>1, <2>1, <2>2, <2>3, <2>5 DEF IsNext
    <3>2. node \in H /\ q.head \in H /\ q.head <= node /\ node <= q.head
      BY <1>1, <2>1, <2>2, <2>3, <3>1 DEF IsNext
    <3>3. QED
      BY <2>3, <3>2
  <2>6. QED
    BY <2>4, <2>5
<1>6. node \in D
  BY <1>1, <1>3, <1>5 DEF Linked, IsNext
<1>7. k = IF q.tail = NULL THEN q1 ELSE SetPrev(q2, node, NULL)
  BY <1>5 DEF InsertToHolesList, SetNext, SetPrev
<1> HIDE DEF node, k, q1, q2
<1>8. /\ k \in ListOn(D) /\ k.head = NULL /\ k.tail = l.tail
      /\ \A a \in D : Size(k, a) = IF a = NULL THEN 0 ELSE Size(l, a)
  <2>1. CASE q.tail = NULL
    BY <1>3, <1>4, <1>7, <2>1 DEF Size
  <2>2. CASE q.tail # NULL
    <3>1. NULL \in Int
      BY <1>1
    <3>2. LET m == SetPrev(q2, node, NULL)
          IN  /\ m \in ListOn(D) /\ m.head = q2.head /\ m.tail = q2.tail
              /\ \A b \in D : Size(m, b) = Size(q2, b)
      BY <1>4, <1>6, <3>1, SetPrevFacts
    <3>3. \A b \in D : Size(q2, b) = Size(q, b)
      BY <1>4 DEF Size
    <3>4. QED
      BY <1>3, <1>4, <1>7, <2>2, <3>2, <3>3
  <2>3. QED
    BY <2>1, <2>2
<1>9. \A a \in A : Size(k, a) = Size(l, a)
  BY <1>1, <1>8
<1>10. Linked(k, {})
  BY <1>8 DEF Linked, IsNext
<1>11. Nodes(D, {})
  BY <1>2 DEF Nodes
<1>12. Laid(k, A \cup {}, above)
  <2>1. /\ \A a \in A : a >= HEAP_START /\ Size(l, a) > 0 /\ a + Size(l, a) <= top
        /\ \A a, b \in A : a < b => a + Size(l, a) <= b
    BY DEF Fits, Laid
  <2>2. \A a \in A : a + Size(l, a) <= above
    BY <1>1, <2>1
  <2>3. QED
    BY <1>9, <2>1, <2>2 DEF Laid
<1>13. Backed(k, A \cup {}, pgs)
  <2>1. Backed(l, S, pgs)
    BY DEF Fits
  <2>2. QED
    BY <1>9, <2>1 DEF Backed
<1>14. TailKept(D, {}, A \cup {}, k, 0)
  <2>1. Size(k, NULL) = 0
    BY <1>1, <1>8
  <2>2. CASE l.tail = NULL
    BY <1>8, <2>1, <2>2 DEF TailKept, Sound
  <2>3. CASE l.tail # NULL /\ l.tail \in H
    <3>1. l.tail \in D /\ l.tail \in S /\ Hidden(k, {})
      BY <1>1, <1>8, <2>3 DEF Hidden
    <3>2. \A a, b \in S : a < b => a + Size(l, a) <= b
      BY DEF Fits, Laid
    <3>3. \A a \in A : l.tail < a \/ a < l.tail
      <4>1. \A a \in A : a # l.tail /\ a \in Nat
        BY <1>1, <2>3
      <4>2. l.tail \in Nat
        BY <1>1, <3>1
      <4>3. QED
        BY <4>1, <4>2
    <3>4. \A a \in A : l.tail < a \/ a + Size(k, a) <= l.tail
      BY <1>9, <3>1, <3>2, <3>3
    <3>5. QED
      BY <1>8, <2>1, <3>1, <3>4 DEF TailKept
  <2>4. CASE l.tail # NULL /\ l.tail \notin H
    <3>1. /\ l.tail \in D
          /\ \A a \in S : l.tail < a \/ a + Size(l, a) <= l.tail
      BY <2>4 DEF Fits, TailKept, Sound
    <3>2. Hidden(k, {})
      BY <1>8, <2>4 DEF Hidden
    <3>3. QED
      BY <1>8, <1>9, <2>1, <3>1, <3>2 DEF TailKept
  <2>5. QED
    BY <2>2, <2>3, <2>4
<1>15. A \cap {} = {}
  OBVIOUS
<1>16. Fits(D, {}, A, k, above, 0, pgs)
  BY <1>2, <1>8, <1>10, <1>11, <1>12, <1>13, <1>14, <1>15 DEF Fits
<1>17. QED
  BY <1>1, <1>8, <1>9, <1>16 DEF k, q

\* The headers of the nodes that were merged are in no list: forgetting them
\* changes nothing.
LEMMA ForgetKeeps ==
    ASSUME NEW D, NEW H, Nodes(D, H), NEW l \in ListOn(D), Linked(l, H),
           NEW gone, gone \subseteq D, NULL \notin gone, H \cap gone = {}
    PROVE  LET k == Forget(l, gone)
           IN  /\ Nodes(D \ gone, H)
               /\ k \in ListOn(D \ gone) /\ Linked(k, H) /\ k.tail = l.tail
               /\ \A a \in D \ gone : Size(k, a) = Size(l, a)
<1> DEFINE k == Forget(l, gone)
           E == D \ gone
<1>1. k = [l EXCEPT !.mem = [a \in E |-> l.mem[a]]]
  BY DEF Forget, ListOn
<1>2. [a \in E |-> l.mem[a]] \in [E -> Cell]
  BY DEF ListOn
<1> HIDE DEF k
<1>3. /\ k \in ListOn(E) /\ k.head = l.head /\ k.tail = l.tail
      /\ k.mem = [a \in E |-> l.mem[a]]
  BY <1>1, <1>2 DEF ListOn
<1>4. \A a \in E : /\ Size(k, a) = Size(l, a) /\ NextOf(k, a) = NextOf(l, a)
                   /\ PrevOf(k, a) = PrevOf(l, a)
  BY <1>3 DEF Size, NextOf, PrevOf
<1>5. Nodes(E, H) /\ \A h \in H : h \in E
  <2>1. IsFiniteSet(E) /\ E \in SUBSET Nat
    BY FS_Subset DEF Nodes
  <2>2. QED
    BY <2>1 DEF Nodes
<1>6. Linked(k, H)
  BY <1>3, <1>4, <1>5 DEF Linked
<1>7. QED
  BY <1>3, <1>4, <1>5, <1>6 DEF k

\* The chunk at c has become a hole that is joined to the hole p before it, and to
\* whose own header the size of the hole n behind it is added.
JoinedAs(K, H, A, l, k, c, p, n) ==
    /\ p # NULL => p \in H /\ p + Size(l, p) = c
    /\ n # NULL => n \in H /\ c + Size(l, c) = n
    /\ K = {h \in H \cup {c} : ~ (h = c /\ p # NULL) /\ h # n}
    /\ \A a \in (A \ {c}) \cup K :
          Size(k, a) = IF p # NULL /\ a = p THEN Size(l, p) + Size(l, c)
                       ELSE IF n # NULL /\ a = c THEN Size(l, c) + Size(l, n)
                       ELSE Size(l, a)

Beside(A, H) == A \cup H

\* What is left then lies side by side.
LEMMA Joined ==
    ASSUME NEW D, NEW H, NEW A, NEW l, NEW top, NEW free, NEW pgs,
           Fits(D, H, A, l, top, free, pgs), top \in Nat, NEW c, c \in A,
           NEW p, NEW n, NEW K, NEW k, JoinedAs(K, H, A, l, k, c, p, n),
           NEW B, B = A \ {c}, NEW U, U = Beside(A, H), NEW V, V = Beside(B, K)
    PROVE  /\ \A a \in V : Size(k, a) \in Nat /\ Size(k, a) >= Size(l, a)
           /\ Laid(k, V, top) /\ Backed(k, V, pgs)
           /\ \A t \in Nat : (\A a \in U : t < a \/ a + Size(l, a) <= t)
                               => \A a \in V : t < a \/ a + Size(k, a) <= t
<1> DEFINE S == A \cup H
           T == (A \ {c}) \cup K
<1>1. U = S /\ V = T
  BY DEF Beside
<1> DEFINE joins == p # NULL
           grows == n # NULL
<1> c \in A /\ top \in Nat
  OBVIOUS
<1> /\ joins => p \in H /\ p + Size(l, p) = c
    /\ grows => n \in H /\ c + Size(l, c) = n
    /\ K = {h \in H \cup {c} : ~ (h = c /\ joins) /\ h # n}
    /\ \A a \in (A \ {c}) \cup K :
          Size(k, a) = IF joins /\ a = p THEN Size(l, p) + Size(l, c)
                       ELSE IF grows /\ a = c THEN Size(l, c) + Size(l, n)
                       ELSE Size(l, a)
  BY DEF JoinedAs
<1>2. /\ \A a \in S : a \in Nat /\ a > 0 /\ a \in D /\ Size(l, a) \in Nat /\ Size(l, a) > 0
      /\ \A a \in A : a \notin H
  BY FitsFacts
<1>3. /\ \A a \in S : a >= HEAP_START /\ Size(l, a) > 0 /\ a + Size(l, a) <= top
      /\ \A a, b \in S : a < b => a + Size(l, a) <= b
  BY DEF Fits, Laid
<1>4. c \in S /\ (\A a \in T : a \in S) /\ (joins => p \in S) /\ (grows => n \in S)
      /\ (joins => p \in T /\ c \notin T /\ p < c /\ p \in H)
      /\ (grows => n \notin T /\ c < n)
  <2>1. joins => p < c
    BY <1>2
  <2>2. grows => c < n
    BY <1>2
  <2>3. QED
    BY <1>2, <2>1, <2>2
<1> HIDE DEF S, T
<1>5. \A a \in T : Size(k, a) = IF joins /\ a = p THEN Size(l, p) + Size(l, c)
                                ELSE IF grows /\ a = c THEN Size(l, c) + Size(l, n)
                                ELSE Size(l, a)
  BY DEF T
<1>6. \A a \in T : Size(k, a) \in Nat /\ Size(k, a) >= Size(l, a)
  BY <1>2, <1>4, <1>5
<1>7. ASSUME NEW a \in T
      PROVE  \/ Size(k, a) = Size(l, a)
             \/ joins /\ a = p /\ a + Size(k, a) = c + Size(l, c)
             \/ grows /\ a = c /\ a + Size(k, a) = n + Size(l, n)
  BY <1>2, <1>4, <1>5
<1>8. Laid(k, T, top)
  <2>1. ASSUME NEW a \in T PROVE a >= HEAP_START /\ Size(k, a) > 0 /\ a + Size(k, a) <= top
    <3>1. a \in S /\ Size(k, a) >= Size(l, a) /\ Size(k, a) \in Nat
      BY <1>4, <1>6
    <3>2. a + Size(k, a) <= top
      BY <1>2, <1>3, <1>4, <1>7, <3>1
    <3>3. QED
      BY <1>2, <1>3, <3>1, <3>2, HeapAssumption
  <2>2. ASSUME NEW a \in T, NEW b \in T, a < b PROVE a + Size(k, a) <= b
    <3>1. a \in S /\ b \in S /\ a + Size(l, a) <= b /\ a \in Nat /\ b \in Nat
      BY <1>2, <1>3, <1>4, <2>2
    <3>2. CASE joins /\ a = p /\ a + Size(k, a) = c + Size(l, c)
      <4>1. c <= b /\ c # b
        BY <1>4, <3>1, <3>2
      <4>2. c < b
        BY <1>2, <1>4, <3>1, <4>1
      <4>3. QED
        BY <1>3, <1>4, <3>1, <3>2, <4>2
    <3>3. CASE grows /\ a = c /\ a + Size(k, a) = n + Size(l, n)
      <4>1. n <= b /\ n # b
        BY <1>4, <3>1, <3>3
      <4>2. n < b
        BY <1>2, <1>4, <3>1, <3>3, <4>1
      <4>3. QED
        BY <1>3, <1>4, <3>1, <3>3, <4>2
    <3>4. QED
      BY <1>7, <3>1, <3>2, <3>3
  <2>3. QED
    BY <2>1, <2>2 DEF Laid
<1>9. Backed(k, T, pgs)
  <2>1. SUFFICES ASSUME NEW a \in T, NEW b \in Nat, a <= b, b < a + Size(k, a)
                 PROVE  \E q \in pgs : q <= b /\ b < q + PAGE_SIZE
    BY DEF Backed
  <2>2. \E e \in S : e <= b /\ b < e + Size(l, e)
    <3>1. a \in S /\ a \in Nat
      BY <1>2, <1>4
    <3>2. CASE joins /\ a = p /\ a + Size(k, a) = c + Size(l, c)
      <4>1. b < p + Size(l, p) \/ c <= b
        BY <1>2, <1>4, <3>2
      <4>2. QED
        BY <1>4, <2>1, <3>1, <3>2, <4>1
    <3>3. CASE grows /\ a = c /\ a + Size(k, a) = n + Size(l, n)
      <4>1. b < c + Size(l, c) \/ n <= b
        BY <1>2, <1>4, <3>3
      <4>2. QED
        BY <1>4, <2>1, <3>1, <3>3, <4>1
    <3>4. QED
      BY <1>7, <2>1, <3>1, <3>2, <3>3
  <2>3. Backed(l, S, pgs)
    BY DEF Fits, S
  <2>4. QED
    BY <2>2, <2>3 DEF Backed
<1>10. ASSUME NEW t \in Nat, \A a \in S : t < a \/ a + Size(l, a) <= t, NEW a \in T
      PROVE  t < a \/ a + Size(k, a) <= t
  <2>1. a \in S /\ a \in Nat /\ (t < a \/ a + Size(l, a) <= t)
    BY <1>2, <1>4, <1>10
  <2>2. CASE joins /\ a = p /\ a + Size(k, a) = c + Size(l, c)
    <3>1. t < c \/ c + Size(l, c) <= t
      BY <1>4, <1>10
    <3>2. QED
      BY <1>2, <1>4, <2>1, <2>2, <3>1
  <2>3. CASE grows /\ a = c /\ a + Size(k, a) = n + Size(l, n)
    <3>1. t < n \/ n + Size(l, n) <= t
      BY <1>4, <1>10, <2>3
    <3>2. QED
      BY <1>2, <1>4, <2>1, <2>3, <3>1
  <2>4. QED
    BY <1>7, <2>1, <2>2, <2>3
<1>11. QED
  <2> HIDE DEF S, T
  <2>1. QED
    BY <1>6, <1>8, <1>9, <1>10, <1>1

\* A chunk is freed: its bytes and those of the holes are in the holes after it,
\* but for a hole behind it when there is one before it as well, or where the
\* tail was left behind.
FreedAs(K, H, A, l, k, c) ==
    /\ K \subseteq H \cup {c}
    /\ \A a \in (A \ {c}) \cup K : Size(k, a) \in Nat /\ Size(k, a) >= Size(l, a)
    /\ \A a \in A \ {c} : Size(k, a) = Size(l, a)
    /\ Size(k, NULL) = Size(l, NULL)
    /\ \/ Size(l, NULL) = 0
       \/ \A a \in H \cup {c} :
             \E h \in K : h <= a /\ a + Size(l, a) <= h + Size(k, h)
       \/ \E p, n \in H :
             /\ p + Size(l, p) = c /\ c + Size(l, c) = n /\ K = H \ {n}
             /\ Size(k, p) = Size(l, p) + Size(l, c)
             /\ \A h \in K \ {p} : Size(k, h) = Size(l, h)

\* What free does when its chunk goes into the list that head leads to.
LEMMA FreeLinked ==
    ASSUME NEW D, NEW H, NEW A, NEW l, NEW top, NEW free, NEW pgs,
           Fits(D, H, A, l, top, free, pgs), top \in Nat, NEW c \in A, Size(l, NULL) # c,
           NEW i \in ListOn(D), Linked(i, H \cup {c}),
           \A a \in D : Size(i, a) = Size(l, a),
           Sound(i, H \cup {c}) \/ (~ Sound(l, H) /\ i.tail = l.tail)
    PROVE  LET m == Merge(i, c)
               k == Forget(m, (Holes(i) \ Holes(m)) \ {m.tail})
           IN  \E E, K : /\ Fits(E, K, A \ {c}, k, top, free, pgs)
                         /\ FreedAs(K, H, A, l, k, c)
<1> DEFINE S == A \cup H
           J == H \cup {c}
           m == Merge(i, c)
           k == Forget(m, (Holes(i) \ Holes(m)) \ {m.tail})
           p == PrevOf(i, c)
           n == NextOf(i, c)
           joins == p # NULL /\ p + Size(i, p) = c
           grows == n # NULL /\ c + Size(i, c) = n
           gone == {h \in J : (h = c /\ joins) \/ (h = n /\ grows)}
           K == J \ gone
           E == D \ gone
           T == (A \ {c}) \cup K
<1>1. /\ D \in SUBSET Nat /\ NULL \in D /\ NULL = 0 /\ NULL \notin A \cup H
      /\ \A a \in S : a \in Nat /\ a > 0 /\ a \in D /\ Size(l, a) \in Nat /\ Size(l, a) > 0
      /\ \A a \in A : a \notin H
      /\ Sound(l, H) \/ (Hidden(l, H) /\ l.tail \in D /\ l.tail \notin A \cup H)
  BY FitsFacts
<1>2. Nodes(D, J)
  BY <1>1 DEF Fits, Nodes
<1>3. IsPrev(J, c, p) /\ IsNext(J, c, n)
  BY DEF Linked
<1>4. /\ c \in S /\ c \in J /\ c \in D
      /\ (p # NULL => p \in H /\ p \in S /\ p \in D)
      /\ (n # NULL => n \in H /\ n \in S /\ n \in D)
  <2>1. p # NULL => p \in J /\ p < c
    BY <1>3 DEF IsPrev
  <2>2. n # NULL => n \in J /\ c < n
    BY <1>3 DEF IsNext
  <2>3. c \in Nat /\ c \in S /\ c \in J /\ c \in D /\ \A a \in H : a \in S /\ a \in D
    BY <1>1
  <2> HIDE DEF p, n, S
  <2>4. QED
    BY <2>1, <2>2, <2>3
<1>5. Sound(i, J) \/ (Hidden(i, J) /\ i.tail = l.tail)
  BY <1>1 DEF Hidden
<1>6. Size(i, NULL) # c /\ Size(i, NULL) = Size(l, NULL)
  BY <1>1
<1>7. /\ m \in ListOn(D) /\ Linked(m, K)
      /\ \A a \in D : Size(m, a) = IF a = p /\ joins THEN Size(i, p) + Size(i, c)
                                   ELSE IF a = c /\ grows THEN Size(i, c) + Size(i, n)
                                   ELSE Size(i, a)
      /\ Sound(i, J) => Sound(m, K)
      /\ ~ Sound(i, J) => Sound(m, K) \/ m.tail = i.tail
  BY <1>2, <1>5, <1>6, MergeFacts
<1>8. Nodes(D, K)
  BY <1>2 DEF Nodes
<1>9. Holes(i) = J /\ Holes(m) = K
  BY <1>2, <1>7, <1>8, HolesAreNodes
<1>10. m.tail \notin gone
  <2>1. CASE Sound(m, K)
    <3>1. m.tail = NULL \/ m.tail \in K
      BY <2>1 DEF Sound
    <3>2. QED
      BY <1>1, <3>1
  <2>2. CASE m.tail = l.tail /\ Hidden(i, J) /\ i.tail = l.tail
    BY <2>2 DEF Hidden
  <2>3. QED
    BY <1>5, <1>7, <2>1, <2>2
<1>11. k = Forget(m, gone)
  <2>1. (J \ K) \ {m.tail} = gone
    BY <1>10
  <2> HIDE DEF m, K, J, gone
  <2>2. QED
    BY <1>9, <2>1
<1>12. /\ Nodes(E, K) /\ k \in ListOn(E) /\ Linked(k, K) /\ k.tail = m.tail
       /\ \A a \in E : Size(k, a) = Size(m, a)
  <2>1. gone \subseteq D /\ NULL \notin gone /\ K \cap gone = {}
    BY <1>1
  <2> HIDE DEF m, K, k, gone
  <2>2. QED
    BY <1>7, <1>8, <1>11, <2>1, ForgetKeeps
<1>13. (\A a \in T : a \in E) /\ NULL \in E /\ (\A a \in D : a \notin J => a \in E)
  BY <1>1
<1>14. \A a \in D : Size(i, a) = Size(l, a)
  OBVIOUS
<1> HIDE DEF m, k
<1>15. \A a \in T : Size(k, a) = IF joins /\ a = p THEN Size(l, p) + Size(l, c)
                                 ELSE IF grows /\ a = c THEN Size(l, c) + Size(l, n)
                                 ELSE Size(l, a)
  <2>1. \A a \in T : Size(k, a) = Size(m, a) /\ a \in D
    BY <1>12, <1>13
  <2>2. joins => p \in D /\ c \in D
    BY <1>4
  <2>3. grows => n \in D /\ c \in D
    BY <1>4
  <2> HIDE DEF T, K, gone, E, J, p, n
  <2>4. QED
    BY <1>7, <1>14, <2>1, <2>2, <2>3
<1>16. (joins => p \in H /\ p + Size(l, p) = c) /\ (grows => n \in H /\ c + Size(l, c) = n)
  BY <1>4, <1>14
<1>17. K = {h \in H \cup {c} : ~ (h = c /\ joins) /\ ~ (h = n /\ grows)}
  OBVIOUS
<1> DEFINE q == IF joins THEN p ELSE NULL
           r == IF grows THEN n ELSE NULL
<1>18. /\ (q # NULL <=> joins) /\ (joins => q = p)
       /\ (r # NULL <=> grows) /\ (grows => r = n)
  OBVIOUS
<1>19. /\ \A a \in T : Size(k, a) \in Nat /\ Size(k, a) >= Size(l, a)
       /\ Laid(k, T, top) /\ Backed(k, T, pgs)
       /\ \A t \in Nat : (\A a \in S : t < a \/ a + Size(l, a) <= t)
                            => \A a \in T : t < a \/ a + Size(k, a) <= t
  <2>1. \A h \in H \cup {c} : h # NULL
    BY <1>1
  <2> HIDE DEF p, n, joins, grows, K, gone, q, r
  <2>2. K = {h \in H \cup {c} : ~ (h = c /\ q # NULL) /\ h # r}
    BY <1>17, <1>18, <2>1
  <2>3. \A a \in (A \ {c}) \cup K :
           Size(k, a) = IF q # NULL /\ a = q THEN Size(l, q) + Size(l, c)
                        ELSE IF r # NULL /\ a = c THEN Size(l, c) + Size(l, r)
                        ELSE Size(l, a)
    BY <1>15, <1>18
  <2>4. /\ q # NULL => q \in H /\ q + Size(l, q) = c
        /\ r # NULL => r \in H /\ c + Size(l, c) = r
    BY <1>16, <1>18
  <2>5. JoinedAs(K, H, A, l, k, c, q, r)
    BY <2>2, <2>3, <2>4 DEF JoinedAs
  <2> DEFINE x == top
             B == A \ {c}
  <2>6. /\ x \in Nat /\ Fits(D, H, A, l, x, free, pgs)
        /\ B = A \ {c} /\ S = Beside(A, H) /\ T = Beside(B, K)
    BY DEF Beside
  <2> HIDE DEF x, S, T, B, k, m
  <2>7. /\ \A a \in T : Size(k, a) \in Nat /\ Size(k, a) >= Size(l, a)
        /\ Laid(k, T, x) /\ Backed(k, T, pgs)
        /\ \A t \in Nat : (\A a \in S : t < a \/ a + Size(l, a) <= t)
                             => \A a \in T : t < a \/ a + Size(k, a) <= t
    BY <2>5, <2>6, Joined
  <2>8. QED
    BY <2>7 DEF x
<1>20. Size(k, NULL) = Size(l, NULL)
  <2>1. Size(k, NULL) = Size(m, NULL) /\ NULL \in D
    BY <1>1, <1>12, <1>13
  <2>2. NULL # c /\ NULL \in D /\ ~ (NULL = p /\ joins)
    BY <1>1
  <2> HIDE DEF joins, grows, p, n
  <2>3. Size(m, NULL) = Size(i, NULL)
    BY <1>7, <2>2
  <2>4. QED
    BY <1>6, <2>1, <2>3
<1>21. TailKept(E, K, T, k, free)
  <2>1. CASE Sound(m, K)
    <3>1. Sound(k, K)
      BY <1>12, <2>1 DEF Sound
    <3>2. Size(l, NULL) = LOW_WORD \/ (Size(l, NULL) = 0 /\ free = 0)
      BY DEF Fits, TailKept
    <3>3. QED
      BY <1>20, <3>1, <3>2 DEF TailKept
  <2>2. CASE m.tail = l.tail /\ ~ Sound(l, H)
    <3>1. /\ Size(l, NULL) = 0 /\ free = 0 /\ Hidden(l, H) /\ l.tail \in D
          /\ \A a \in S : l.tail < a \/ a + Size(l, a) <= l.tail
      BY <2>2 DEF Fits, TailKept
    <3>2. l.tail \in Nat /\ l.tail # NULL /\ l.tail \notin J
      BY <1>1, <2>2, <3>1 DEF Hidden
    <3>3. l.tail \in E /\ l.tail \notin K
      BY <1>13, <3>1, <3>2
    <3>4. Hidden(k, K)
      BY <1>12, <2>2, <3>2, <3>3 DEF Hidden
    <3>5. \A a \in T : l.tail < a \/ a + Size(k, a) <= l.tail
      BY <1>19, <3>1, <3>2
    <3>6. QED
      BY <1>12, <1>20, <2>2, <3>1, <3>3, <3>4, <3>5 DEF TailKept
  <2>3. QED
    BY <1>5, <1>7, <2>1, <2>2
<1>22. Fits(E, K, A \ {c}, k, top, free, pgs)
  <2>1. (A \ {c}) \subseteq E /\ (A \ {c}) \cap K = {}
    BY <1>1, <1>13
  <2>2. QED
    BY <1>12, <1>19, <1>21, <2>1 DEF Fits
<1>23. FreedAs(K, H, A, l, k, c)
  <2>1. \A a \in A \ {c} : Size(k, a) = Size(l, a)
    BY <1>1, <1>15, <1>16
  <2>2. CASE joins /\ grows
    <3>1. p \in H /\ n \in H /\ p + Size(l, p) = c /\ c + Size(l, c) = n
      BY <1>16, <2>2
    <3>2. n # c /\ p # n /\ p # c
      <4>1. p \in Nat /\ c \in Nat /\ n \in Nat /\ Size(l, p) > 0 /\ Size(l, c) > 0
            /\ Size(l, p) \in Nat /\ Size(l, c) \in Nat
        BY <1>1, <3>1
      <4> HIDE DEF p, n
      <4>2. QED
        BY <3>1, <4>1
    <3>3. K = H \ {n}
      <4>1. c \notin H
        BY <1>1
      <4> HIDE DEF joins, grows, p, n
      <4>2. QED
        BY <1>17, <2>2, <3>2, <4>1
    <3>4. p \in T /\ p \in K /\ \A h \in K : h # c
      BY <1>1, <3>1, <3>2, <3>3
    <3>5. Size(k, p) = Size(l, p) + Size(l, c)
      BY <1>15, <2>2, <3>4
    <3>6. \A h \in K \ {p} : Size(k, h) = Size(l, h)
      BY <1>15, <3>4
    <3> HIDE DEF joins, grows, p, n, K, T
    <3>7. QED
      BY <1>19, <1>20, <2>1, <3>1, <3>3, <3>5, <3>6 DEF FreedAs, K, T
  <2>3. CASE ~ (joins /\ grows)
    <3>1. ASSUME NEW a \in J
          PROVE  \E h \in K : h <= a /\ a + Size(l, a) <= h + Size(k, h)
      <4>1. a \in Nat /\ Size(l, a) \in Nat /\ a \in S
        BY <1>1
      <4>2. CASE a \in K
        <5>1. Size(k, a) >= Size(l, a) /\ Size(k, a) \in Nat
          BY <1>19, <4>2
        <5>2. a <= a /\ a + Size(l, a) <= a + Size(k, a)
          BY <4>1, <5>1
        <5>3. QED
          BY <4>2, <5>2
      <4>3. CASE a = c /\ joins
        <5>1. p \in H /\ p + Size(l, p) = c /\ p \in Nat /\ Size(l, p) > 0 /\ Size(l, p) \in Nat
          BY <1>1, <1>16, <4>3
        <5>2. p # c
          BY <1>1, <5>1
        <5>3. p \in K /\ p \in T
          BY <2>3, <4>3, <5>1, <5>2
        <5>4. Size(k, p) = Size(l, p) + Size(l, c)
          BY <1>15, <4>3, <5>3
        <5> HIDE DEF p, joins
        <5>5. p <= a /\ a + Size(l, a) <= p + Size(k, p)
          BY <4>1, <4>3, <5>1, <5>4
        <5>6. QED
          BY <5>3, <5>5
      <4>4. CASE a = n /\ grows
        <5>1. n \in H /\ c + Size(l, c) = n /\ c \in Nat /\ Size(l, c) \in Nat /\ Size(l, c) > 0
          BY <1>1, <1>16, <4>4
        <5>2. c # n
          BY <5>1
        <5>3. c \in K /\ c \in T
          BY <2>3, <4>4, <5>2
        <5>4. Size(k, c) = Size(l, c) + Size(l, n)
          BY <1>15, <2>3, <4>4, <5>3
        <5> HIDE DEF n, grows, joins, p
        <5>5. c <= a /\ a + Size(l, a) <= c + Size(k, c)
          BY <4>1, <4>4, <5>1, <5>4
        <5>6. QED
          BY <5>3, <5>5
      <4>5. QED
        BY <4>2, <4>3, <4>4
    <3>2. K \subseteq J
      OBVIOUS
    <3> HIDE DEF joins, grows, p, n, K, T
    <3>3. QED
      BY <1>19, <1>20, <2>1, <3>1, <3>2 DEF FreedAs, T
  <2>4. QED
    BY <2>2, <2>3
<1>24. QED
  <2> HIDE DEF K, E
  <2>1. QED
    BY <1>22, <1>23 DEF k, m

\* What free does with a chunk.
LEMMA FreeFits ==
    ASSUME NEW D, NEW H, NEW A, NEW l, NEW top, NEW free, NEW pgs,
           Fits(D, H, A, l, top, free, pgs), top \in Nat, NEW c \in A, Size(l, NULL) # c
    PROVE  LET k == FreeFrom(l, c)
           IN  \E E, K : /\ Fits(E, K, A \ {c}, k, top, free, pgs)
                         /\ FreedAs(K, H, A, l, k, c)
<1> DEFINE S == A \cup H
           J == H \cup {c}
           i == InsertToHolesList(l, c)
           m == Merge(i, c)
           k == Forget(m, (Holes(i) \ Holes(m)) \ {m.tail})
<1>1. /\ D \in SUBSET Nat /\ NULL \in D /\ NULL = 0 /\ NULL \notin A \cup H
      /\ \A a \in S : a \in Nat /\ a > 0 /\ a \in D /\ Size(l, a) \in Nat /\ Size(l, a) > 0
      /\ \A a \in A : a \notin H
      /\ Sound(l, H) \/ (Hidden(l, H) /\ l.tail \in D /\ l.tail \notin A \cup H)
  BY FitsFacts
<1>2. c \in S /\ c \in D /\ c # NULL /\ c \notin H /\ l.tail \in Nat
      /\ (Sound(l, H) \/ (Hidden(l, H) /\ l.tail \in D /\ l.tail # c))
      /\ Nodes(D, H) /\ l \in ListOn(D) /\ Linked(l, H)
  <2>1. c \in S /\ c \in D /\ c # NULL /\ c \notin H
    BY <1>1
  <2>2. Nodes(D, H) /\ l \in ListOn(D) /\ Linked(l, H)
    BY DEF Fits
  <2>3. QED
    BY <1>1, <2>1, <2>2, Typed
<1>3. k = FreeFrom(l, c)
  BY DEF FreeFrom
<1>4. /\ i \in ListOn(D)
      /\ \A a \in D : Size(i, a) = Size(l, a)
      /\ Sound(l, H) => Linked(i, J) /\ Sound(i, J)
      /\ ~ Sound(l, H) =>
            \/ Linked(i, J) /\ i.tail = l.tail
            \/ /\ Linked(i, H) /\ i.tail = c /\ H # {} /\ \A h \in H : h < c
               /\ NextOf(i, c) = NULL /\ PrevOf(i, c) = l.tail
  BY <1>2, InsertFacts
<1> HIDE DEF i
<1>5. CASE Linked(i, J) /\ (Sound(i, J) \/ (~ Sound(l, H) /\ i.tail = l.tail))
  <2>1. \E E, K : /\ Fits(E, K, A \ {c}, k, top, free, pgs)
                  /\ FreedAs(K, H, A, l, k, c)
    BY <1>4, <1>5, FreeLinked
  <2>2. QED
    BY <1>3, <2>1
<1>6. CASE /\ ~ Sound(l, H)
           /\ Linked(i, H) /\ i.tail = c /\ H # {}
           /\ NextOf(i, c) = NULL /\ PrevOf(i, c) = l.tail
  <2> DEFINE t == l.tail
  <2>1. t \in D /\ t \in Nat /\ t # c /\ t # NULL /\ t \notin H /\ t \notin S
        /\ Size(l, NULL) = 0 /\ free = 0
        /\ \A a \in S : t < a \/ a + Size(l, a) <= t
    <3>1. Size(l, NULL) = 0 /\ free = 0 /\ \A a \in S : t < a \/ a + Size(l, a) <= t
      BY <1>6 DEF Fits, TailKept
    <3>2. Hidden(l, H) /\ l.tail \in D /\ l.tail \notin S
      BY <1>1, <1>6
    <3>3. QED
      BY <1>2, <3>1, <3>2 DEF Hidden
  <2> HIDE DEF t
  <2>2. PrevOf(i, c) = t
    BY <1>6 DEF t
  <2>3. /\ m \in ListOn(D) /\ Linked(m, H) /\ m.tail \in {c, t}
        /\ \A a \in D \ {t} : Size(m, a) = Size(i, a)
    BY <1>2, <1>4, <1>6, <2>1, <2>2, MergeLost
  <2>4. Holes(i) = H /\ Holes(m) = H
    BY <1>2, <1>4, <1>6, <2>3, HolesAreNodes
  <2> HIDE DEF m
  <2>5. k = Forget(m, {})
    BY <2>4
  <2> HIDE DEF k
  <2>6. D \ {} = D
    OBVIOUS
  <2>7. /\ Nodes(D, H) /\ k \in ListOn(D) /\ Linked(k, H) /\ k.tail = m.tail
        /\ \A a \in D : Size(k, a) = Size(m, a)
    <3> DEFINE none == {}
    <3>1. none \subseteq D /\ NULL \notin none /\ H \cap none = {} /\ k = Forget(m, none)
          /\ D \ none = D
      BY <2>5
    <3> HIDE DEF none
    <3>2. QED
      BY <1>2, <2>3, <3>1, ForgetKeeps
  <2>8. \A a \in S \cup {NULL} : Size(k, a) = Size(l, a)
    <3>1. \A a \in S \cup {NULL} : a \in D /\ a # t
      BY <1>1, <2>1
    <3>2. QED
      BY <1>4, <2>3, <2>7, <3>1
  <2> DEFINE T == (A \ {c}) \cup H
  <2>9. (\A a \in T : a \in S) /\ c \notin T
    BY <1>2
  <2>10. Laid(k, T, top)
    BY <2>8, <2>9 DEF Fits, Laid
  <2>11. Backed(k, T, pgs)
    BY <2>8, <2>9 DEF Fits, Backed
  <2>12. TailKept(D, H, T, k, free)
    <3>1. \A a \in T : c < a \/ a + Size(l, a) <= c
      <4>1. SUFFICES ASSUME NEW a \in T PROVE c < a \/ a + Size(l, a) <= c
        OBVIOUS
      <4>2. a \in Nat /\ c \in Nat /\ a # c /\ a \in S /\ c \in S
        BY <1>1, <1>2, <2>9
      <4>3. a < c => a + Size(l, a) <= c
        BY <4>2 DEF Fits, Laid
      <4>4. QED
        BY <4>2, <4>3
    <3>2. \A a \in T : k.tail < a \/ a + Size(k, a) <= k.tail
      BY <2>1, <2>3, <2>7, <2>8, <2>9, <3>1
    <3>3. Hidden(k, H) /\ k.tail \in D
      BY <1>2, <2>1, <2>3, <2>7 DEF Hidden
    <3>4. Size(k, NULL) = 0
      BY <2>1, <2>8
    <3>5. QED
      BY <2>1, <3>2, <3>3, <3>4 DEF TailKept
  <2>13. Fits(D, H, A \ {c}, k, top, free, pgs)
    <3>1. (A \ {c}) \subseteq D /\ (A \ {c}) \cap H = {}
      BY <1>1
    <3>2. QED
      BY <2>7, <2>10, <2>11, <2>12, <3>1 DEF Fits
  <2>14. FreedAs(H, H, A, l, k, c)
    <3>1. \A a \in (A \ {c}) \cup H : Size(k, a) \in Nat /\ Size(k, a) >= Size(l, a)
      BY <1>1, <2>8, <2>9
    <3>2. QED
      BY <2>1, <2>8, <3>1 DEF FreedAs
  <2>15. QED
    BY <1>3, <2>13, <2>14
<1>7. QED
  BY <1>4, <1>5, <1>6
-----------------------------------------------------------------------------
(* The calls on the state of the heap *)

\* The state a call works on, with c the chunk it has taken.
At(l, p, f, g, c) == [list |-> l, last_page |-> p, frames |-> f, pages |-> g, chunk |-> c]

LEMMA AtFields ==
    ASSUME NEW l, NEW p, NEW f, NEW g, NEW c
    PROVE  LET s == At(l, p, f, g, c)
           IN  /\ s.list = l /\ s.last_page = p /\ s.frames = f /\ s.pages = g /\ s.chunk = c
BY DEF At

LEMMA TakenAt ==
    ASSUME NEW l, NEW p, NEW f, NEW g, NEW c, NEW required
    PROVE  LET hole  == FirstFit(l, required)
               split == Split(l, hole, required)
           IN  Taken(At(l, p, f, g, c), required)
                 = At(PutHeader(split.list, hole, split.size), p, f, g, hole)
<1> DEFINE hole == FirstFit(l, required)
           split == Split(l, hole, required)
           k == PutHeader(split.list, hole, split.size)
           s == At(l, p, f, g, c)
<1>1. s.list = l
  BY DEF At
<1>2. Taken(s, required) = [s EXCEPT !.list = k, !.chunk = hole]
  <2> HIDE DEF s
  <2>1. QED
    BY <1>1 DEF Taken
<1> HIDE DEF k, hole, s
<1>3. Taken(s, required) = At(k, p, f, g, hole)
  BY <1>2 DEF At, s
<1>4. QED
  BY <1>3 DEF k, hole, s

\* How far an extension gets.
Reached(f, size) == IF PagesFor(size) <= f THEN PagesFor(size) ELSE f

LEMMA ExtendAt ==
    ASSUME NEW l, NEW p, NEW f, NEW g, NEW size
    PROVE  LET done   == Reached(f, size)
               first  == p + PAGE_SIZE
               header == IF done = 0 THEN NULL ELSE first
               filled == IF header = NULL THEN SetSize(l, NULL, 0)
                         ELSE PutHeader(l, header, done * PAGE_SIZE)
               s == At(l, p, f, g, NULL)
           IN  /\ PagesDone(s, size) = done
               /\ ExtendHeap(s, size)
                    = At(InsertToHolesList(filled, header), first + done * PAGE_SIZE, f - done,
                         Grown(g, first, done), NULL)
<1> DEFINE done   == Reached(f, size)
           first  == p + PAGE_SIZE
           header == IF done = 0 THEN NULL ELSE first
           filled == IF header = NULL THEN SetSize(l, NULL, 0)
                     ELSE PutHeader(l, header, done * PAGE_SIZE)
           s == At(l, p, f, g, NULL)
           a == InsertToHolesList(filled, header)
           b == first + done * PAGE_SIZE
           d == Grown(g, first, done)
<1>1. s.list = l /\ s.last_page = p /\ s.frames = f /\ s.pages = g
  BY DEF At
<1> HIDE DEF s
<1>2. PagesDone(s, size) = done
  BY <1>1 DEF PagesDone, Reached
<1> HIDE DEF done
<1>3. ExtendHeap(s, size)
        = [s EXCEPT !.list = a, !.last_page = b, !.frames = s.frames - done,
                    !.pages = Grown(s.pages, first, done)]
  BY <1>1, <1>2 DEF ExtendHeap, Grown
<1>4. ExtendHeap(s, size)
        = [s EXCEPT !.list = a, !.last_page = b, !.frames = f - done, !.pages = d]
  BY <1>1, <1>3
<1> HIDE DEF a, b, d
<1> DEFINE e == f - done
<1>5. ExtendHeap(s, size) = [s EXCEPT !.list = a, !.last_page = b, !.frames = e, !.pages = d]
  BY <1>4
<1> HIDE DEF e
<1>6. ExtendHeap(s, size) = At(a, b, e, d, NULL)
  BY <1>5 DEF At, s
<1>7. QED
  BY <1>2, <1>6 DEF s, a, b, d, e, done

\* The pages asked for hold the bytes asked for and a header.
LEMMA PagesHold ==
    ASSUME NEW size, size \in Nat
    PROVE  /\ PagesFor(size) \in Nat /\ PagesFor(size) > 0
           /\ PagesFor(size) * PAGE_SIZE > size + HEADER
<1> DEFINE n == size + HEADER
           q == n \div PAGE_SIZE
           r == (n % PAGE_SIZE)
<1>1. n \in Nat /\ PAGE_SIZE \in Nat /\ PAGE_SIZE > 0
  BY HeapAssumption
<1> HIDE DEF n
<1>2. q \in Nat /\ r \in 0 .. PAGE_SIZE - 1 /\ n = q * PAGE_SIZE + r
  BY <1>1
<1>3. (q + 1) * PAGE_SIZE = q * PAGE_SIZE + PAGE_SIZE
  BY <1>1, <1>2
<1>4. (q + 1) * PAGE_SIZE > n
  BY <1>1, <1>2, <1>3
<1>5. PagesFor(size) = q + 1
  BY DEF PagesFor, n
<1> HIDE DEF q
<1>6. QED
  BY <1>1, <1>2, <1>4, <1>5 DEF n

\* A byte of what lies at the addresses in S.
Holds(l, S, b) == \E a \in S : a <= b /\ b < a + Size(l, a)

With(A, c) == IF c = NULL THEN A ELSE A \cup {c}

\* What malloc does to chunks, holes and bytes when it takes the chunk c, NULL for
\* none, for required bytes.
TookAs(K, H, A, l, k, c, required) ==
    /\ \A a \in A : Size(k, a) = Size(l, a)
    /\ Size(k, NULL) = Size(l, NULL) \/ Size(k, NULL) = 0
    /\ c # NULL => c \notin A /\ Size(k, c) >= required
    /\ Size(k, NULL) = 0 \/ \A b \in Nat : Holds(l, A \cup H, b) => Holds(k, With(A, c) \cup K, b)
    /\ (\A a \in A \cup H : Size(l, a) >= HEADER) =>
          \A a \in With(A, c) \cup K :
             \/ Size(k, a) >= HEADER
             \/ a \in K /\ c # NULL /\ a = c + HEADER /\ required < HEADER

\* The holes left by malloc: those there were, and the rest of the one it took.
HolesTaken(K, H, l, k, c, required) ==
    /\ c \in H /\ Size(l, c) >= required
    /\ \A h \in K : \/ h \in H /\ h # c /\ Size(k, h) = Size(l, h)
                    \/ h = c + Size(k, c) /\ h + Size(k, h) = c + Size(l, c)
HolesKept(K, H, A, l, k, c) ==
    \A h \in K :
       \/ h \in H /\ Size(k, h) = Size(l, h)
       \/ /\ h = c + Size(k, c)
          /\ (c \in H /\ h + Size(k, h) = c + Size(l, c)) \/ \A a \in A : a < c

LEMMA TakenTook ==
    ASSUME NEW D, NEW H, NEW A, NEW l, NEW top, NEW free, NEW pgs,
           Fits(D, H, A, l, top, free, pgs),
           NEW hole \in H, NEW required, required \in Nat,
           NEW E, NEW K, NEW k, TakenAs(E, K, D, H, A, l, k, hole, required, free),
           Size(l, hole) >= required
    PROVE  TookAs(K, H, A, l, k, hole, required) /\ HolesTaken(K, H, l, k, hole, required)
<1> DEFINE S == A \cup H
           T == With(A, hole) \cup K
           n == Size(k, hole)
           nh == hole + n
<1>1. /\ hole # NULL /\ hole \notin A /\ hole \in Nat /\ NULL \notin S
      /\ \A a \in S : a \in Nat /\ Size(l, a) \in Nat
  BY FitsFacts
<1>2. /\ n \in Nat /\ n >= required /\ HEADER \in Nat
      /\ \A a \in S \ {hole} : Size(k, a) = Size(l, a)
      /\ Size(k, NULL) = Size(l, NULL)
      /\ H \ {hole} \subseteq K
      /\ IF Size(l, hole) - required > HEADER
         THEN /\ n = IF required > HEADER THEN required ELSE HEADER
              /\ n < Size(l, hole)
              /\ K \subseteq (H \ {hole}) \cup {nh}
              /\ nh \in K => Size(k, nh) = Size(l, hole) - n
              /\ nh \in K \/ Size(k, NULL) = 0
         ELSE n = Size(l, hole) /\ K = H \ {hole}
  BY HeapAssumption DEF TakenAs
<1>3. T = A \cup {hole} \cup K
  BY <1>1 DEF With
<1> HIDE DEF T, n, nh
<1>4. \A a \in A : Size(k, a) = Size(l, a)
  BY <1>1, <1>2
<1>5. ASSUME NEW b \in Nat, Holds(l, S, b), Size(k, NULL) # 0
      PROVE  Holds(k, T, b)
  <2>1. PICK a \in S : a <= b /\ b < a + Size(l, a)
    BY <1>5 DEF Holds
  <2>2. CASE a # hole
    <3>1. a \in T /\ Size(k, a) = Size(l, a)
      BY <1>2, <1>3, <2>2
    <3>2. QED
      BY <2>1, <3>1 DEF Holds
  <2>3. CASE a = hole /\ b < hole + n
    BY <1>3, <2>1, <2>3 DEF Holds, n
  <2>4. CASE a = hole /\ ~ (b < hole + n)
    <3>1. n # Size(l, hole)
      BY <2>1, <2>4
    <3>2. nh \in K /\ Size(k, nh) = Size(l, hole) - n
      BY <1>2, <1>5, <3>1
    <3>3. nh <= b /\ b < nh + Size(k, nh)
      BY <1>1, <1>2, <2>1, <2>4, <3>2 DEF nh
    <3>4. QED
      BY <1>3, <3>2, <3>3 DEF Holds
  <2>5. QED
    BY <2>2, <2>3, <2>4
<1>6. ASSUME \A a \in S : Size(l, a) >= HEADER, NEW a \in T
      PROVE  \/ Size(k, a) >= HEADER
             \/ a \in K /\ hole # NULL /\ a = hole + HEADER /\ required < HEADER
  <2>1. CASE a \in S \ {hole}
    BY <1>2, <1>6, <2>1
  <2>2. CASE a = hole
    <3>1. Size(l, hole) >= HEADER /\ Size(l, hole) \in Nat
      BY <1>1, <1>6
    <3>2. n >= HEADER
      BY <1>2, <3>1
    <3>3. QED
      BY <2>2, <3>2 DEF n
  <2>3. CASE a = nh /\ nh \in K /\ Size(l, hole) - required > HEADER
    <3>1. /\ n = IF required > HEADER THEN required ELSE HEADER
          /\ Size(k, nh) = Size(l, hole) - n /\ Size(l, hole) \in Nat
      BY <1>1, <1>2, <2>3
    <3>2. Size(k, nh) >= HEADER \/ (n = HEADER /\ required < HEADER)
      BY <1>2, <2>3, <3>1
    <3>3. QED
      BY <1>1, <2>3, <3>2 DEF nh
  <2>4. a \in S \ {hole} \/ a = hole \/ (a = nh /\ nh \in K /\ Size(l, hole) - required > HEADER)
    BY <1>2, <1>3, <1>6
  <2>5. QED
    BY <2>1, <2>2, <2>3, <2>4
<1>7. hole \notin A /\ Size(k, hole) >= required /\ Size(k, NULL) = Size(l, NULL)
  BY <1>1, <1>2 DEF n
<1>8. Size(k, NULL) = 0 \/ \A b \in Nat : Holds(l, S, b) => Holds(k, T, b)
  BY <1>5
<1>9. (\A a \in S : Size(l, a) >= HEADER) =>
          \A a \in T : \/ Size(k, a) >= HEADER
                       \/ a \in K /\ hole # NULL /\ a = hole + HEADER /\ required < HEADER
  BY <1>6
<1>10. TookAs(K, H, A, l, k, hole, required)
  BY <1>4, <1>7, <1>8, <1>9 DEF TookAs, T
<1>11. HolesTaken(K, H, l, k, hole, required)
  <2>1. ASSUME NEW h \in K
        PROVE  \/ h \in H /\ h # hole /\ Size(k, h) = Size(l, h)
               \/ h = hole + n /\ h + Size(k, h) = hole + Size(l, hole)
    <3>1. CASE h \in H \ {hole}
      BY <1>2, <3>1
    <3>2. CASE h \notin H \ {hole}
      <4>1. h = nh /\ Size(k, nh) = Size(l, hole) - n
        BY <1>2, <2>1, <3>2
      <4>2. Size(l, hole) \in Nat
        BY <1>1
      <4>3. QED
        BY <1>1, <1>2, <4>1, <4>2 DEF nh
    <3>3. QED
      BY <3>1, <3>2
  <2>2. QED
    BY <2>1 DEF HolesTaken, n
<1>12. QED
  BY <1>10, <1>11

\* What extend_heap does, and that the hole it makes when it gets all the pages it
\* asked for is large enough.
LEMMA ExtensionFits ==
    ASSUME NEW D, NEW H, NEW A, NEW l, NEW p, NEW f, NEW g,
           Fits(D, H, A, l, p + PAGE_SIZE, f, g), p \in Nat, p >= HEAP_START, f \in Nat,
           NEW required, required \in Nat
    PROVE  LET s == At(l, p, f, g, NULL)
               e == ExtendHeap(s, required)
           IN  /\ e = At(e.list, e.last_page, e.frames, e.pages, NULL)
               /\ \E E, K : /\ Fits(E, K, A, e.list, e.last_page + PAGE_SIZE, e.frames, e.pages)
                            /\ TookAs(K, H, A, l, e.list, NULL, required)
                            /\ PagesDone(s, required) = PagesFor(required)
                                 => \E h \in K : Size(e.list, h) >= required
                            /\ \A h \in K : \/ h \in H /\ Size(e.list, h) = Size(l, h)
                                            \/ h = p + PAGE_SIZE /\ \A a \in A : a < h
               /\ e.last_page \in Nat /\ e.last_page >= p /\ e.frames \in Nat
               /\ \A q \in g : q \in e.pages
               /\ \A q \in e.pages : q \in g \/ q \in Nat
<1> DEFINE s == At(l, p, f, g, NULL)
           e == ExtendHeap(s, required)
           done == Reached(f, required)
           top == p + PAGE_SIZE
           last == top + done * PAGE_SIZE
           above == last + PAGE_SIZE
           header == IF done = 0 THEN NULL ELSE top
           filled == IF header = NULL THEN SetSize(l, NULL, 0)
                     ELSE PutHeader(l, header, done * PAGE_SIZE)
           k == InsertToHolesList(filled, header)
           pgs == Grown(g, top, done)
           rest == f - done
           bytes == done * PAGE_SIZE
<1>1. /\ PAGE_SIZE \in Nat /\ PAGE_SIZE > HEADER /\ HEADER \in Nat /\ HEAP_START \in Nat
      /\ HEAP_START > HEADER
  BY HeapAssumption
<1>2. /\ PagesFor(required) \in Nat /\ PagesFor(required) > 0
      /\ PagesFor(required) * PAGE_SIZE > required + HEADER
  BY PagesHold
<1>3. PagesDone(s, required) = done /\ e = At(k, last, rest, pgs, NULL)
  BY ExtendAt
<1>4. e.list = k /\ e.last_page = last /\ e.frames = rest /\ e.pages = pgs
  <2> HIDE DEF e, k, last, rest, pgs
  <2>1. QED
    BY <1>3, AtFields
<1>5. done \in Nat /\ done <= f /\ (done < PagesFor(required) => done = f) /\ rest \in Nat
      /\ (done = PagesFor(required) \/ done < PagesFor(required))
  BY <1>2 DEF Reached
<1>6. bytes \in Nat /\ (done > 0 => bytes >= PAGE_SIZE)
  <2> HIDE DEF done
  <2>1. done * PAGE_SIZE \in Nat
    BY <1>1, <1>5
  <2>2. done > 0 => done * PAGE_SIZE = (done - 1) * PAGE_SIZE + PAGE_SIZE
    BY <1>1, <1>5
  <2>3. done > 0 => (done - 1) * PAGE_SIZE \in Nat
    BY <1>1, <1>5
  <2>4. QED
    BY <1>1, <2>1, <2>2, <2>3
<1>7. /\ top \in Nat /\ top >= HEAP_START /\ top > 0 /\ last = top + bytes
      /\ last \in Nat /\ last >= p /\ above \in Nat /\ last <= above /\ top <= above
  <2> HIDE DEF bytes
  <2>1. last = top + bytes
    BY DEF bytes
  <2>2. QED
    BY <1>1, <1>6, <2>1
<1>8. (\A q \in g : q \in pgs) /\ (\A q \in pgs : q \in g \/ q \in Nat)
  <2>1. ASSUME NEW j \in 0 .. done - 1 PROVE top + j * PAGE_SIZE \in Nat
    BY <1>1, <1>5, <1>7
  <2>2. QED
    BY <2>1 DEF Grown
<1>9. CASE done > 0
  <2> DEFINE fr == f
  <2>1. header = top /\ filled = PutHeader(l, top, done * PAGE_SIZE)
    BY <1>7, <1>9 DEF NULL
  <2>2. k = InsertToHolesList(PutHeader(l, top, done * PAGE_SIZE), top)
    BY <2>1
  <2> DEFINE t == top
             d == done
             ab == above
  <2>3. /\ t \in Nat /\ t >= HEAP_START /\ d \in Nat /\ d > 0 /\ d <= fr /\ fr \in Nat
        /\ ab \in Nat /\ t + d * PAGE_SIZE <= ab
        /\ Fits(D, H, A, l, t, fr, g)
    BY <1>5, <1>7, <1>9
  <2> HIDE DEF t, d, ab, fr
  <2>4. LET m == InsertToHolesList(PutHeader(l, t, d * PAGE_SIZE), t)
        IN  \E E, K : /\ Fits(E, K, A, m, ab, fr - d, Grown(g, t, d))
                      /\ t \in K /\ \A a \in H : a \in K
                      /\ \A a \in K : a \in H \/ a = t
                      /\ \A a \in A : Size(m, a) = Size(l, a)
                      /\ \A a \in H : Size(m, a) = Size(l, a)
                      /\ Size(m, t) = d * PAGE_SIZE
                      /\ Size(m, NULL) = Size(l, NULL)
    BY <2>3, ExtendFits
  <2>5. PICK E, K : /\ Fits(E, K, A, k, above, rest, pgs)
                    /\ top \in K /\ \A a \in H : a \in K
                    /\ \A a \in K : a \in H \/ a = top
                    /\ \A a \in A \cup H : Size(k, a) = Size(l, a)
                    /\ Size(k, top) = bytes
                    /\ Size(k, NULL) = Size(l, NULL)
    <3> HIDE DEF k
    <3>1. QED
      BY <2>2, <2>4 DEF t, d, ab, fr
  <2> HIDE DEF k, done, bytes, top, pgs, rest, above
  <2>6. TookAs(K, H, A, l, k, NULL, required)
    <3>1. With(A, NULL) = A
      BY DEF With
    <3>2. \A b \in Nat : Holds(l, A \cup H, b) => Holds(k, A \cup K, b)
      <4>1. \A a \in A \cup H : a \in A \cup K /\ Size(k, a) = Size(l, a)
        BY <2>5
      <4>2. QED
        BY <4>1 DEF Holds
    <3>3. ASSUME \A a \in A \cup H : Size(l, a) >= HEADER, NEW a \in A \cup K
          PROVE  Size(k, a) >= HEADER
      <4>1. CASE a \in A \cup H
        BY <2>5, <3>3, <4>1
      <4>2. CASE a = top
        <5>1. Size(k, a) = bytes /\ bytes >= PAGE_SIZE
          BY <1>6, <1>9, <2>5, <4>2
        <5>2. QED
          BY <1>1, <1>6, <5>1
      <4>3. QED
        BY <2>5, <3>3, <4>1, <4>2
    <3>4. \A a \in A : Size(k, a) = Size(l, a)
      BY <2>5
    <3>5. QED
      BY <2>5, <3>1, <3>2, <3>3, <3>4 DEF TookAs
  <2> DEFINE GoodHole(h) == \/ h \in H /\ Size(k, h) = Size(l, h)
                            \/ h = p + PAGE_SIZE /\ \A a \in A : a < h
  <2>7. \A h \in K : GoodHole(h)
    <3>1. \A a \in A : a < top
      <4> DEFINE x == p + PAGE_SIZE
      <4>1. x = top /\ Fits(D, H, A, l, x, f, g)
        BY DEF top
      <4> HIDE DEF x
      <4>2. \A a \in A : a + Size(l, a) <= x
        BY <4>1 DEF Fits, Laid
      <4>3. \A a \in A : a \in Nat /\ Size(l, a) \in Nat /\ Size(l, a) > 0
        BY <4>1, FitsFacts
      <4>4. QED
        BY <1>7, <4>1, <4>2, <4>3
    <3>2. QED
      BY <2>5, <3>1 DEF top
  <2>8. done = PagesFor(required) => Size(k, top) >= required
    <3>1. bytes = done * PAGE_SIZE
      BY DEF bytes
    <3>2. QED
      BY <1>1, <1>2, <1>6, <2>5, <3>1
  <2>9. QED
    <3>1. top \in K
      BY <2>5
    <3> DEFINE ex == e
    <3>2. /\ ex = At(ex.list, ex.last_page, ex.frames, ex.pages, NULL)
          /\ ex.list = k /\ ex.last_page + PAGE_SIZE = above /\ ex.frames = rest
          /\ ex.pages = pgs /\ ex.last_page = last
      BY <1>3, <1>4 DEF above
    <3> HIDE DEF last, ex, s
    <3>3. Fits(E, K, A, ex.list, ex.last_page + PAGE_SIZE, ex.frames, ex.pages)
      BY <2>5, <3>2
    <3>4. QED
      BY <1>3, <1>5, <1>7, <1>8, <2>6, <2>8, <2>7, <3>1, <3>2, <3>3 DEF ex, s
<1>10. CASE done = 0
  <2>1. f = 0 /\ rest = 0 /\ ~ (done = PagesFor(required))
    BY <1>2, <1>5, <1>10
  <2>2. k = InsertToHolesList(SetSize(l, NULL, 0), NULL)
    BY <1>10
  <2> DEFINE t == top
             ab == above
  <2>3. t \in Nat /\ ab \in Nat /\ t <= ab /\ Fits(D, H, A, l, t, 0, g)
    BY <1>7, <2>1
  <2> HIDE DEF t, ab
  <2>4. LET m == InsertToHolesList(SetSize(l, NULL, 0), NULL)
        IN  /\ Fits(D, {}, A, m, ab, 0, g)
            /\ \A a \in A : Size(m, a) = Size(l, a)
            /\ Size(m, NULL) = 0
    BY <2>3, ExtendNothing
  <2>5. pgs = g
    <3>1. 0 .. done - 1 = {}
      BY <1>10
    <3> HIDE DEF done
    <3>2. QED
      BY <3>1 DEF Grown
  <2>6. /\ Fits(D, {}, A, k, above, rest, pgs)
        /\ \A a \in A : Size(k, a) = Size(l, a)
        /\ Size(k, NULL) = 0
    <3> HIDE DEF k, pgs, rest
    <3>1. QED
      BY <2>1, <2>2, <2>4, <2>5 DEF ab
  <2> HIDE DEF k, done, bytes, top, pgs, rest, above
  <2>7. TookAs({}, H, A, l, k, NULL, required)
    <3>1. With(A, NULL) = A
      BY DEF With
    <3>2. (\A a \in A \cup H : Size(l, a) >= HEADER) => \A a \in A : Size(k, a) >= HEADER
      BY <2>6
    <3>3. QED
      BY <2>6, <3>1, <3>2 DEF TookAs
  <2>8. QED
    <3> DEFINE ex == e
    <3>1. /\ ex = At(ex.list, ex.last_page, ex.frames, ex.pages, NULL)
          /\ ex.list = k /\ ex.last_page + PAGE_SIZE = above /\ ex.frames = rest
          /\ ex.pages = pgs /\ ex.last_page = last
      BY <1>3, <1>4 DEF above
    <3> HIDE DEF last, ex, s
    <3>2. Fits(D, {}, A, ex.list, ex.last_page + PAGE_SIZE, ex.frames, ex.pages)
      BY <2>6, <3>1
    <3>3. QED
      BY <1>3, <1>5, <1>7, <1>8, <2>1, <2>7, <3>1, <3>2 DEF ex, s
<1>11. QED
  BY <1>5, <1>9, <1>10

\* The search of malloc: what FirstFit finds is a hole that is large enough, and
\* it finds one when there is one.
LEMMA FitFound ==
    ASSUME NEW D, NEW H, NEW A, NEW l, NEW top, NEW free, NEW pgs,
           Fits(D, H, A, l, top, free, pgs), NEW required, required \in Nat
    PROVE  LET hole == FirstFit(l, required)
           IN  /\ hole # NULL => hole \in H /\ Size(l, hole) >= required
               /\ (\E h \in H : Size(l, h) >= required) => hole # NULL
<1> DEFINE r == required
<1>1. Nodes(D, H) /\ l \in ListOn(D) /\ Linked(l, H) /\ r \in Nat
  BY DEF Fits
<1> HIDE DEF r
<1>2. LET hole == FirstFit(l, r)
      IN  IF hole = NULL THEN \A h \in H : ~ (Size(l, h) >= r)
          ELSE /\ hole \in H /\ Size(l, hole) >= r
               /\ \A h \in H : Size(l, h) >= r => hole <= h
  BY <1>1, FirstFitFound
<1>3. QED
  BY <1>2 DEF r

\* What malloc does when its search has found a hole.
LEMMA TakenFits ==
    ASSUME NEW D, NEW H, NEW A, NEW l, NEW p, NEW f, NEW g,
           Fits(D, H, A, l, p + PAGE_SIZE, f, g), p \in Nat,
           NEW required, required \in Nat, required > 0,
           FirstFit(l, required) # NULL
    PROVE  LET t == Taken(At(l, p, f, g, NULL), required)
           IN  /\ t = At(t.list, p, f, g, t.chunk) /\ t.chunk # NULL
               /\ \E E, K : /\ Fits(E, K, With(A, t.chunk), t.list, p + PAGE_SIZE, f, g)
                            /\ TookAs(K, H, A, l, t.list, t.chunk, required)
                            /\ HolesTaken(K, H, l, t.list, t.chunk, required)
<1> DEFINE hole == FirstFit(l, required)
           split == Split(l, hole, required)
           k == PutHeader(split.list, hole, split.size)
           t == Taken(At(l, p, f, g, NULL), required)
           top == p + PAGE_SIZE
<1>1. t = At(k, p, f, g, hole)
  BY TakenAt
<1>2. t.list = k /\ t.chunk = hole /\ t = At(t.list, p, f, g, t.chunk)
  <2> HIDE DEF t, k, hole
  <2>1. QED
    BY <1>1, AtFields
<1>3. top \in Nat /\ Fits(D, H, A, l, top, f, g)
  BY HeapAssumption
<1> HIDE DEF top
<1>4. hole \in H /\ Size(l, hole) >= required /\ hole # NULL
  BY <1>3, FitFound
<1> HIDE DEF hole, t
<1>5. \E E, K : /\ Fits(E, K, A \cup {hole}, k, top, f, g)
                /\ TakenAs(E, K, D, H, A, l, k, hole, required, f)
  <2> DEFINE r == required
  <2>1. r \in Nat /\ r > 0 /\ Size(l, hole) >= r
    BY <1>4
  <2> HIDE DEF r
  <2>2. LET sp == Split(l, hole, r)
            m == PutHeader(sp.list, hole, sp.size)
        IN  \E E, K : /\ Fits(E, K, A \cup {hole}, m, top, f, g)
                      /\ TakenAs(E, K, D, H, A, l, m, hole, r, f)
    BY <1>3, <1>4, <2>1, TakeFits
  <2>3. QED
    BY <2>2 DEF r
<1> HIDE DEF k
<1>6. PICK E, K : /\ Fits(E, K, A \cup {hole}, k, top, f, g)
                  /\ TakenAs(E, K, D, H, A, l, k, hole, required, f)
  BY <1>5
<1>7. TookAs(K, H, A, l, k, hole, required) /\ HolesTaken(K, H, l, k, hole, required)
  BY <1>3, <1>4, <1>6, TakenTook
<1>8. With(A, hole) = A \cup {hole}
  BY <1>4 DEF With
<1>9. Fits(E, K, With(A, t.chunk), t.list, p + PAGE_SIZE, f, g)
  BY <1>2, <1>6, <1>8 DEF top
<1>10. QED
  BY <1>2, <1>4, <1>7, <1>9 DEF t

\* An extension followed by taking a chunk.
LEMMA TookBoth ==
    ASSUME NEW H, NEW G, NEW K, NEW A, NEW l, NEW e, NEW k, NEW c, NEW required,
           TookAs(G, H, A, l, e, NULL, required), TookAs(K, G, A, e, k, c, required)
    PROVE  TookAs(K, H, A, l, k, c, required)
<1>1. With(A, NULL) = A
  BY DEF With
<1>2. \A a \in A : Size(k, a) = Size(l, a)
  BY DEF TookAs
<1>3. Size(k, NULL) = Size(l, NULL) \/ Size(k, NULL) = 0
  BY DEF TookAs
<1>4. c # NULL => c \notin A /\ Size(k, c) >= required
  BY DEF TookAs
<1>5. Size(k, NULL) = 0 \/ \A b \in Nat : Holds(l, A \cup H, b) => Holds(k, With(A, c) \cup K, b)
  <2>1. CASE Size(k, NULL) # 0
    <3>1. Size(e, NULL) # 0
      BY <2>1 DEF TookAs
    <3>2. \A b \in Nat : Holds(l, A \cup H, b) => Holds(e, A \cup G, b)
      BY <1>1, <3>1 DEF TookAs
    <3>3. \A b \in Nat : Holds(e, A \cup G, b) => Holds(k, With(A, c) \cup K, b)
      BY <2>1 DEF TookAs
    <3>4. QED
      BY <3>2, <3>3
  <2>2. QED
    BY <2>1
<1>6. (\A a \in A \cup H : Size(l, a) >= HEADER) => \A a \in A \cup G : Size(e, a) >= HEADER
  BY <1>1 DEF TookAs
<1>7. (\A a \in A \cup G : Size(e, a) >= HEADER) =>
          \A a \in With(A, c) \cup K :
             \/ Size(k, a) >= HEADER
             \/ a \in K /\ c # NULL /\ a = c + HEADER /\ required < HEADER
  BY DEF TookAs
<1>8. QED
  BY <1>2, <1>3, <1>4, <1>5, <1>6, <1>7 DEF TookAs

\* One extension is enough for the request it was made for.
LEMMA ExtensionIsEnough ==
    ASSUME NEW D, NEW H, NEW A, NEW l, NEW p, NEW f, NEW g,
           Fits(D, H, A, l, p + PAGE_SIZE, f, g), p \in Nat, p >= HEAP_START, f \in Nat,
           NEW required, required \in Nat,
           PagesDone(At(l, p, f, g, NULL), required) = PagesFor(required)
    PROVE  FirstFit(ExtendHeap(At(l, p, f, g, NULL), required).list, required) # NULL
<1> DEFINE e == ExtendHeap(At(l, p, f, g, NULL), required)
<1>1. PICK E, K : /\ Fits(E, K, A, e.list, e.last_page + PAGE_SIZE, e.frames, e.pages)
                  /\ \E h \in K : Size(e.list, h) >= required
  BY ExtensionFits
<1> HIDE DEF e
<1>2. QED
  BY <1>1, FitFound DEF e

\* What malloc does.
LEMMA MallocFits ==
    ASSUME NEW D, NEW H, NEW A, NEW l, NEW p, NEW f, NEW g,
           Fits(D, H, A, l, p + PAGE_SIZE, f, g), p \in Nat, p >= HEAP_START, f \in Nat,
           NEW size, size \in Nat
    PROVE  LET t == MallocFrom(At(l, p, f, g, NULL), size)
           IN  /\ \E E, K : /\ Fits(E, K, With(A, t.chunk), t.list,
                                    t.last_page + PAGE_SIZE, t.frames, t.pages)
                            /\ TookAs(K, H, A, l, t.list, t.chunk, size + WORD)
                            /\ t.chunk # NULL => HolesKept(K, H, A, l, t.list, t.chunk)
               /\ t = At(t.list, t.last_page, t.frames, t.pages, t.chunk)
               /\ t.last_page \in Nat /\ t.last_page >= p /\ t.frames \in Nat
               /\ \A q \in g : q \in t.pages
               /\ \A q \in t.pages : q \in g \/ q \in Nat
<1> DEFINE r == size + WORD
           s == At(l, p, f, g, NULL)
           t == MallocFrom(s, size)
           e == ExtendHeap(s, r)
<1>1. r \in Nat /\ r > 0 /\ s.list = l
  BY HeapAssumption DEF At
<1>2. t = IF FirstFit(l, r) # NULL THEN Taken(s, r)
          ELSE IF PagesDone(s, r) < PagesFor(r) THEN e
          ELSE Taken(e, r)
  <2> HIDE DEF s
  <2>1. QED
    BY <1>1 DEF MallocFrom
<1> HIDE DEF r, t, e
<1>3. /\ e = At(e.list, e.last_page, e.frames, e.pages, NULL)
      /\ \E E, K : /\ Fits(E, K, A, e.list, e.last_page + PAGE_SIZE, e.frames, e.pages)
                   /\ TookAs(K, H, A, l, e.list, NULL, r)
                   /\ PagesDone(s, r) = PagesFor(r) => \E h \in K : Size(e.list, h) >= r
                   /\ \A h \in K : \/ h \in H /\ Size(e.list, h) = Size(l, h)
                                   \/ h = p + PAGE_SIZE /\ \A a \in A : a < h
      /\ e.last_page \in Nat /\ e.last_page >= p /\ e.frames \in Nat
      /\ \A q \in g : q \in e.pages
      /\ \A q \in e.pages : q \in g \/ q \in Nat
  <2>1. LET x == ExtendHeap(At(l, p, f, g, NULL), r)
        IN  /\ x = At(x.list, x.last_page, x.frames, x.pages, NULL)
            /\ \E E, K : /\ Fits(E, K, A, x.list, x.last_page + PAGE_SIZE, x.frames, x.pages)
                         /\ TookAs(K, H, A, l, x.list, NULL, r)
                         /\ PagesDone(At(l, p, f, g, NULL), r) = PagesFor(r)
                              => \E h \in K : Size(x.list, h) >= r
                         /\ \A h \in K : \/ h \in H /\ Size(x.list, h) = Size(l, h)
                                         \/ h = p + PAGE_SIZE /\ \A a \in A : a < h
            /\ x.last_page \in Nat /\ x.last_page >= p /\ x.frames \in Nat
            /\ \A q \in g : q \in x.pages
            /\ \A q \in x.pages : q \in g \/ q \in Nat
    BY <1>1, ExtensionFits
  <2>2. QED
    BY <2>1 DEF e
<1>4. PICK E, K : /\ Fits(E, K, A, e.list, e.last_page + PAGE_SIZE, e.frames, e.pages)
                  /\ TookAs(K, H, A, l, e.list, NULL, r)
                  /\ PagesDone(s, r) = PagesFor(r) => \E h \in K : Size(e.list, h) >= r
                  /\ \A h \in K : \/ h \in H /\ Size(e.list, h) = Size(l, h)
                                  \/ h = p + PAGE_SIZE /\ \A a \in A : a < h
  BY <1>3
<1>5. \A h \in K : \/ h \in H /\ Size(e.list, h) = Size(l, h)
                   \/ h = p + PAGE_SIZE /\ \A o \in A : o < h
  BY <1>4
<1> HIDE DEF s
<1>6. CASE FirstFit(l, r) # NULL
  <2>1. LET x == Taken(At(l, p, f, g, NULL), r)
        IN  /\ x = At(x.list, p, f, g, x.chunk) /\ x.chunk # NULL
            /\ \E F, L : /\ Fits(F, L, With(A, x.chunk), x.list, p + PAGE_SIZE, f, g)
                         /\ TookAs(L, H, A, l, x.list, x.chunk, r)
                         /\ HolesTaken(L, H, l, x.list, x.chunk, r)
    BY <1>1, <1>6, TakenFits
  <2>2. t = Taken(At(l, p, f, g, NULL), r)
    BY <1>2, <1>6 DEF s
  <2>3. t = At(t.list, p, f, g, t.chunk)
    BY <2>1, <2>2
  <2>4. t.last_page = p /\ t.frames = f /\ t.pages = g
    <3> DEFINE k == t.list
               c == t.chunk
    <3>1. t = At(k, p, f, g, c)
      BY <2>3
    <3> HIDE DEF k, c
    <3>2. QED
      BY <3>1 DEF At
  <2>5. PICK F, L : /\ Fits(F, L, With(A, t.chunk), t.list, t.last_page + PAGE_SIZE,
                            t.frames, t.pages)
                    /\ TookAs(L, H, A, l, t.list, t.chunk, r)
                    /\ HolesTaken(L, H, l, t.list, t.chunk, r)
    BY <2>1, <2>2, <2>4
  <2>6. HolesKept(L, H, A, l, t.list, t.chunk)
    BY <2>5 DEF HolesTaken, HolesKept
  <2>7. t = At(t.list, t.last_page, t.frames, t.pages, t.chunk)
    BY <2>3, <2>4
  <2>8. QED
    BY <2>4, <2>5, <2>6, <2>7 DEF t, s, r
<1>7. CASE FirstFit(l, r) = NULL /\ PagesDone(s, r) < PagesFor(r)
  <2>1. t = e /\ t.chunk = NULL
    <3>1. t = e
      BY <1>2, <1>7
    <3> DEFINE a == e.list
               b == e.last_page
               c == e.frames
               d == e.pages
    <3>2. e = At(a, b, c, d, NULL)
      BY <1>3
    <3> HIDE DEF a, b, c, d
    <3>3. e.chunk = NULL
      BY <3>2 DEF At
    <3>4. QED
      BY <3>1, <3>3
  <2>2. With(A, t.chunk) = A
    BY <2>1 DEF With
  <2>3. QED
    BY <1>3, <1>4, <2>1, <2>2 DEF t, s, r
<1>8. CASE FirstFit(l, r) = NULL /\ ~ (PagesDone(s, r) < PagesFor(r))
  <2>1. t = Taken(e, r)
    BY <1>2, <1>8
  <2>2. PagesDone(s, r) = PagesFor(r)
    <3>1. PagesDone(s, r) = Reached(f, r)
      BY ExtendAt DEF s
    <3>2. Reached(f, r) = PagesFor(r) \/ (Reached(f, r) = f /\ ~ (PagesFor(r) <= f))
      BY DEF Reached
    <3>3. PagesFor(r) \in Nat
      BY <1>1, PagesHold
    <3>4. QED
      BY <1>8, <3>1, <3>2, <3>3
  <2> DEFINE a == e.list
             b == e.last_page
             c == e.frames
             d == e.pages
  <2>3. FirstFit(a, r) # NULL
    <3>1. \E h \in K : Size(a, h) >= r
      BY <1>4, <2>2
    <3>2. Fits(E, K, A, a, e.last_page + PAGE_SIZE, e.frames, e.pages)
      BY <1>4
    <3> HIDE DEF a
    <3>3. QED
      BY <1>1, <3>1, <3>2, FitFound
  <2>4. t = Taken(At(a, b, c, d, NULL), r)
    BY <1>3, <2>1
  <2>5. b \in Nat /\ Fits(E, K, A, a, b + PAGE_SIZE, c, d) /\ TookAs(K, H, A, l, a, NULL, r)
    BY <1>3, <1>4
  <2> HIDE DEF a, b, c, d
  <2>6. LET x == Taken(At(a, b, c, d, NULL), r)
        IN  /\ x = At(x.list, b, c, d, x.chunk) /\ x.chunk # NULL
            /\ \E F, L : /\ Fits(F, L, With(A, x.chunk), x.list, b + PAGE_SIZE, c, d)
                         /\ TookAs(L, K, A, a, x.list, x.chunk, r)
                         /\ HolesTaken(L, K, a, x.list, x.chunk, r)
    BY <1>1, <2>3, <2>5, TakenFits
  <2>7. t = At(t.list, b, c, d, t.chunk)
    BY <2>4, <2>6
  <2>8. t.last_page = b /\ t.frames = c /\ t.pages = d
    <3> DEFINE m == t.list
               n == t.chunk
    <3>1. t = At(m, b, c, d, n)
      BY <2>7
    <3> HIDE DEF m, n
    <3>2. QED
      BY <3>1 DEF At
  <2>9. PICK F, L : /\ Fits(F, L, With(A, t.chunk), t.list, b + PAGE_SIZE, c, d)
                    /\ TookAs(L, K, A, a, t.list, t.chunk, r)
                    /\ HolesTaken(L, K, a, t.list, t.chunk, r)
    BY <2>4, <2>6
  <2>10. TookAs(L, H, A, l, t.list, t.chunk, r)
    BY <2>5, <2>9, TookBoth
  <2>11. Fits(F, L, With(A, t.chunk), t.list, t.last_page + PAGE_SIZE, t.frames, t.pages)
    BY <2>8, <2>9
  <2>12. /\ t.last_page \in Nat /\ t.last_page >= p /\ t.frames \in Nat
         /\ \A q \in g : q \in t.pages
         /\ \A q \in t.pages : q \in g \/ q \in Nat
    BY <1>3, <2>8 DEF b, c, d
  <2>13. HolesKept(L, H, A, l, t.list, t.chunk)
    <3>1. \A h \in K : \/ h \in H /\ Size(a, h) = Size(l, h)
                       \/ h = p + PAGE_SIZE /\ \A o \in A : o < h
      BY <1>5 DEF a
    <3>2. \A h \in H : ~ (Size(l, h) >= r)
      <4> DEFINE top == p + PAGE_SIZE
      <4>1. Fits(D, H, A, l, top, f, g)
        OBVIOUS
      <4> HIDE DEF top
      <4>2. QED
        BY <1>1, <1>8, <4>1, FitFound
    <3>3. t.chunk \in K /\ Size(a, t.chunk) >= r
      BY <2>9 DEF HolesTaken
    <3>4. t.chunk = p + PAGE_SIZE /\ \A o \in A : o < t.chunk
      BY <3>1, <3>2, <3>3
    <3>5. ASSUME NEW h \in L
          PROVE  \/ h \in H /\ Size(t.list, h) = Size(l, h)
                 \/ h = t.chunk + Size(t.list, t.chunk)
      BY <2>9, <3>1, <3>4, <3>5 DEF HolesTaken
    <3>6. QED
      BY <3>4, <3>5 DEF HolesKept
  <2>14. t = At(t.list, t.last_page, t.frames, t.pages, t.chunk)
    BY <2>7, <2>8
  <2>15. QED
    BY <2>10, <2>11, <2>12, <2>13, <2>14 DEF t, s, r
<1>9. QED
  BY <1>6, <1>7, <1>8
-----------------------------------------------------------------------------
(* The invariant of the heap *)

\* The list l, the last page p, the frames f, the pages g and the chunks u are
\* those of a heap: chunks and listed holes lie side by side in mapped pages, the
\* list is linked through the holes, and each chunk holds what was asked for.
Holding(l, p, f, g, u) ==
    /\ Fits(DOMAIN l.mem, Holes(l), DOMAIN u, l, p + PAGE_SIZE, f, g)
    /\ p \in Nat /\ HEAP_START <= p /\ p <= MaxLastPage
    /\ f \in Nat /\ g \in SUBSET Nat
    /\ \A a \in DOMAIN u : u[a] \in Sizes \ {0} /\ Size(l, a) >= u[a] + WORD

HeapInv == Holding(list, last_page, frames, pages, live)

LEMMA FitsHere ==
    ASSUME NEW D, NEW H, NEW A, NEW l, NEW top, NEW free, NEW pgs,
           Fits(D, H, A, l, top, free, pgs)
    PROVE  D = DOMAIN l.mem /\ H = Holes(l)
<1>1. Nodes(D, H) /\ l \in ListOn(D) /\ Linked(l, H)
  BY DEF Fits
<1>2. H = Holes(l)
  BY <1>1, HolesAreNodes
<1>3. QED
  BY <1>1, <1>2 DEF ListOn

LEMMA InitHolds == Init => HeapInv
<1> DEFINE S == HEAP_START
           D == {NULL, S}
           H == {S}
           low == [size |-> LOW_WORD, next |-> UserData, prev |-> UserData]
           hole == [size |-> PAGE_SIZE, next |-> NULL, prev |-> NULL]
<1>1. SUFFICES ASSUME Init PROVE HeapInv
  OBVIOUS
<1>2. /\ S \in Nat /\ S > 0 /\ NULL = 0 /\ PAGE_SIZE \in Nat /\ PAGE_SIZE > 0
      /\ LOW_WORD \in Nat /\ MaxLastPage \in Nat /\ S <= MaxLastPage
      /\ FRAMES \in Nat /\ FRAMES # 0
  BY HeapAssumption DEF NULL
<1> HIDE DEF S
<1>3. low \in Cell /\ hole \in Cell
  BY <1>2 DEF Cell, UserData
<1>4. list.head = S /\ list.tail = S
      /\ list.mem = [a \in D |-> IF a = NULL THEN low ELSE hole]
  BY <1>1 DEF Init, S
<1> HIDE DEF low, hole
<1>5. list \in ListOn(D)
  <2>1. list = [head |-> S, tail |-> S, mem |-> [a \in D |-> IF a = NULL THEN low ELSE hole]]
    BY <1>1 DEF Init, S, low, hole
  <2>2. [a \in D |-> IF a = NULL THEN low ELSE hole] \in [D -> Cell]
    BY <1>3
  <2> HIDE DEF D
  <2>3. QED
    BY <1>2, <2>1, <2>2 DEF ListOn
<1>6. /\ Size(list, S) = PAGE_SIZE /\ NextOf(list, S) = NULL /\ PrevOf(list, S) = NULL
      /\ Size(list, NULL) = LOW_WORD
  <2>1. list.mem[S] = hole /\ list.mem[NULL] = low
    BY <1>2, <1>4
  <2>2. QED
    BY <2>1 DEF Size, NextOf, PrevOf, low, hole
<1>7. Nodes(D, H)
  <2>1. IsFiniteSet(D)
    <3> DEFINE Z == {NULL}
    <3>1. IsFiniteSet(Z)
      BY FS_Singleton
    <3>2. D = Z \cup {S}
      OBVIOUS
    <3> HIDE DEF Z
    <3>3. IsFiniteSet(Z \cup {S})
      BY <3>1, FS_AddElement
    <3>4. QED
      BY <3>2, <3>3
  <2>2. D \in SUBSET Nat /\ NULL \in D /\ H \subseteq D \ {NULL}
    BY <1>2
  <2>3. QED
    BY <2>1, <2>2 DEF Nodes
<1>8. Linked(list, H) /\ Sound(list, H)
  <2>1. IsNext(H, NULL, list.head)
    BY <1>2, <1>4 DEF IsNext
  <2>2. \A h \in H : IsNext(H, h, NextOf(list, h)) /\ IsPrev(H, h, PrevOf(list, h))
    BY <1>2, <1>6 DEF IsNext, IsPrev
  <2>3. Sound(list, H)
    BY <1>2, <1>4 DEF Sound
  <2>4. QED
    BY <2>1, <2>2, <2>3 DEF Linked
<1>9. DOMAIN live = {}
  BY <1>1 DEF Init
<1>10. last_page = S /\ pages = {S} /\ frames \in Nat
  BY <1>1, <1>2 DEF Init, S
<1>11. Laid(list, {} \cup H, last_page + PAGE_SIZE)
  BY <1>2, <1>6, <1>10 DEF Laid, S
<1>12. Backed(list, {} \cup H, pages)
  BY <1>2, <1>6, <1>10 DEF Backed
<1>13. TailKept(D, H, {} \cup H, list, frames)
  BY <1>6, <1>8 DEF TailKept
<1>14. Fits(D, H, {}, list, last_page + PAGE_SIZE, frames, pages)
  BY <1>5, <1>7, <1>8, <1>11, <1>12, <1>13 DEF Fits
<1>15. D = DOMAIN list.mem /\ H = Holes(list)
  <2> DEFINE top == last_page + PAGE_SIZE
  <2>1. Fits(D, H, {}, list, top, frames, pages)
    BY <1>14
  <2> HIDE DEF top, D, H
  <2>2. QED
    BY <2>1, FitsHere
<1>16. QED
  <2> HIDE DEF D, H
  <2>1. last_page \in Nat /\ HEAP_START <= last_page /\ last_page <= MaxLastPage
        /\ pages \in SUBSET Nat
    BY <1>2, <1>10 DEF S
  <2>2. QED
    BY <1>9, <1>10, <1>14, <1>15, <2>1 DEF HeapInv, Holding

\* malloc keeps the invariant.  The chunks after it, with the one it took:
Used(u, c, size) == IF c = NULL THEN u ELSE Put(u, c, size)

LEMMA MallocHolds ==
    ASSUME NEW l, NEW p, NEW f, NEW g, NEW u, Holding(l, p, f, g, u),
           NEW size \in Sizes, size # 0
    PROVE  LET t == MallocFrom(At(l, p, f, g, NULL), size)
               v == Used(u, t.chunk, size)
           IN  /\ t.last_page <= MaxLastPage =>
                     Holding(t.list, t.last_page, t.frames, t.pages, v)
               /\ t = At(t.list, t.last_page, t.frames, t.pages, t.chunk)
               /\ DOMAIN v = With(DOMAIN u, t.chunk)
               /\ TookAs(Holes(t.list), Holes(l), DOMAIN u, l, t.list, t.chunk, size + WORD)
               /\ t.chunk # NULL
                    => HolesKept(Holes(t.list), Holes(l), DOMAIN u, l, t.list, t.chunk)
               /\ \A q \in g : q \in t.pages
<1> DEFINE t == MallocFrom(At(l, p, f, g, NULL), size)
           v == Used(u, t.chunk, size)
           A == DOMAIN u
<1>1. /\ Fits(DOMAIN l.mem, Holes(l), A, l, p + PAGE_SIZE, f, g)
      /\ p \in Nat /\ HEAP_START <= p /\ p <= MaxLastPage
      /\ f \in Nat /\ g \in SUBSET Nat
      /\ \A a \in A : u[a] \in Sizes \ {0} /\ Size(l, a) >= u[a] + WORD
  BY DEF Holding
<1>2. size \in Nat /\ HEAP_START \in Nat /\ p >= HEAP_START
  BY <1>1, HeapAssumption
<1>3. /\ \E E, K : /\ Fits(E, K, With(A, t.chunk), t.list,
                           t.last_page + PAGE_SIZE, t.frames, t.pages)
                   /\ TookAs(K, Holes(l), A, l, t.list, t.chunk, size + WORD)
                   /\ t.chunk # NULL => HolesKept(K, Holes(l), A, l, t.list, t.chunk)
      /\ t = At(t.list, t.last_page, t.frames, t.pages, t.chunk)
      /\ t.last_page \in Nat /\ t.last_page >= p /\ t.frames \in Nat
      /\ \A q \in g : q \in t.pages
      /\ \A q \in t.pages : q \in g \/ q \in Nat
  <2> DEFINE H == Holes(l)
             D == DOMAIN l.mem
             z == size
             x == p
             y == f
  <2>1. Fits(D, H, A, l, x + PAGE_SIZE, y, g) /\ x \in Nat /\ x >= HEAP_START /\ y \in Nat
        /\ z \in Nat
    BY <1>1, <1>2
  <2> HIDE DEF H, D, A, x, y, z
  <2>2. LET m == MallocFrom(At(l, x, y, g, NULL), z)
        IN  /\ \E E, K : /\ Fits(E, K, With(A, m.chunk), m.list,
                                 m.last_page + PAGE_SIZE, m.frames, m.pages)
                         /\ TookAs(K, H, A, l, m.list, m.chunk, z + WORD)
                         /\ m.chunk # NULL => HolesKept(K, H, A, l, m.list, m.chunk)
            /\ m = At(m.list, m.last_page, m.frames, m.pages, m.chunk)
            /\ m.last_page \in Nat /\ m.last_page >= x /\ m.frames \in Nat
            /\ \A q \in g : q \in m.pages
            /\ \A q \in m.pages : q \in g \/ q \in Nat
    BY <2>1, MallocFits
  <2>3. QED
    BY <2>2 DEF H, A, x, y, z
<1> HIDE DEF t
<1>4. PICK E, K : /\ Fits(E, K, With(A, t.chunk), t.list,
                          t.last_page + PAGE_SIZE, t.frames, t.pages)
                  /\ TookAs(K, Holes(l), A, l, t.list, t.chunk, size + WORD)
                  /\ t.chunk # NULL => HolesKept(K, Holes(l), A, l, t.list, t.chunk)
  BY <1>3
<1>5. E = DOMAIN t.list.mem /\ K = Holes(t.list)
  <2> DEFINE top == t.last_page + PAGE_SIZE
             B == With(A, t.chunk)
             m == t.list
             fr == t.frames
             pg == t.pages
  <2>1. Fits(E, K, B, m, top, fr, pg)
    BY <1>4
  <2> HIDE DEF top, B, m, fr, pg
  <2>2. E = DOMAIN m.mem /\ K = Holes(m)
    BY <2>1, FitsHere
  <2>3. QED
    BY <2>2 DEF m
<1>6. DOMAIN v = With(A, t.chunk)
  BY DEF Used, With, Put
<1>7. ASSUME NEW a \in DOMAIN v
      PROVE  v[a] \in Sizes \ {0} /\ Size(t.list, a) >= v[a] + WORD
  <2>1. CASE t.chunk # NULL /\ a = t.chunk
    <3>1. v[a] = size
      BY <2>1 DEF Used, Put
    <3>2. Size(t.list, a) >= size + WORD
      BY <1>4, <2>1 DEF TookAs
    <3>3. QED
      BY <3>1, <3>2
  <2>2. CASE a \in A /\ a # t.chunk
    <3>1. v[a] = u[a]
      BY <1>6, <2>2 DEF Used, Put, With
    <3>2. Size(t.list, a) = Size(l, a)
      BY <1>4, <2>2 DEF TookAs
    <3>3. QED
      BY <1>1, <2>2, <3>1, <3>2
  <2>3. t.chunk # NULL => t.chunk \notin A
    BY <1>4 DEF TookAs
  <2>4. CASE t.chunk = NULL
    <3>1. a \in A /\ v = u /\ Size(t.list, a) = Size(l, a)
      BY <1>4, <1>6, <2>4 DEF TookAs, With, Used
    <3>2. QED
      BY <1>1, <3>1
  <2>5. QED
    BY <1>6, <2>1, <2>2, <2>3, <2>4 DEF With
<1>8. ASSUME t.last_page <= MaxLastPage
      PROVE  Holding(t.list, t.last_page, t.frames, t.pages, v)
  <2>1. /\ t.last_page \in Nat /\ HEAP_START <= t.last_page /\ t.frames \in Nat
        /\ t.pages \in SUBSET Nat
    <3>1. \A q \in t.pages : q \in Nat
      BY <1>1, <1>3
    <3>2. HEAP_START <= t.last_page
      BY <1>1, <1>2, <1>3
    <3>3. QED
      BY <1>3, <3>1, <3>2
  <2> HIDE DEF v
  <2>2. QED
    BY <1>4, <1>5, <1>6, <1>7, <1>8, <2>1 DEF Holding
<1>9. QED
  BY <1>3, <1>4, <1>5, <1>6, <1>8 DEF t

\* free keeps the invariant.
LEMMA FreeHolds ==
    ASSUME NEW l, NEW p, NEW f, NEW g, NEW u, Holding(l, p, f, g, u), NEW c \in DOMAIN u
    PROVE  LET k == FreeFrom(l, c)
           IN  /\ Holding(k, p, f, g, Without(u, c))
               /\ FreedAs(Holes(k), Holes(l), DOMAIN u, l, k, c)
<1> DEFINE k == FreeFrom(l, c)
           A == DOMAIN u
           H == Holes(l)
           D == DOMAIN l.mem
           top == p + PAGE_SIZE
           w == Without(u, c)
<1>1. /\ Fits(D, H, A, l, top, f, g)
      /\ p \in Nat /\ HEAP_START <= p /\ p <= MaxLastPage
      /\ f \in Nat /\ g \in SUBSET Nat
      /\ \A a \in A : u[a] \in Sizes \ {0} /\ Size(l, a) >= u[a] + WORD
  BY DEF Holding
<1>2. /\ PAGE_SIZE \in Nat /\ HEAP_START \in Nat /\ HEAP_START > 0 /\ MaxLastPage \in Nat
      /\ LOW_WORD \in Nat /\ LOW_WORD \notin HEAP_START .. MaxLastPage + PAGE_SIZE
  BY HeapAssumption
<1>3. top \in Nat /\ top <= MaxLastPage + PAGE_SIZE
  BY <1>1, <1>2
<1> HIDE DEF top, H, D
<1>4. Size(l, NULL) # c
  <2>1. c \in Nat /\ c > 0 /\ Size(l, c) \in Nat
    BY <1>1, FitsFacts
  <2>2. c >= HEAP_START /\ c + Size(l, c) <= top
    BY <1>1 DEF Fits, Laid
  <2>3. Size(l, NULL) = LOW_WORD \/ Size(l, NULL) = 0
    BY <1>1 DEF Fits, TailKept
  <2>4. c \in HEAP_START .. MaxLastPage + PAGE_SIZE
    BY <1>2, <1>3, <2>1, <2>2
  <2>5. QED
    BY <1>2, <2>1, <2>3, <2>4
<1>5. \E E, K : Fits(E, K, A \ {c}, k, top, f, g) /\ FreedAs(K, H, A, l, k, c)
  <2> DEFINE x == top
  <2>1. Fits(D, H, A, l, x, f, g) /\ x \in Nat /\ c \in A
    BY <1>1, <1>3
  <2> HIDE DEF x, A
  <2>2. LET m == FreeFrom(l, c)
        IN  \E E, K : Fits(E, K, A \ {c}, m, x, f, g) /\ FreedAs(K, H, A, l, m, c)
    BY <1>4, <2>1, FreeFits
  <2>3. QED
    BY <2>2 DEF x
<1> HIDE DEF k
<1>6. PICK E, K : Fits(E, K, A \ {c}, k, top, f, g) /\ FreedAs(K, H, A, l, k, c)
  BY <1>5
<1>7. DOMAIN w = A \ {c} /\ \A a \in DOMAIN w : w[a] = u[a] /\ a \in A
  BY DEF Without
<1> HIDE DEF w
<1>8. E = DOMAIN k.mem /\ K = Holes(k)
  <2> DEFINE B == A \ {c}
  <2>1. Fits(E, K, B, k, top, f, g)
    BY <1>6
  <2> HIDE DEF B
  <2>2. QED
    BY <2>1, FitsHere
<1>9. \A a \in DOMAIN w : w[a] \in Sizes \ {0} /\ Size(k, a) >= w[a] + WORD
  <2>1. \A a \in DOMAIN w : Size(k, a) = Size(l, a)
    BY <1>6, <1>7 DEF FreedAs
  <2>2. QED
    BY <1>1, <1>7, <2>1
<1>10. Holding(k, p, f, g, w)
  <2>1. Fits(DOMAIN k.mem, Holes(k), DOMAIN w, k, p + PAGE_SIZE, f, g)
    BY <1>6, <1>7, <1>8 DEF top
  <2>2. QED
    BY <1>1, <1>9, <2>1 DEF Holding
<1>11. QED
  BY <1>6, <1>8, <1>10 DEF k, w, H

-----------------------------------------------------------------------------
(* The steps of the heap *)

\* What a step of malloc gives the caller, and what it leaves behind.
MallocStep(size, s) ==
    /\ s = MallocFrom(State, size) /\ s.last_page <= MaxLastPage
    /\ list' = s.list /\ last_page' = s.last_page /\ frames' = s.frames /\ pages' = s.pages
    /\ live' = Used(live, s.chunk, size)
    /\ HeadersFit(list, DOMAIN live)

FreeStep(c) ==
    /\ list' = FreeFrom(list, c) /\ live' = Without(live, c)
    /\ UNCHANGED <<last_page, frames, pages>>
    /\ HeadersFit(list, DOMAIN live)

\* realloc that moves the chunk c.
MoveStep(c, size, s) ==
    /\ s = MallocFrom(State, size) /\ s.last_page <= MaxLastPage /\ s.chunk # NULL
    /\ list' = FreeFrom(s.list, c) /\ last_page' = s.last_page
    /\ frames' = s.frames /\ pages' = s.pages
    /\ live' = Without(Used(live, s.chunk, size), c)
    /\ HeadersFit(list, DOMAIN live)
    /\ HeadersFit(s.list, DOMAIN Used(live, s.chunk, size))

LEMMA StateAt == State = At(list, last_page, frames, pages, NULL)
BY DEF State, At

\* Every step is one of these.
LEMMA StepIs ==
    ASSUME HeapInv, [Next]_vars
    PROVE  \/ UNCHANGED vars
           \/ \E size \in Sizes \ {0} : MallocStep(size, MallocFrom(State, size))
           \/ \E c \in DOMAIN live : FreeStep(c)
           \/ \E c \in DOMAIN live, size \in Sizes \ {0} :
                 MoveStep(c, size, MallocFrom(State, size))
<1>1. ASSUME NEW size \in Sizes, Malloc(size)
      PROVE  size # 0 /\ MallocStep(size, MallocFrom(State, size))
  BY <1>1 DEF Malloc, Becomes, MallocStep, Used
<1>2. ASSUME NEW c \in DOMAIN live, Free(c) PROVE FreeStep(c)
  BY <1>2 DEF Free, FreeStep
<1>3. ASSUME NEW c \in DOMAIN live, NEW size \in Sizes, Realloc(c, size)
      PROVE  /\ size # 0
             /\ \/ MallocStep(size, MallocFrom(State, size))
                \/ MoveStep(c, size, MallocFrom(State, size))
  <2> DEFINE s == MallocFrom(State, size)
             t == [s EXCEPT !.list = FreeFrom(s.list, c)]
             used == Put(live, s.chunk, size)
  <2>1. /\ size # 0
        /\ IF s.chunk = NULL THEN Becomes(s) /\ live' = live
           ELSE IF HeadersFit(s.list, DOMAIN used)
           THEN Becomes(t) /\ live' = Without(used, c)
           ELSE Becomes(s) /\ live' = used
    BY <1>3 DEF Realloc
  <2>2. s = At(s.list, s.last_page, s.frames, s.pages, s.chunk)
    <3>1. LET m == MallocFrom(At(list, last_page, frames, pages, NULL), size)
          IN  m = At(m.list, m.last_page, m.frames, m.pages, m.chunk)
      BY <2>1, MallocHolds DEF HeapInv
    <3>2. QED
      BY <3>1, StateAt
  <2> HIDE DEF s
  <2>3. /\ t.list = FreeFrom(s.list, c) /\ t.last_page = s.last_page
        /\ t.frames = s.frames /\ t.pages = s.pages
    <3> DEFINE a == s.list
               b == s.last_page
               d == s.frames
               e == s.pages
               h == s.chunk
               k == FreeFrom(s.list, c)
    <3>1. s = At(a, b, d, e, h) /\ t = [s EXCEPT !.list = k]
      BY <2>2
    <3> HIDE DEF a, b, d, e, h, k, t
    <3>2. t.list = k /\ t.last_page = b /\ t.frames = d /\ t.pages = e
      BY <3>1 DEF At
    <3>3. QED
      BY <3>2 DEF b, d, e, k
  <2> HIDE DEF t
  <2>4. CASE s.chunk = NULL
    BY <2>1, <2>4 DEF Becomes, MallocStep, Used, s
  <2>5. CASE s.chunk # NULL /\ HeadersFit(s.list, DOMAIN used)
    <3>1. Becomes(t) /\ live' = Without(used, c) /\ used = Used(live, s.chunk, size)
      BY <2>1, <2>5 DEF Used
    <3> HIDE DEF used
    <3>2. MoveStep(c, size, s)
      BY <2>3, <2>5, <3>1 DEF Becomes, MoveStep, s
    <3>3. QED
      BY <2>1, <3>2 DEF s
  <2>6. CASE s.chunk # NULL /\ ~ HeadersFit(s.list, DOMAIN used)
    BY <2>1, <2>6 DEF Becomes, MallocStep, Used, s
  <2>7. QED
    BY <2>4, <2>5, <2>6
<1>4. CASE UNCHANGED vars
  BY <1>4
<1>5. CASE Next
  <2>1. CASE \E size \in Sizes : Malloc(size)
    BY <1>1, <2>1
  <2>2. CASE MallocZero
    BY <2>2 DEF MallocZero
  <2>3. CASE \E c \in DOMAIN live : Free(c)
    BY <1>2, <2>3
  <2>4. CASE \E c \in DOMAIN live, size \in Sizes : Realloc(c, size)
    BY <1>3, <2>4
  <2>5. QED
    BY <1>5, <2>1, <2>2, <2>3, <2>4 DEF Next
<1>6. QED
  BY <1>4, <1>5
LEMMA MallocDoes ==
    ASSUME HeapInv, NEW size \in Sizes \ {0}, NEW s, MallocStep(size, s)
    PROVE  /\ HeapInv' /\ DOMAIN live' = With(DOMAIN live, s.chunk)
           /\ TookAs(Holes(list'), Holes(list), DOMAIN live, list, list', s.chunk, size + WORD)
           /\ \A q \in pages : q \in pages'
<1>1. s = MallocFrom(At(list, last_page, frames, pages, NULL), size)
  BY StateAt DEF MallocStep
<1>2. /\ s.last_page <= MaxLastPage =>
            Holding(s.list, s.last_page, s.frames, s.pages, Used(live, s.chunk, size))
      /\ DOMAIN Used(live, s.chunk, size) = With(DOMAIN live, s.chunk)
      /\ TookAs(Holes(s.list), Holes(list), DOMAIN live, list, s.list, s.chunk, size + WORD)
      /\ \A q \in pages : q \in s.pages
  BY <1>1, MallocHolds DEF HeapInv
<1>3. QED
  BY <1>2 DEF MallocStep, HeapInv

LEMMA FreeDoes ==
    ASSUME HeapInv, NEW c \in DOMAIN live, FreeStep(c)
    PROVE  /\ HeapInv' /\ DOMAIN live' = DOMAIN live \ {c}
           /\ FreedAs(Holes(list'), Holes(list), DOMAIN live, list, list', c)
<1>1. /\ Holding(FreeFrom(list, c), last_page, frames, pages, Without(live, c))
      /\ FreedAs(Holes(FreeFrom(list, c)), Holes(list), DOMAIN live, list, FreeFrom(list, c), c)
  BY FreeHolds DEF HeapInv
<1>2. DOMAIN Without(live, c) = DOMAIN live \ {c}
  BY DEF Without
<1>3. QED
  BY <1>1, <1>2 DEF FreeStep, HeapInv

\* A move is a malloc followed by a free; in between both chunks are in use.
LEMMA MoveDoes ==
    ASSUME HeapInv, NEW c \in DOMAIN live, NEW size \in Sizes \ {0}, NEW s, MoveStep(c, size, s)
    PROVE  LET used == Used(live, s.chunk, size)
           IN  /\ HeapInv' /\ Holding(s.list, s.last_page, s.frames, s.pages, used)
               /\ DOMAIN used = With(DOMAIN live, s.chunk)
               /\ c \in DOMAIN used /\ c # s.chunk
               /\ DOMAIN live' = DOMAIN used \ {c}
               /\ TookAs(Holes(s.list), Holes(list), DOMAIN live, list, s.list, s.chunk, size + WORD)
               /\ HolesKept(Holes(s.list), Holes(list), DOMAIN live, list, s.list, s.chunk)
               /\ FreedAs(Holes(list'), Holes(s.list), DOMAIN used, s.list, list', c)
               /\ \A q \in pages : q \in pages'
<1> DEFINE used == Used(live, s.chunk, size)
<1>1. /\ s = MallocFrom(At(list, last_page, frames, pages, NULL), size)
      /\ s.last_page <= MaxLastPage /\ s.chunk # NULL
      /\ list' = FreeFrom(s.list, c) /\ last_page' = s.last_page
      /\ frames' = s.frames /\ pages' = s.pages
      /\ live' = Without(used, c)
  BY StateAt DEF MoveStep
<1>2. /\ s.last_page <= MaxLastPage =>
            Holding(s.list, s.last_page, s.frames, s.pages, used)
      /\ DOMAIN used = With(DOMAIN live, s.chunk)
      /\ TookAs(Holes(s.list), Holes(list), DOMAIN live, list, s.list, s.chunk, size + WORD)
      /\ s.chunk # NULL => HolesKept(Holes(s.list), Holes(list), DOMAIN live, list, s.list, s.chunk)
      /\ \A q \in pages : q \in s.pages
  BY <1>1, MallocHolds DEF HeapInv
<1>3. c \in DOMAIN used /\ c # s.chunk
  <2>1. s.chunk \notin DOMAIN live
    BY <1>1, <1>2 DEF TookAs
  <2>2. c \in With(DOMAIN live, s.chunk)
    BY DEF With
  <2>3. QED
    BY <1>2, <2>1, <2>2
<1> HIDE DEF used
<1>4. /\ Holding(FreeFrom(s.list, c), s.last_page, s.frames, s.pages, Without(used, c))
      /\ FreedAs(Holes(FreeFrom(s.list, c)), Holes(s.list), DOMAIN used, s.list,
                 FreeFrom(s.list, c), c)
  BY <1>1, <1>2, <1>3, FreeHolds
<1>5. HeapInv' /\ FreedAs(Holes(list'), Holes(s.list), DOMAIN used, s.list, list', c)
  BY <1>1, <1>4 DEF HeapInv
<1>6. DOMAIN live' = DOMAIN used \ {c}
  BY <1>1 DEF Without
<1>7. QED
  BY <1>1, <1>2, <1>3, <1>5, <1>6 DEF used

\* The heap stays a heap: the list leads through all holes that are not lost, in
\* the order of their addresses, chunks and holes lie side by side in mapped
\* pages, and each chunk has room for its size word and what was asked for.  This
\* is the invariant the properties follow from.
THEOREM HeapIsSound == Spec => []HeapInv
<1>1. Init => HeapInv
  BY InitHolds
<1>2. HeapInv /\ [Next]_vars => HeapInv'
  <2>1. SUFFICES ASSUME HeapInv, [Next]_vars PROVE HeapInv'
    OBVIOUS
  <2>2. CASE UNCHANGED vars
    BY <2>1, <2>2 DEF HeapInv, vars
  <2>3. CASE \E size \in Sizes \ {0} : MallocStep(size, MallocFrom(State, size))
    BY <2>1, <2>3, MallocDoes
  <2>4. CASE \E c \in DOMAIN live : FreeStep(c)
    BY <2>1, <2>4, FreeDoes
  <2>5. CASE \E c \in DOMAIN live, size \in Sizes \ {0} :
                MoveStep(c, size, MallocFrom(State, size))
    <3>1. PICK c \in DOMAIN live, size \in Sizes \ {0} :
             MoveStep(c, size, MallocFrom(State, size))
      BY <2>5
    <3>2. QED
      BY <2>1, <3>1, MoveDoes
  <2>6. QED
    BY <2>1, <2>2, <2>3, <2>4, <2>5, StepIs
<1>3. QED
  BY <1>1, <1>2, PTL DEF Spec

-----------------------------------------------------------------------------
(* The properties of the heap *)

LEMMA HeapFacts ==
    ASSUME HeapInv
    PROVE  LET A == DOMAIN live
               H == Holes(list)
               D == DOMAIN list.mem
           IN  /\ \A a \in A \cup H : /\ a \in Nat /\ a > 0 /\ Size(list, a) \in Nat
                                      /\ Size(list, a) > 0
               /\ \A a \in A : a \notin H
               /\ \A a, b \in A \cup H : a < b => a + Size(list, a) <= b
               /\ Backed(list, A \cup H, pages)
               /\ Nodes(D, H) /\ list \in ListOn(D) /\ Linked(list, H) /\ D \in SUBSET Nat
               /\ ~ OutOfMemory => Sound(list, H)
               /\ OutOfMemory => Size(list, NULL) = 0
<1> DEFINE A == DOMAIN live
           H == Holes(list)
           D == DOMAIN list.mem
           top == last_page + PAGE_SIZE
<1>1. Fits(D, H, A, list, top, frames, pages)
  BY DEF HeapInv, Holding
<1> HIDE DEF A, H, D, top
<1>2. /\ \A a \in A \cup H : a \in Nat /\ a > 0 /\ Size(list, a) \in Nat /\ Size(list, a) > 0
      /\ \A a \in A : a \notin H
      /\ D \in SUBSET Nat
  BY <1>1, FitsFacts
<1>3. /\ \A a, b \in A \cup H : a < b => a + Size(list, a) <= b
      /\ Backed(list, A \cup H, pages)
      /\ Nodes(D, H) /\ list \in ListOn(D) /\ Linked(list, H)
  BY <1>1 DEF Fits, Laid
<1>4. TailKept(D, H, A \cup H, list, frames)
  BY <1>1 DEF Fits
<1>5. LOW_WORD # 0
  BY HeapAssumption
<1>6. (~ OutOfMemory => Sound(list, H)) /\ (OutOfMemory => Size(list, NULL) = 0)
  BY <1>4, <1>5 DEF TailKept, OutOfMemory
<1>7. QED
  BY <1>2, <1>3, <1>6 DEF A, H, D

\* Chunks in use and holes never share a byte, and every byte of them is mapped:
\* first fit, split, merge and extend_heap keep them apart for all sizes.
THEOREM NothingOverlaps == Spec => []NoOverlap
<1>1. ASSUME HeapInv PROVE NoOverlap
  <2> DEFINE S == DOMAIN live \cup Holes(list)
  <2>1. /\ \A a \in S : a \in Nat /\ Size(list, a) \in Nat
        /\ \A a \in DOMAIN live : a \notin Holes(list)
        /\ \A a, b \in S : a < b => a + Size(list, a) <= b
        /\ Backed(list, S, pages)
    BY <1>1, HeapFacts
  <2>2. \A x \in Chunks \cup ListedHoles : \E a \in S : x = Extent(a)
    BY DEF Chunks, ListedHoles
  <2> HIDE DEF S
  <2>3. \A a : Extent(a).addr = a /\ Extent(a).size = Size(list, a)
    BY DEF Extent
  <2>4. ASSUME NEW x \in Chunks \cup ListedHoles PROVE Span(x) \subseteq MappedBytes
    <3>1. PICK a \in S : x = Extent(a)
      BY <2>2
    <3>2. ASSUME NEW b \in Span(x) PROVE b \in MappedBytes
      <4>1. b \in a .. a + Size(list, a) - 1
        BY <2>3, <3>1, <3>2 DEF Span
      <4>2. b \in Nat /\ a <= b /\ b < a + Size(list, a)
        BY <2>1, <4>1
      <4>3. PICK p \in pages : p <= b /\ b < p + PAGE_SIZE
        BY <2>1, <4>2 DEF Backed
      <4>4. p \in Nat /\ PAGE_SIZE \in Nat
        BY <1>1, HeapAssumption DEF HeapInv, Holding
      <4>5. b \in p .. p + PAGE_SIZE - 1
        BY <4>2, <4>3, <4>4
      <4>6. QED
        BY <4>5 DEF MappedBytes
    <3>3. QED
      BY <3>2
  <2>5. ASSUME NEW x \in Chunks \cup ListedHoles, NEW y \in Chunks \cup ListedHoles, x # y
        PROVE  Span(x) \cap Span(y) = {}
    <3>1. PICK a \in S, b \in S : x = Extent(a) /\ y = Extent(b)
      BY <2>2
    <3>2. a # b
      BY <2>5, <3>1
    <3>3. a + Size(list, a) <= b \/ b + Size(list, b) <= a
      BY <2>1, <3>2
    <3>4. Span(x) = a .. a + Size(list, a) - 1 /\ Span(y) = b .. b + Size(list, b) - 1
      BY <2>3, <3>1 DEF Span
    <3>5. QED
      BY <2>1, <3>3, <3>4
  <2>6. QED
    BY <2>1, <2>4, <2>5 DEF NoOverlap
<1>2. QED
  BY <1>1, HeapIsSound, PTL

\* The second search of malloc, after an extension that got all its pages, finds a
\* hole whatever the size: the recursion ends.
THEOREM OneExtensionServes == Spec => []ExtensionServes
<1>1. ASSUME HeapInv PROVE ExtensionServes
  <2>1. SUFFICES ASSUME NEW size \in Sizes \ {0},
                        PagesDone(State, size + WORD) = PagesFor(size + WORD)
                 PROVE  FirstFit(ExtendHeap(State, size + WORD).list, size + WORD) # NULL
    BY DEF ExtensionServes
  <2> DEFINE r == size + WORD
             D == DOMAIN list.mem
             H == Holes(list)
             A == DOMAIN live
             x == last_page
             y == frames
  <2>2. r \in Nat
    BY HeapAssumption
  <2>3. /\ Fits(D, H, A, list, x + PAGE_SIZE, y, pages) /\ x \in Nat /\ x >= HEAP_START
        /\ y \in Nat
    BY <1>1, HeapAssumption DEF HeapInv, Holding
  <2>4. State = At(list, x, y, pages, NULL) /\ PagesDone(State, r) = PagesFor(r)
    BY <2>1, StateAt
  <2> HIDE DEF r, D, H, A, x, y
  <2>5. PagesDone(At(list, x, y, pages, NULL), r) = PagesFor(r)
    BY <2>4
  <2>6. FirstFit(ExtendHeap(At(list, x, y, pages, NULL), r).list, r) # NULL
    BY <2>2, <2>3, <2>5, ExtensionIsEnough
  <2>7. FirstFit(ExtendHeap(State, r).list, r) # NULL
    BY <2>4, <2>6
  <2>8. QED
    BY <2>7 DEF r
<1>2. QED
  BY <1>1, HeapIsSound, PTL

\* Until memory has run out, insertion, removal and merging keep the list sorted,
\* its links agreeing and its ends at the head and the tail.
THEOREM ListStaysIntact == Spec => []ListIntact
<1>1. ASSUME HeapInv PROVE ListIntact
  <2> DEFINE holes == Holes(list)
             D == DOMAIN list.mem
  <2>1. SUFFICES ASSUME ~ OutOfMemory
                 PROVE  /\ IF holes = {} THEN list.head = NULL /\ list.tail = NULL
                           ELSE /\ list.head \in holes /\ \A h \in holes : list.head <= h
                                /\ list.tail \in holes /\ \A h \in holes : h <= list.tail
                        /\ \A h \in holes :
                              /\ NextOf(list, h) = FirstNode(list, LAMBDA n : h < n)
                              /\ PrevOf(list, h) # NULL => NextOf(list, PrevOf(list, h)) = h
                              /\ PrevOf(list, h) = NULL <=> h = list.head
    BY DEF ListIntact
  <2>2. /\ Nodes(D, holes) /\ list \in ListOn(D) /\ Linked(list, holes) /\ Sound(list, holes)
        /\ \A h \in holes : h \in Nat /\ h > 0
    BY <1>1, <2>1, HeapFacts
  <2> HIDE DEF holes, D
  <2>3. IsNext(holes, NULL, list.head)
    BY <2>2 DEF Linked
  <2>4. IF holes = {} THEN list.head = NULL
        ELSE list.head \in holes /\ \A h \in holes : list.head <= h
    <3>1. CASE list.head = NULL
      <4>1. \A g \in holes : g <= NULL
        BY <2>3, <3>1 DEF IsNext
      <4>2. holes = {}
        BY <2>2, <4>1 DEF NULL
      <4>3. QED
        BY <3>1, <4>2
    <3>2. CASE list.head # NULL
      <4>1. list.head \in holes /\ \A g \in holes : g <= NULL \/ list.head <= g
        BY <2>3, <3>2 DEF IsNext
      <4>2. \A g \in holes : list.head <= g
        BY <2>2, <4>1 DEF NULL
      <4>3. QED
        BY <4>1, <4>2
    <3>3. QED
      BY <3>1, <3>2
  <2>5. IF holes = {} THEN list.tail = NULL
        ELSE list.tail \in holes /\ \A h \in holes : h <= list.tail
    BY <2>2 DEF Sound
  <2>6. ASSUME NEW h \in holes PROVE NextOf(list, h) = FirstNode(list, LAMBDA n : h < n)
    <3> DEFINE m == FirstNode(list, LAMBDA n : h < n)
               n == NextOf(list, h)
    <3>1. IsNext(holes, h, m)
      <4> DEFINE x == h
      <4>1. x \in Nat
        BY <2>2
      <4> HIDE DEF x
      <4>2. IsNext(holes, x, FirstNode(list, LAMBDA q : x < q))
        BY <2>2, <4>1, FirstAbove
      <4>3. QED
        BY <4>2 DEF x
    <3>2. IsNext(holes, h, n)
      BY <2>2 DEF Linked
    <3> HIDE DEF m, n
    <3>3. n = m
      <4>1. h \in Nat /\ \A g \in holes : g \in Nat
        BY <2>2
      <4>2. CASE n = NULL
        <5>1. \A g \in holes : g <= h
          BY <3>2, <4>2 DEF IsNext
        <5>2. m # NULL => m \in holes /\ h < m
          BY <3>1 DEF IsNext
        <5>3. m # NULL => m \in Nat /\ m <= h /\ h < m
          BY <4>1, <5>1, <5>2
        <5>4. m = NULL
          BY <4>1, <5>3
        <5>5. QED
          BY <4>2, <5>4
      <4>3. CASE m = NULL
        <5>1. \A g \in holes : g <= h
          BY <3>1, <4>3 DEF IsNext
        <5>2. n # NULL => n \in holes /\ h < n
          BY <3>2 DEF IsNext
        <5>3. n # NULL => n \in Nat /\ n <= h /\ h < n
          BY <4>1, <5>1, <5>2
        <5>4. n = NULL
          BY <4>1, <5>3
        <5>5. QED
          BY <4>3, <5>4
      <4>4. CASE n # NULL /\ m # NULL
        <5>1. n \in holes /\ h < n /\ \A g \in holes : g <= h \/ n <= g
          BY <3>2, <4>4 DEF IsNext
        <5>2. m \in holes /\ h < m /\ \A g \in holes : g <= h \/ m <= g
          BY <3>1, <4>4 DEF IsNext
        <5>3. n <= m /\ m <= n
          BY <4>1, <5>1, <5>2
        <5>4. QED
          BY <4>1, <5>1, <5>2, <5>3
      <4>5. QED
        BY <4>2, <4>3, <4>4
    <3>4. QED
      BY <3>3 DEF m, n
  <2>7. ASSUME NEW h \in holes
        PROVE  /\ PrevOf(list, h) # NULL => NextOf(list, PrevOf(list, h)) = h
               /\ PrevOf(list, h) = NULL <=> h = list.head
    <3>1. /\ (h = list.head) <=> (PrevOf(list, h) = NULL)
          /\ \A g \in holes : (NextOf(list, g) = h) <=> (PrevOf(list, h) = g)
      BY <2>2, LinksAgree
    <3>2. PrevOf(list, h) # NULL => PrevOf(list, h) \in holes
      BY <2>2 DEF Linked, IsPrev
    <3>3. QED
      BY <3>1, <3>2
  <2>8. QED
    BY <2>4, <2>5, <2>6, <2>7
<1>2. QED
  BY <1>1, HeapIsSound, PTL

\* RoomForHeader, in terms of addresses.
Roomy ==
    \A a \in DOMAIN live \cup Holes(list) :
       \/ Size(list, a) >= HEADER
       \/ a \in Holes(list) /\ \E c \in DOMAIN live : c + HEADER = a /\ live[c] + WORD < HEADER

LEMMA RoomyIs ==
    ASSUME HeapInv, Roomy
    PROVE  RoomForHeader
<1>1. SUFFICES ASSUME NEW x \in Chunks \cup ListedHoles, x.size < HEADER
               PROVE  /\ x \in ListedHoles
                      /\ \E c \in Allocations : c.addr + HEADER = x.addr /\ c.asked + WORD < HEADER
  BY DEF RoomForHeader
<1>2. PICK a \in DOMAIN live \cup Holes(list) : x = Extent(a)
  BY DEF Chunks, ListedHoles
<1>3. x.size = Size(list, a) /\ x.addr = a
  BY <1>2 DEF Extent
<1>4. ~ (Size(list, a) >= HEADER)
  <2>1. Size(list, a) \in Nat /\ HEADER \in Nat
    BY HeapFacts, HeapAssumption
  <2>2. QED
    BY <1>1, <1>3, <2>1
<1>5. PICK c \in DOMAIN live : a \in Holes(list) /\ c + HEADER = a /\ live[c] + WORD < HEADER
  BY <1>4 DEF Roomy
<1>6. x \in ListedHoles
  BY <1>2, <1>5 DEF ListedHoles
<1> DEFINE r == [addr |-> c, size |-> Size(list, c), asked |-> live[c]]
<1>7. r \in Allocations
  BY DEF Allocations
<1>8. r.addr = c /\ r.asked = live[c]
  OBVIOUS
<1> HIDE DEF r
<1>9. r.addr + HEADER = x.addr /\ r.asked + WORD < HEADER
  BY <1>3, <1>5, <1>8
<1>10. QED
  BY <1>6, <1>7, <1>9

\* Every hole and every chunk keeps room for a header, whatever is split and
\* merged, but for the hole right behind a chunk that was asked for less.
THEOREM RoomIsKept == Spec => []RoomForHeader
<1>1. Init => Roomy
  <2>1. SUFFICES ASSUME Init PROVE Roomy
    OBVIOUS
  <2>2. HeapInv /\ DOMAIN live = {}
    BY <2>1, InitHolds DEF Init
  <2>3. ASSUME NEW a \in Holes(list) PROVE Size(list, a) >= HEADER
    <3>1. a \in DOMAIN list.mem \ {NULL}
      BY <2>2, HeapFacts DEF Nodes
    <3>2. a = HEAP_START /\ HEAP_START # NULL
      BY <2>1, <3>1 DEF Init
    <3>3. Size(list, a) = PAGE_SIZE
      BY <2>1, <3>2 DEF Init, Size
    <3>4. QED
      BY <3>3, HeapAssumption
  <2>4. QED
    BY <2>2, <2>3 DEF Roomy
<1>2. HeapInv /\ Roomy /\ [Next]_vars => Roomy'
  <2>1. SUFFICES ASSUME HeapInv, Roomy, [Next]_vars PROVE Roomy'
    OBVIOUS
  <2>2. CASE UNCHANGED vars
    BY <2>1, <2>2 DEF Roomy, vars
  <2>3. ASSUME NEW size \in Sizes \ {0}, NEW s, MallocStep(size, s) PROVE Roomy'
    <3>1. /\ DOMAIN live' = With(DOMAIN live, s.chunk)
          /\ TookAs(Holes(list'), Holes(list), DOMAIN live, list, list', s.chunk, size + WORD)
      BY <2>1, <2>3, MallocDoes
    <3>2. \A a \in DOMAIN live \cup Holes(list) : Size(list, a) >= HEADER
      BY <2>3 DEF MallocStep, HeadersFit
    <3>3. ASSUME NEW a \in DOMAIN live' \cup Holes(list')
          PROVE  \/ Size(list', a) >= HEADER
                 \/ a \in Holes(list') /\ \E c \in DOMAIN live' : c + HEADER = a /\ live'[c] + WORD < HEADER
      <4>1. CASE /\ a \in Holes(list') /\ s.chunk # NULL /\ a = s.chunk + HEADER
                 /\ size + WORD < HEADER
        <5>1. s.chunk \in DOMAIN live'
          BY <3>1, <4>1 DEF With
        <5>2. live'[s.chunk] = size
          BY <2>3, <4>1 DEF MallocStep, Used, Put
        <5>3. QED
          BY <4>1, <5>1, <5>2
      <4>2. QED
        BY <3>1, <3>2, <3>3, <4>1 DEF TookAs
    <3>4. QED
      BY <3>3 DEF Roomy
  <2>4. ASSUME NEW c \in DOMAIN live, FreeStep(c) PROVE Roomy'
    <3>1. /\ HeapInv' /\ DOMAIN live' = DOMAIN live \ {c}
          /\ FreedAs(Holes(list'), Holes(list), DOMAIN live, list, list', c)
      BY <2>1, <2>4, FreeDoes
    <3>2. \A a \in DOMAIN live \cup Holes(list) : Size(list, a) >= HEADER /\ Size(list, a) \in Nat
      BY <2>1, <2>4, HeapFacts DEF FreeStep, HeadersFit
    <3>3. \A a \in DOMAIN live' \cup Holes(list') : Size(list', a) >= HEADER
      <4>1. \A a \in DOMAIN live' \cup Holes(list') :
               Size(list', a) \in Nat /\ Size(list', a) >= Size(list, a)
               /\ a \in DOMAIN live \cup Holes(list)
        BY <3>1 DEF FreedAs
      <4>2. QED
        BY <3>2, <4>1, HeapAssumption
    <3>4. QED
      BY <3>3 DEF Roomy
  <2>5. ASSUME NEW c \in DOMAIN live, NEW size \in Sizes \ {0}, NEW s, MoveStep(c, size, s)
        PROVE  Roomy'
    <3> DEFINE used == Used(live, s.chunk, size)
    <3>1. /\ HeapInv' /\ Holding(s.list, s.last_page, s.frames, s.pages, used)
          /\ c \in DOMAIN used
          /\ DOMAIN live' = DOMAIN used \ {c}
          /\ FreedAs(Holes(list'), Holes(s.list), DOMAIN used, s.list, list', c)
      BY <2>1, <2>5, MoveDoes
    <3>2. \A a \in DOMAIN used \cup Holes(s.list) : Size(s.list, a) >= HEADER
      BY <2>5 DEF MoveStep, HeadersFit
    <3> HIDE DEF used
    <3>3. \A a \in DOMAIN used \cup Holes(s.list) : Size(s.list, a) \in Nat
      <4> DEFINE A == DOMAIN used
                 H == Holes(s.list)
                 D == DOMAIN s.list.mem
                 top == s.last_page + PAGE_SIZE
                 l == s.list
                 f == s.frames
                 g == s.pages
      <4>1. Fits(D, H, A, l, top, f, g)
        BY <3>1 DEF Holding
      <4> HIDE DEF A, H, D, top, l, f, g
      <4>2. \A a \in A \cup H : Size(l, a) \in Nat
        BY <4>1, FitsFacts
      <4>3. QED
        BY <4>2 DEF A, H, l
    <3>4. \A a \in DOMAIN live' \cup Holes(list') : Size(list', a) >= HEADER
      <4>1. \A a \in DOMAIN live' \cup Holes(list') :
               Size(list', a) \in Nat /\ Size(list', a) >= Size(s.list, a)
               /\ a \in DOMAIN used \cup Holes(s.list)
        BY <3>1 DEF FreedAs
      <4>2. QED
        BY <3>2, <3>3, <4>1, HeapAssumption
    <3>5. QED
      BY <3>4 DEF Roomy
  <2>6. QED
    BY <2>1, <2>2, <2>3, <2>4, <2>5, StepIs
<1>3. Spec => []Roomy
  BY <1>1, <1>2, HeapIsSound, PTL DEF Spec
<1>4. HeapInv /\ Roomy => RoomForHeader
  BY RoomyIs
<1>5. QED
  BY <1>3, <1>4, HeapIsSound, PTL
-----------------------------------------------------------------------------
(* The promise of heap.h *)

LEMMA HoldingFacts ==
    ASSUME NEW l, NEW p, NEW f, NEW g, NEW u, Holding(l, p, f, g, u)
    PROVE  LET S == DOMAIN u \cup Holes(l)
           IN  /\ \A a \in S : a \in Nat /\ a > 0 /\ Size(l, a) \in Nat /\ Size(l, a) > 0
               /\ \A a \in DOMAIN u : a \notin Holes(l) /\ Size(l, a) >= u[a] + WORD
               /\ \A a, b \in S : a < b => a + Size(l, a) <= b
               /\ \A a \in S, b \in Nat : a <= b /\ b < a + Size(l, a)
                     => \E q \in g : q <= b /\ b < q + PAGE_SIZE
               /\ g \in SUBSET Nat
               /\ Size(l, NULL) # LOW_WORD <=> Size(l, NULL) = 0
<1> DEFINE A == DOMAIN u
           H == Holes(l)
           D == DOMAIN l.mem
           top == p + PAGE_SIZE
<1>1. /\ Fits(D, H, A, l, top, f, g) /\ g \in SUBSET Nat
      /\ \A a \in A : Size(l, a) >= u[a] + WORD
  BY DEF Holding
<1> HIDE DEF A, H, D, top
<1>2. /\ \A a \in A \cup H : a \in Nat /\ a > 0 /\ Size(l, a) \in Nat /\ Size(l, a) > 0
      /\ \A a \in A : a \notin H
  BY <1>1, FitsFacts
<1>3. /\ \A a, b \in A \cup H : a < b => a + Size(l, a) <= b
      /\ \A a \in A \cup H, b \in Nat : a <= b /\ b < a + Size(l, a)
            => \E q \in g : q <= b /\ b < q + PAGE_SIZE
      /\ Size(l, NULL) = LOW_WORD \/ Size(l, NULL) = 0
  BY <1>1 DEF Fits, Laid, Backed, TailKept
<1>4. LOW_WORD # 0
  BY HeapAssumption
<1>5. Size(l, NULL) # LOW_WORD <=> Size(l, NULL) = 0
  BY <1>3, <1>4
<1>6. QED
  BY <1>1, <1>2, <1>3, <1>5 DEF A, H

Alloc(l, u, a) == [addr |-> a, size |-> Size(l, a), asked |-> u[a]]

LEMMA AllocFields ==
    ASSUME NEW l, NEW u, NEW a
    PROVE  /\ Alloc(l, u, a).addr = a /\ Alloc(l, u, a).size = Size(l, a)
           /\ Alloc(l, u, a).asked = u[a]
BY DEF Alloc

\* What is mapped stays mapped.
LEMMA MappedGrows ==
    ASSUME \A q \in pages : q \in pages'
    PROVE  MappedBytes \subseteq MappedBytes'
BY DEF MappedBytes

\* A new chunk at d, with the size n and the chunks of A beside it, may be handed
\* out.
LEMMA SuitableChunk ==
    ASSUME HeapInv', NEW d \in DOMAIN live',
           \A a \in DOMAIN live :
              a # d /\ a \in Nat /\ Size(list, a) \in Nat
              /\ (a + Size(list, a) <= d \/ d + Size(list', d) <= a)
    PROVE  Promise!Suitable(Alloc(list', live', d))
<1> DEFINE r == Alloc(list', live', d)
<1>1. Holding(list', last_page', frames', pages', live')
  BY DEF HeapInv
<1>2. /\ d \in Nat /\ Size(list', d) \in Nat /\ Size(list', d) >= live'[d] + WORD
      /\ \A b \in Nat : d <= b /\ b < d + Size(list', d)
            => \E q \in pages' : q <= b /\ b < q + PAGE_SIZE
      /\ pages' \in SUBSET Nat
  <2>1. LET S == DOMAIN live' \cup Holes(list')
        IN  /\ \A a \in S : a \in Nat /\ Size(list', a) \in Nat
            /\ \A a \in DOMAIN live' : Size(list', a) >= live'[a] + WORD
            /\ \A a \in S, b \in Nat : a <= b /\ b < a + Size(list', a)
                  => \E q \in pages' : q <= b /\ b < q + PAGE_SIZE
            /\ pages' \in SUBSET Nat
    BY <1>1, HoldingFacts
  <2>2. QED
    BY <2>1
<1>3. r.addr = d /\ r.size = Size(list', d) /\ r.asked = live'[d]
  BY AllocFields
<1> HIDE DEF r
<1>4. Promise!Bytes(r) = d .. d + Size(list', d) - 1
  BY <1>3 DEF Promise!Bytes
<1>5. Promise!Bytes(r) \subseteq MappedBytes'
  <2>1. ASSUME NEW b \in Promise!Bytes(r) PROVE b \in MappedBytes'
    <3>1. b \in Nat /\ d <= b /\ b < d + Size(list', d)
      BY <1>2, <1>4, <2>1
    <3>2. PICK q \in pages' : q <= b /\ b < q + PAGE_SIZE
      BY <1>2, <3>1
    <3>3. q \in Nat /\ PAGE_SIZE \in Nat
      BY <1>2, HeapAssumption
    <3>4. b \in q .. q + PAGE_SIZE - 1
      BY <3>1, <3>2, <3>3
    <3>5. QED
      BY <3>4 DEF MappedBytes
  <2>2. QED
    BY <2>1
<1>6. ASSUME NEW e \in Allocations PROVE Promise!Bytes(r) \cap Promise!Bytes(e) = {}
  <2>1. PICK a \in DOMAIN live : e = Alloc(list, live, a)
    BY DEF Allocations, Alloc
  <2>2. Promise!Bytes(e) = a .. a + Size(list, a) - 1
    BY <2>1, AllocFields DEF Promise!Bytes
  <2>3. QED
    BY <1>2, <1>4, <2>2
<1>7. r.size >= r.asked + WORD
  BY <1>2, <1>3
<1>8. QED
  BY <1>5, <1>6, <1>7 DEF Promise!Suitable, r

\* malloc, free and realloc do what heap.h promises: what a caller gets is mapped,
\* large enough and apart from everything that is in use, for all sizes; and until
\* it is freed nobody else's calls change that.
THEOREM PromiseIsKept == Spec => ImplementsHeapPromise
<1>1. Init => Promise!Init
  <2>1. SUFFICES ASSUME Init PROVE Promise!Init
    OBVIOUS
  <2>2. DOMAIN live = {} /\ pages = {HEAP_START}
    BY <2>1 DEF Init
  <2>3. Allocations = {}
    BY <2>2 DEF Allocations
  <2>4. MappedBytes \in SUBSET Nat
    <3>1. \A b \in HEAP_START .. HEAP_START + PAGE_SIZE - 1 : b \in Nat
      BY HeapAssumption
    <3>2. QED
      BY <2>2, <3>1 DEF MappedBytes
  <2>5. QED
    BY <2>3, <2>4 DEF Promise!Init
<1>2. HeapInv /\ HeapInv' /\ [Next]_vars => [Promise!Next]_Promise!vars
  <2>1. SUFFICES ASSUME HeapInv, HeapInv', [Next]_vars PROVE [Promise!Next]_Promise!vars
    OBVIOUS
  <2>2. CASE UNCHANGED vars
    BY <2>2 DEF vars, Promise!vars, Allocations, MappedBytes
  <2> DEFINE A == DOMAIN live
  <2>3. /\ \A a \in A : a \in Nat /\ Size(list, a) \in Nat
        /\ Allocations = {Alloc(list, live, a) : a \in A}
        /\ Allocations' = {Alloc(list', live', a) : a \in DOMAIN live'}
    <3>1. \A a \in A : a \in Nat /\ Size(list, a) \in Nat
      BY <2>1, HoldingFacts DEF HeapInv
    <3>2. QED
      BY <3>1 DEF Allocations, Alloc
  <2>4. ASSUME NEW size \in Sizes \ {0}, NEW s, MallocStep(size, s)
        PROVE  [Promise!Next]_Promise!vars
    <3> DEFINE d == s.chunk
    <3>1. /\ DOMAIN live' = With(A, d) /\ \A q \in pages : q \in pages'
          /\ TookAs(Holes(list'), Holes(list), A, list, list', d, size + WORD)
      BY <2>1, <2>4, MallocDoes
    <3>2. MappedBytes \subseteq MappedBytes'
      BY <3>1, MappedGrows
    <3>3. live' = Used(live, d, size)
      BY <2>4 DEF MallocStep
    <3> HIDE DEF d
    <3>4. CASE d = NULL
      <4>1. live' = live /\ \A a \in A : Size(list', a) = Size(list, a)
        BY <3>1, <3>3, <3>4 DEF Used, TookAs
      <4>2. Allocations' = Allocations
        BY <2>3, <4>1 DEF Alloc
      <4>3. Promise!MallocFails
        BY <3>2, <4>2 DEF Promise!MallocFails
      <4>4. QED
        BY <4>3 DEF Promise!Next
    <3>5. CASE d # NULL
      <4> DEFINE r == Alloc(list', live', d)
      <4>1. DOMAIN live' = A \cup {d} /\ d \notin A
        BY <3>1, <3>5 DEF With, TookAs
      <4>2. \A a \in A : live'[a] = live[a] /\ Size(list', a) = Size(list, a)
        BY <3>1, <3>3, <3>5, <4>1 DEF Used, Put, TookAs
      <4>3. \A a \in A : Alloc(list', live', a) = Alloc(list, live, a)
        BY <4>2 DEF Alloc
      <4>4. Allocations' = Allocations \cup {r}
        BY <2>3, <4>1, <4>3
      <4>5. r \notin Allocations
        BY <2>3, <4>1, AllocFields
      <4>6. \A a \in A : /\ a # d /\ a \in Nat /\ Size(list, a) \in Nat
                         /\ a + Size(list, a) <= d \/ d + Size(list', d) <= a
        <5>1. \A a, b \in DOMAIN live' : a < b => a + Size(list', a) <= b
          BY <2>1, HoldingFacts DEF HeapInv
        <5>2. d \in Nat /\ Size(list', d) \in Nat /\ d \in DOMAIN live'
          BY <2>1, <4>1, HoldingFacts DEF HeapInv
        <5>3. QED
          BY <2>3, <4>1, <4>2, <5>1, <5>2
      <4>7. Promise!Suitable(r)
        BY <2>1, <4>1, <4>6, SuitableChunk
      <4>8. r \in Allocations' \ Allocations
        BY <4>4, <4>5
      <4> HIDE DEF r
      <4>9. Promise!Malloc(r)
        BY <3>2, <4>4, <4>7 DEF Promise!Malloc
      <4>10. QED
        BY <4>8, <4>9 DEF Promise!Next
    <3>6. QED
      BY <3>4, <3>5
  <2>5. ASSUME NEW c \in A, FreeStep(c)
        PROVE  [Promise!Next]_Promise!vars
    <3> DEFINE r == Alloc(list, live, c)
    <3>1. /\ DOMAIN live' = A \ {c}
          /\ FreedAs(Holes(list'), Holes(list), A, list, list', c)
      BY <2>1, <2>5, FreeDoes
    <3>2. \A a \in A \ {c} : live'[a] = live[a] /\ Size(list', a) = Size(list, a)
      BY <2>5, <3>1 DEF FreeStep, Without, FreedAs
    <3>3. \A a \in A \ {c} : Alloc(list', live', a) = Alloc(list, live, a)
      BY <3>2 DEF Alloc
    <3>4. \A a \in A \ {c} : Alloc(list, live, a) # r
      BY AllocFields
    <3>5. Allocations' = Allocations \ {r} /\ r \in Allocations
      BY <2>3, <3>1, <3>3, <3>4
    <3>6. MappedBytes' = MappedBytes
      BY <2>5 DEF FreeStep, MappedBytes
    <3> HIDE DEF r
    <3>7. Promise!Free(r)
      BY <3>5, <3>6 DEF Promise!Free
    <3>8. QED
      BY <3>5, <3>7 DEF Promise!Next
  <2>6. ASSUME NEW c \in A, NEW size \in Sizes \ {0}, NEW s, MoveStep(c, size, s)
        PROVE  [Promise!Next]_Promise!vars
    <3> DEFINE d == s.chunk
               used == Used(live, d, size)
               m == s.list
               r == Alloc(list, live, c)
               t == Alloc(list', live', d)
    <3>1. /\ Holding(m, s.last_page, s.frames, s.pages, used)
          /\ DOMAIN used = With(A, d)
          /\ c \in DOMAIN used /\ c # d
          /\ DOMAIN live' = DOMAIN used \ {c}
          /\ TookAs(Holes(m), Holes(list), A, list, m, d, size + WORD)
          /\ FreedAs(Holes(list'), Holes(m), DOMAIN used, m, list', c)
          /\ \A q \in pages : q \in pages'
      BY <2>1, <2>6, MoveDoes
    <3>2. MappedBytes \subseteq MappedBytes'
      BY <3>1, MappedGrows
    <3>3. live' = Without(used, c) /\ d # NULL
      BY <2>6 DEF MoveStep
    <3>4. \A a \in DOMAIN used \ {c} : live'[a] = used[a]
      BY <3>1, <3>3 DEF Without
    <3>5. DOMAIN used = A \cup {d} /\ d \notin A /\ \A a \in A : used[a] = live[a]
      <4>1. d \notin A /\ DOMAIN used = A \cup {d}
        BY <3>1, <3>3 DEF With, TookAs
      <4>2. QED
        BY <3>3, <4>1 DEF Used, Put
    <3> HIDE DEF d, used, m
    <3>6. /\ \A a \in A : Size(m, a) = Size(list, a)
          /\ \A a \in DOMAIN used \ {c} : Size(list', a) = Size(m, a)
      BY <3>1 DEF TookAs, FreedAs
    <3>7. \A a \in A \ {c} : Alloc(list', live', a) = Alloc(list, live, a)
      <4>1. \A a \in A \ {c} : live'[a] = live[a] /\ Size(list', a) = Size(list, a)
        BY <3>4, <3>5, <3>6
      <4>2. QED
        BY <4>1 DEF Alloc
    <3>8. DOMAIN live' = (A \ {c}) \cup {d} /\ d \in DOMAIN live' /\ c \in A
      BY <3>1, <3>5
    <3>9. \A a \in A \ {c} : Alloc(list, live, a) # r
      BY AllocFields
    <3>10. Allocations' = (Allocations \ {r}) \cup {t} /\ r \in Allocations
      BY <2>3, <3>7, <3>8, <3>9
    <3>11. t \notin Allocations /\ t \in Allocations'
      BY <2>3, <3>5, <3>10, AllocFields
    <3>12. \A a \in A : /\ a # d /\ a \in Nat /\ Size(list, a) \in Nat
                        /\ a + Size(list, a) <= d \/ d + Size(list', d) <= a
      <4>1. \A a, b \in DOMAIN used : a < b => a + Size(m, a) <= b
        BY <3>1, HoldingFacts
      <4>2. d \in Nat /\ d \in DOMAIN used /\ Size(list', d) = Size(m, d)
        BY <2>1, <3>1, <3>5, <3>6, <3>8, HoldingFacts DEF HeapInv
      <4>3. QED
        BY <2>3, <3>5, <3>6, <4>1, <4>2
    <3>13. Promise!Suitable(t)
      BY <2>1, <3>8, <3>12, SuitableChunk
    <3> HIDE DEF r, t
    <3>14. Promise!Realloc(r, t)
      BY <3>2, <3>10, <3>13 DEF Promise!Realloc
    <3>15. QED
      BY <3>10, <3>11, <3>14 DEF Promise!Next
  <2>7. QED
    BY <2>1, <2>2, <2>4, <2>5, <2>6, StepIs
<1>3. QED
  BY <1>1, <1>2, HeapIsSound, PTL DEF Spec, ImplementsHeapPromise, Promise!Spec

\* The bytes of what lies at the addresses in S, written as OwnedBytes is.
BytesOf(l, S) ==
    UNION {x.addr .. x.addr + x.size - 1 : x \in {[addr |-> a, size |-> Size(l, a)] : a \in S}}

LEMMA BytesAre ==
    ASSUME NEW l, NEW S, \A a \in S : a \in Nat /\ Size(l, a) \in Nat
    PROVE  \A b : b \in BytesOf(l, S) <=> b \in Nat /\ Holds(l, S, b)
<1> DEFINE r(a) == [addr |-> a, size |-> Size(l, a)]
           bytes(x) == x.addr .. x.addr + x.size - 1
<1>1. SUFFICES ASSUME NEW b PROVE b \in BytesOf(l, S) <=> b \in Nat /\ Holds(l, S, b)
  OBVIOUS
<1>2. ASSUME NEW a \in S
      PROVE  b \in bytes(r(a)) <=> b \in Nat /\ a <= b /\ b < a + Size(l, a)
  <2>1. a \in Nat /\ Size(l, a) \in Nat
    OBVIOUS
  <2>2. bytes(r(a)) = a .. a + Size(l, a) - 1
    OBVIOUS
  <2> HIDE DEF bytes, r
  <2>3. b \in a .. a + Size(l, a) - 1 <=> b \in Nat /\ a <= b /\ b < a + Size(l, a)
    BY <2>1
  <2>4. QED
    BY <2>2, <2>3
<1>3. b \in BytesOf(l, S) <=> \E a \in S : b \in bytes(r(a))
  BY DEF BytesOf
<1> HIDE DEF bytes, r
<1>4. QED
  BY <1>2, <1>3 DEF Holds

LEMMA OwnedIs ==
    ASSUME NEW l, NEW u, NEW S, S = DOMAIN u \cup Holes(l),
           \A a \in S : a \in Nat /\ Size(l, a) \in Nat
    PROVE  \A b : b \in BytesOf(l, Holes(l)) \cup BytesOf(l, DOMAIN u)
                     <=> b \in Nat /\ Holds(l, S, b)
<1> DEFINE H == Holes(l)
           A == DOMAIN u
<1>1. /\ \A b : b \in BytesOf(l, H) <=> b \in Nat /\ Holds(l, H, b)
      /\ \A b : b \in BytesOf(l, A) <=> b \in Nat /\ Holds(l, A, b)
  BY BytesAre
<1>2. \A a : a \in S <=> a \in A \/ a \in H
  OBVIOUS
<1> HIDE DEF A, H
<1>3. \A b : Holds(l, S, b) <=> Holds(l, H, b) \/ Holds(l, A, b)
  BY <1>2 DEF Holds
<1>4. QED
  BY <1>1, <1>3 DEF A, H

\* What free loses when a chunk at c lies between two holes: the bytes of n.
LEMMA FreeLoses ==
    ASSUME NEW l, NEW p, NEW f, NEW g, NEW u, Holding(l, p, f, g, u), NEW c \in DOMAIN u,
           NEW K, NEW k, FreedAs(K, Holes(l), DOMAIN u, l, k, c), Size(l, NULL) # 0,
           NEW B, B = DOMAIN u \ {c}, NEW S, S = Beside(DOMAIN u, Holes(l)), NEW T, T = Beside(B, K)
    PROVE  \/ \A b \in Nat : Holds(l, S, b) => Holds(k, T, b)
           \/ \E q, n \in Holes(l) :
                 /\ q + Size(l, q) = c /\ c + Size(l, c) = n
                 /\ \A b \in Nat : Holds(l, S, b) /\ ~ Holds(k, T, b)
                                      <=> n <= b /\ b < n + Size(l, n)
<1> DEFINE A == DOMAIN u
           H == Holes(l)
<1>1. S = DOMAIN u \cup Holes(l) /\ T = (DOMAIN u \ {c}) \cup K
  BY DEF Beside
<1>2. /\ \A a \in S : a \in Nat /\ a > 0 /\ Size(l, a) \in Nat /\ Size(l, a) > 0
      /\ \A a \in A : a \notin H
      /\ \A a, b \in S : a < b => a + Size(l, a) <= b
  <2> DEFINE R == DOMAIN u \cup Holes(l)
  <2>1. /\ \A a \in R : a \in Nat /\ a > 0 /\ Size(l, a) \in Nat /\ Size(l, a) > 0
        /\ \A a \in DOMAIN u : a \notin Holes(l)
        /\ \A a, b \in R : a < b => a + Size(l, a) <= b
    BY HoldingFacts
  <2>2. R = S
    BY <1>1
  <2> HIDE DEF R
  <2>3. QED
    BY <2>1, <2>2
<1>3. /\ c \in A /\ c \in S /\ c \notin H /\ K \subseteq H \cup {c}
      /\ \A a \in T : Size(k, a) \in Nat /\ Size(k, a) >= Size(l, a)
      /\ \A a \in A \ {c} : Size(k, a) = Size(l, a)
      /\ \/ \A a \in H \cup {c} :
               \E h \in K : h <= a /\ a + Size(l, a) <= h + Size(k, h)
         \/ \E q, n \in H :
               /\ q + Size(l, q) = c /\ c + Size(l, c) = n /\ K = H \ {n}
               /\ Size(k, q) = Size(l, q) + Size(l, c)
               /\ \A h \in K \ {q} : Size(k, h) = Size(l, h)
  BY <1>2, <1>1 DEF FreedAs
<1>4. /\ \A a : a \in S <=> a \in A \/ a \in H
      /\ \A a : a \in T <=> (a \in A /\ a # c) \/ a \in K
  BY <1>1
<1> HIDE DEF A, H
<1>5. CASE \A a \in H \cup {c} : \E h \in K : h <= a /\ a + Size(l, a) <= h + Size(k, h)
  <2>1. ASSUME NEW b \in Nat, NEW a \in S, a <= b, b < a + Size(l, a)
        PROVE  \E h \in T : h <= b /\ b < h + Size(k, h)
    <3>1. a \in Nat /\ Size(l, a) \in Nat
      BY <1>2
    <3>2. CASE a \in A /\ a # c
      <4>1. a \in T /\ Size(k, a) = Size(l, a)
        BY <1>3, <1>4, <3>2
      <4>2. QED
        BY <2>1, <4>1
    <3>3. CASE a \in H \/ a = c
      <4>1. PICK h \in K : h <= a /\ a + Size(l, a) <= h + Size(k, h)
        BY <1>5, <3>3
      <4>2. h \in T /\ h \in S
        BY <1>3, <1>4, <4>1
      <4>3. h \in Nat /\ Size(k, h) \in Nat
        BY <1>2, <1>3, <4>2
      <4>4. h <= b /\ b < h + Size(k, h)
        BY <2>1, <3>1, <4>1, <4>3
      <4>5. QED
        BY <4>2, <4>4
    <3>4. QED
      BY <1>4, <3>2, <3>3
  <2>2. \A b \in Nat : Holds(l, S, b) => Holds(k, T, b)
    BY <2>1 DEF Holds
  <2>3. QED
    BY <2>2
<1>6. ASSUME NEW q \in H, NEW n \in H, q + Size(l, q) = c, c + Size(l, c) = n, K = H \ {n},
             Size(k, q) = Size(l, q) + Size(l, c),
             \A h \in K \ {q} : Size(k, h) = Size(l, h)
      PROVE  \A b \in Nat : Holds(l, S, b) /\ ~ Holds(k, T, b)
                               <=> n <= b /\ b < n + Size(l, n)
  <2>1. /\ q \in S /\ n \in S /\ q \in Nat /\ n \in Nat /\ c \in Nat
        /\ Size(l, q) \in Nat /\ Size(l, c) \in Nat /\ Size(l, n) \in Nat
        /\ Size(l, q) > 0 /\ Size(l, c) > 0 /\ Size(l, n) > 0
    BY <1>2, <1>3, <1>4
  <2>2. q < c /\ c < n /\ q # n /\ q + Size(k, q) = n
    BY <1>6, <2>1
  <2>3. q \in T /\ n \notin T
    BY <1>2, <1>4, <1>6, <2>2
  <2>4. \A a \in T : a # q => Size(k, a) = Size(l, a)
    BY <1>3, <1>4, <1>6
  <2>5. \A a \in T : a \in S /\ a # n
    BY <1>3, <1>4, <1>6, <2>3
  <2>6. ASSUME NEW b \in Nat, n <= b, b < n + Size(l, n), NEW a \in T,
               a <= b, b < a + Size(k, a)
        PROVE  FALSE
    <3>1. a \in S /\ a # n /\ a \in Nat /\ Size(l, a) \in Nat
      BY <1>2, <2>5
    <3>2. a # q
      <4>1. a = q => b < n
        BY <2>2, <2>6
      <4>2. QED
        BY <2>1, <2>6, <4>1
    <3>3. Size(k, a) = Size(l, a)
      BY <2>4, <3>2
    <3>4. a < n \/ n < a
      BY <2>1, <3>1
    <3>5. a + Size(l, a) <= n \/ n + Size(l, n) <= a
      BY <1>2, <2>1, <3>1, <3>4
    <3>6. QED
      BY <2>1, <2>6, <3>1, <3>3, <3>5
  <2>7. ASSUME NEW b \in Nat, NEW a \in S, a <= b, b < a + Size(l, a),
               ~ (n <= b /\ b < n + Size(l, n))
        PROVE  \E h \in T : h <= b /\ b < h + Size(k, h)
    <3>1. a \in Nat /\ Size(l, a) \in Nat /\ a # n
      BY <1>2, <2>7
    <3>2. CASE a = c \/ a = q
      <4>1. q <= b /\ b < q + Size(k, q)
        BY <1>6, <2>1, <2>2, <2>7, <3>2
      <4>2. QED
        BY <2>3, <4>1
    <3>3. CASE a # c /\ a # q
      <4>1. a \in T
        BY <1>4, <1>6, <3>1, <3>3
      <4>2. QED
        BY <2>4, <2>7, <3>3, <4>1
    <3>4. QED
      BY <3>2, <3>3
  <2>8. QED
    BY <2>1, <2>6, <2>7 DEF Holds
<1>7. QED
  BY <1>3, <1>5, <1>6 DEF H

\* A chunk that lies between two holes once realloc has taken the new chunk d did
\* so before: the rest of the hole taken is behind d, which is in use.
LEMMA BetweenBefore ==
    ASSUME NEW l, NEW m, NEW u, NEW v, NEW d, NEW c, NEW required,
           NEW p1, NEW f1, NEW g1, Holding(l, p1, f1, g1, u),
           NEW p2, NEW f2, NEW g2, Holding(m, p2, f2, g2, v),
           DOMAIN v = With(DOMAIN u, d), d # NULL, c \in DOMAIN u,
           TookAs(Holes(m), Holes(l), DOMAIN u, l, m, d, required),
           HolesKept(Holes(m), Holes(l), DOMAIN u, l, m, d),
           NEW q \in Holes(m), NEW n \in Holes(m),
           q + Size(m, q) = c, c + Size(m, c) = n
    PROVE  /\ n \in Holes(l) /\ Size(l, n) = Size(m, n) /\ Size(l, c) = Size(m, c)
           /\ \E p \in Holes(l) : p + Size(l, p) = c
<1> DEFINE R == DOMAIN v \cup Holes(m)
           H == Holes(l)
           A == DOMAIN u
<1>1. /\ \A a \in R : a \in Nat /\ a > 0 /\ Size(m, a) \in Nat /\ Size(m, a) > 0
      /\ \A a \in DOMAIN v : a \notin Holes(m)
      /\ \A a, b \in R : a < b => a + Size(m, a) <= b
  BY HoldingFacts
<1>2. c \in DOMAIN v /\ d \in DOMAIN v
  BY DEF With
<1>3. c \in R /\ d \in R /\ q \in R /\ n \in R
  BY <1>2
<1>4. d \notin A /\ \A a \in A : Size(m, a) = Size(l, a)
  BY DEF TookAs
<1> HIDE DEF R
<1>5. /\ c \in Nat /\ d \in Nat /\ q \in Nat /\ n \in Nat
      /\ Size(m, c) \in Nat /\ Size(m, d) \in Nat /\ Size(m, q) \in Nat
      /\ Size(m, c) > 0 /\ Size(m, d) > 0 /\ Size(m, q) > 0
  BY <1>1, <1>3
<1>6. c # d
  BY <1>4
<1>7. c + Size(m, c) <= d \/ d + Size(m, d) <= c
  BY <1>1, <1>3, <1>5, <1>6
<1>8. n # d + Size(m, d)
  BY <1>5, <1>7
<1>9. n \in H /\ Size(m, n) = Size(l, n)
  BY <1>8 DEF HolesKept
<1>10. \E p \in H : p + Size(l, p) = c
  <2>1. CASE q \in H /\ Size(m, q) = Size(l, q)
    BY <2>1
  <2>2. CASE d \in H /\ q + Size(m, q) = d + Size(l, d)
    BY <2>2
  <2>3. CASE q = d + Size(m, d) /\ \A a \in A : a < d
    BY <1>5, <2>3
  <2>4. QED
    BY <2>1, <2>2, <2>3 DEF HolesKept
<1>11. QED
  BY <1>4, <1>9, <1>10

\* The bytes that a step loses.
LEMMA StepLoses ==
    ASSUME HeapInv, [Next]_vars, Size(list', NULL) # 0,
           NEW S, S = DOMAIN live \cup Holes(list), NEW T, T = DOMAIN live' \cup Holes(list')
    PROVE  \/ \A b \in Nat : Holds(list, S, b) => Holds(list', T, b)
           \/ \E c \in DOMAIN live \ DOMAIN live', p, n \in Holes(list) :
                 /\ p + Size(list, p) = c /\ c + Size(list, c) = n
                 /\ \A b \in Nat : Holds(list, S, b) /\ ~ Holds(list', T, b)
                                      <=> n <= b /\ b < n + Size(list, n)
<1>1. CASE UNCHANGED vars
  BY <1>1 DEF vars
<1>2. ASSUME NEW size \in Sizes \ {0}, MallocStep(size, MallocFrom(State, size))
      PROVE  \A b \in Nat : Holds(list, S, b) => Holds(list', T, b)
  <2> DEFINE d == MallocFrom(State, size).chunk
  <2>1. /\ DOMAIN live' = With(DOMAIN live, d)
        /\ TookAs(Holes(list'), Holes(list), DOMAIN live, list, list', d, size + WORD)
    BY <1>2, MallocDoes
  <2> HIDE DEF d
  <2>2. QED
    BY <2>1 DEF TookAs
<1>3. ASSUME NEW c \in DOMAIN live, FreeStep(c)
      PROVE  \/ \A b \in Nat : Holds(list, S, b) => Holds(list', T, b)
             \/ \E p, n \in Holes(list) :
                   /\ p + Size(list, p) = c /\ c + Size(list, c) = n
                   /\ \A b \in Nat : Holds(list, S, b) /\ ~ Holds(list', T, b)
                                        <=> n <= b /\ b < n + Size(list, n)
  <2>1. /\ DOMAIN live' = DOMAIN live \ {c}
        /\ FreedAs(Holes(list'), Holes(list), DOMAIN live, list, list', c)
    BY <1>3, FreeDoes
  <2>2. Size(list, NULL) # 0
    BY <2>1 DEF FreedAs
  <2>3. T = (DOMAIN live \ {c}) \cup Holes(list')
    BY <2>1
  <2>4. Holding(list, last_page, frames, pages, live)
    BY DEF HeapInv
  <2> DEFINE K == Holes(list')
             k == list'
             B == DOMAIN live \ {c}
  <2>5. /\ FreedAs(K, Holes(list), DOMAIN live, list, k, c)
        /\ T = Beside(B, K) /\ S = Beside(DOMAIN live, Holes(list))
    BY <2>1, <2>3 DEF Beside
  <2> HIDE DEF K, k, B
  <2>6. \/ \A b \in Nat : Holds(list, S, b) => Holds(k, T, b)
        \/ \E p, n \in Holes(list) :
              /\ p + Size(list, p) = c /\ c + Size(list, c) = n
              /\ \A b \in Nat : Holds(list, S, b) /\ ~ Holds(k, T, b)
                                   <=> n <= b /\ b < n + Size(list, n)
    BY <2>2, <2>4, <2>5, FreeLoses DEF B
  <2>7. QED
    BY <2>6 DEF k
<1>4. ASSUME NEW c \in DOMAIN live, NEW size \in Sizes \ {0}, NEW s, MoveStep(c, size, s)
      PROVE  \/ \A b \in Nat : Holds(list, S, b) => Holds(list', T, b)
             \/ \E p, n \in Holes(list) :
                   /\ p + Size(list, p) = c /\ c + Size(list, c) = n
                   /\ \A b \in Nat : Holds(list, S, b) /\ ~ Holds(list', T, b)
                                        <=> n <= b /\ b < n + Size(list, n)
  <2> DEFINE m == s.list
             v == Used(live, s.chunk, size)
             d == s.chunk
             R == Beside(DOMAIN v, Holes(m))
             B == DOMAIN v \ {c}
             K == Holes(list')
             k == list'
             p2 == s.last_page
             f2 == s.frames
             g2 == s.pages
             required == size + WORD
  <2>1. /\ Holding(m, p2, f2, g2, v) /\ DOMAIN v = With(DOMAIN live, d)
        /\ c \in DOMAIN v /\ d # NULL
        /\ DOMAIN live' = DOMAIN v \ {c}
        /\ TookAs(Holes(m), Holes(list), DOMAIN live, list, m, d, required)
        /\ HolesKept(Holes(m), Holes(list), DOMAIN live, list, m, d)
        /\ FreedAs(K, Holes(m), DOMAIN v, m, k, c)
    BY <1>4, MoveDoes DEF MoveStep
  <2>2. T = Beside(B, K)
    BY <2>1 DEF Beside
  <2>3. R = DOMAIN v \cup Holes(m)
    BY DEF Beside
  <2>4. R = Beside(DOMAIN v, Holes(m)) /\ B = DOMAIN v \ {c}
    OBVIOUS
  <2>5. Holding(list, last_page, frames, pages, live)
    BY DEF HeapInv
  <2>6. Size(k, NULL) # 0
    OBVIOUS
  <2> HIDE DEF m, v, d, R, B, K, k, p2, f2, g2, required
  <2>7. Size(m, NULL) # 0
    BY <2>1, <2>6 DEF FreedAs
  <2>8. \A b \in Nat : Holds(list, S, b) => Holds(m, R, b)
    BY <2>1, <2>3, <2>7 DEF TookAs
  <2>9. \/ \A b \in Nat : Holds(m, R, b) => Holds(k, T, b)
        \/ \E q, n \in Holes(m) :
              /\ q + Size(m, q) = c /\ c + Size(m, c) = n
              /\ \A b \in Nat : Holds(m, R, b) /\ ~ Holds(k, T, b)
                                   <=> n <= b /\ b < n + Size(m, n)
    <3>1. Holding(m, p2, f2, g2, v) /\ c \in DOMAIN v /\ FreedAs(K, Holes(m), DOMAIN v, m, k, c)
      BY <2>1
    <3>2. QED
      BY <2>2, <2>7, <2>4, <3>1, FreeLoses
  <2>10. ASSUME NEW q \in Holes(m), NEW n \in Holes(m),
               q + Size(m, q) = c, c + Size(m, c) = n,
               \A b \in Nat : Holds(m, R, b) /\ ~ Holds(k, T, b)
                                 <=> n <= b /\ b < n + Size(m, n)
        PROVE  \E p, e \in Holes(list) :
                   /\ p + Size(list, p) = c /\ c + Size(list, c) = e
                   /\ \A b \in Nat : Holds(list, S, b) /\ ~ Holds(k, T, b)
                                        <=> e <= b /\ b < e + Size(list, e)
    <3>1. /\ n \in Holes(list) /\ Size(list, n) = Size(m, n) /\ Size(list, c) = Size(m, c)
          /\ \E p \in Holes(list) : p + Size(list, p) = c
      BY <2>1, <2>5, <2>10, BetweenBefore
    <3>2. n \in S
      BY <3>1
    <3>3. \A b \in Nat : n <= b /\ b < n + Size(list, n) => Holds(list, S, b)
      BY <3>2 DEF Holds
    <3>4. \A b \in Nat : Holds(list, S, b) /\ ~ Holds(k, T, b)
                            <=> n <= b /\ b < n + Size(list, n)
      BY <2>8, <2>10, <3>1, <3>3
    <3>5. c + Size(list, c) = n
      BY <2>10, <3>1
    <3>6. QED
      BY <3>1, <3>4, <3>5
  <2>11. QED
    BY <2>8, <2>9, <2>10 DEF k
<1>5. ASSUME NEW c \in DOMAIN live, live' = Without(live, c) \/ \E v : live' = Without(v, c)
      PROVE  c \notin DOMAIN live'
  BY <1>5 DEF Without
<1>6. ASSUME NEW c \in DOMAIN live,
             \/ FreeStep(c)
             \/ \E size \in Sizes \ {0} : MoveStep(c, size, MallocFrom(State, size))
      PROVE  c \in DOMAIN live \ DOMAIN live'
  BY <1>5, <1>6 DEF FreeStep, MoveStep
<1>7. CASE \E size \in Sizes \ {0} : MallocStep(size, MallocFrom(State, size))
  BY <1>2, <1>7
<1>8. CASE \E c \in DOMAIN live : FreeStep(c)
  BY <1>3, <1>6, <1>8
<1>9. CASE \E c \in DOMAIN live, size \in Sizes \ {0} : MoveStep(c, size, MallocFrom(State, size))
  BY <1>4, <1>6, <1>9
<1>10. QED
  BY <1>1, <1>7, <1>8, <1>9, StepIs

\* Until an extension has found no frame a step loses no byte of the heap, but for
\* the hole behind a chunk that is freed or moved away from between two holes.
THEOREM OnlyHolesBehindAreLost == Spec => LostOnlyBetweenHoles
<1>1. ASSUME HeapInv, HeapInv', [Next]_vars
      PROVE  [LET lost == OwnedBytes \ OwnedBytes'
              IN  \/ lost = {}
                  \/ OutOfMemory'
                  \/ \E a \in DOMAIN live \ DOMAIN live' :
                        /\ BetweenHoles(Extent(a))
                        /\ lost = UNION {Span(x) : x \in HoleBehind(Extent(a))}]_vars
  <2> DEFINE S == DOMAIN live \cup Holes(list)
             T == DOMAIN live' \cup Holes(list')
             lost == OwnedBytes \ OwnedBytes'
  <2>1. CASE OutOfMemory'
    BY <2>1
  <2>2. CASE ~ OutOfMemory'
    <3>1. Size(list', NULL) # 0
      <4>1. Holding(list', last_page', frames', pages', live')
        BY <1>1 DEF HeapInv
      <4>2. Size(list', NULL) # LOW_WORD <=> Size(list', NULL) = 0
        BY <4>1, HoldingFacts
      <4>3. QED
        BY <2>2, <4>2 DEF OutOfMemory
    <3>2. /\ \A a \in S : a \in Nat /\ Size(list, a) \in Nat
          /\ \A a \in T : a \in Nat /\ Size(list', a) \in Nat
      <4>1. /\ Holding(list, last_page, frames, pages, live)
            /\ Holding(list', last_page', frames', pages', live')
        BY <1>1 DEF HeapInv
      <4>2. QED
        BY <4>1, HoldingFacts
    <3>3. \A b : b \in OwnedBytes <=> b \in Nat /\ Holds(list, S, b)
      <4>1. OwnedBytes = BytesOf(list, Holes(list)) \cup BytesOf(list, DOMAIN live)
        BY DEF OwnedBytes, HoleBytes, ListedHoles, Chunks, Extent, Span, BytesOf
      <4>2. QED
        BY <3>2, <4>1, OwnedIs
    <3>4. \A b : b \in OwnedBytes' <=> b \in Nat /\ Holds(list', T, b)
      <4>1. OwnedBytes' = BytesOf(list', Holes(list')) \cup BytesOf(list', DOMAIN live')
        BY DEF OwnedBytes, HoleBytes, ListedHoles, Chunks, Extent, Span, BytesOf
      <4>2. QED
        BY <3>2, <4>1, OwnedIs
    <3>5. \A b : b \in lost <=> b \in Nat /\ Holds(list, S, b) /\ ~ Holds(list', T, b)
      BY <3>3, <3>4
    <3>6. CASE \A b \in Nat : Holds(list, S, b) => Holds(list', T, b)
      <4>1. lost = {}
        BY <3>5, <3>6
      <4>2. QED
        BY <4>1
    <3>7. CASE \E c \in DOMAIN live \ DOMAIN live', p, n \in Holes(list) :
                  /\ p + Size(list, p) = c /\ c + Size(list, c) = n
                  /\ \A b \in Nat : Holds(list, S, b) /\ ~ Holds(list', T, b)
                                       <=> n <= b /\ b < n + Size(list, n)
      <4>1. PICK c \in DOMAIN live \ DOMAIN live', p \in Holes(list), n \in Holes(list) :
                  /\ p + Size(list, p) = c /\ c + Size(list, c) = n
                  /\ \A b \in Nat : Holds(list, S, b) /\ ~ Holds(list', T, b)
                                       <=> n <= b /\ b < n + Size(list, n)
        BY <3>7
      <4>2. n \in Nat /\ Size(list, n) \in Nat
        BY <3>2
      <4>3. Span(Extent(n)) = n .. n + Size(list, n) - 1
        BY DEF Span, Extent
      <4>4. \A b : b \in Span(Extent(n)) <=> b \in Nat /\ n <= b /\ b < n + Size(list, n)
        BY <4>2, <4>3
      <4>5. lost = Span(Extent(n))
        <5> HIDE DEF lost, S, T
        <5>1. \A b : b \in lost <=> b \in Span(Extent(n))
          BY <3>5, <4>1, <4>4
        <5>2. QED
          BY <5>1
      <4>6. Extent(p) \in HoleBefore(Extent(c))
        BY <4>1 DEF HoleBefore, ListedHoles, Extent
      <4>7. HoleBehind(Extent(c)) = {Extent(n)}
        BY <4>1 DEF HoleBehind, ListedHoles, Extent
      <4>8. lost = UNION {Span(x) : x \in HoleBehind(Extent(c))}
        <5> HIDE DEF lost
        <5>1. \A b : b \in UNION {Span(x) : x \in HoleBehind(Extent(c))} <=> b \in Span(Extent(n))
          BY <4>7
        <5>2. QED
          BY <4>5, <5>1
      <4>9. BetweenHoles(Extent(c))
        BY <4>6, <4>7 DEF BetweenHoles
      <4>10. QED
        BY <4>1, <4>8, <4>9
    <3>8. QED
      <4>1. S = DOMAIN live \cup Holes(list) /\ T = DOMAIN live' \cup Holes(list')
        OBVIOUS
      <4> HIDE DEF S, T
      <4>2. \/ \A b \in Nat : Holds(list, S, b) => Holds(list', T, b)
            \/ \E c \in DOMAIN live \ DOMAIN live', p, n \in Holes(list) :
                  /\ p + Size(list, p) = c /\ c + Size(list, c) = n
                  /\ \A b \in Nat : Holds(list, S, b) /\ ~ Holds(list', T, b)
                                       <=> n <= b /\ b < n + Size(list, n)
        BY <1>1, <3>1, <4>1, StepLoses
      <4>3. QED
        BY <3>6, <3>7, <4>2
  <2>3. QED
    BY <2>1, <2>2
<1>2. QED
  BY <1>1, HeapIsSound, PTL DEF Spec, LostOnlyBetweenHoles
=============================================================================
