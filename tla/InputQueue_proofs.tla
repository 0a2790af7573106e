------------------------- MODULE InputQueue_proofs --------------------------
(***************************************************************************)
(* The queue of the input manager is safe under every interleaving of the  *)
(* keyboard interrupt with dequeue, for any number of keys: getchar never  *)
(* follows a null head, and returns keys in the order they were pressed.   *)
(* Outside the two windows of dequeue no key is lost and the size is exact.*)
(***************************************************************************)
EXTENDS InputQueue, WellFoundedInduction, TLAPS

\* Where the kernel holds a key it has not unlinked, and where it holds one that
\* it has.
Dequeuing == pc \in {"data", "compare", "untail", "load", "store"}
Copied == pc \in {"compare", "untail", "load", "store"}
Unlinked == pc \in {"size", "count"}

\* Every key the kernel has returned was pressed before key k.
Precedes(k) == \A i \in DOMAIN delivered : delivered[i] < k

Bounds ==
    /\ pressed \in 0 .. MaxKeys
    /\ head \in 0 .. pressed
    /\ tail \in 0 .. pressed
    /\ link \in [Keys -> 0 .. pressed]
    /\ data \in 0 .. MaxKeys
    /\ delivered \in Seq(Keys)
    /\ \A i \in DOMAIN delivered : delivered[i] <= pressed

\* Links lead from a key to one that was pressed later.
LinksAscend == \A k \in Keys : link[k] # nullptr => k < link[k]

HeadIsNext ==
    /\ ~ Unlinked /\ head # nullptr => Precedes(head)
    /\ Copied => data = head
    /\ pc = "store" => tmp = nullptr \/ (tmp \in Keys /\ tmp <= pressed /\ head < tmp)

HandIsNext ==
    Unlinked => /\ data \in Keys /\ data <= pressed
                /\ Precedes(data)
                /\ head # nullptr => data < head

(***************************************************************************)
(* DeliveredInOrder is not inductive: a key is returned two steps after it *)
(* left the list.  The list ascends from head on, and what is delivered    *)
(* precedes the key in hand and the head behind it.                        *)
(***************************************************************************)
IInv ==
    /\ TypeOK
    /\ Bounds
    /\ LinksAscend
    /\ Dequeuing => head # nullptr
    /\ HeadIsNext
    /\ HandIsNext
    /\ DeliveredInOrder

LEMMA InitialInvariant == Init => IInv
  BY MaxKeysAssumption
     DEF Init, IInv, TypeOK, Bounds, LinksAscend, Dequeuing, HeadIsNext, HandIsNext,
         DeliveredInOrder, Unlinked, Copied, Precedes, Keys, nullptr

\* An interrupt never takes a node away, and the key it adds is the youngest.
LEMMA PressPreserves == ASSUME IInv, OnPress PROVE IInv'
<1> DEFINE node == pressed + 1
<1> USE MaxKeysAssumption DEF IInv, Keys, nullptr
<1>1. node \in Keys /\ pressed' = node /\ pressed' \in 0 .. MaxKeys
  BY DEF OnPress, Bounds
<1>2. UNCHANGED <<pc, data, tmp, delivered>>
  BY DEF OnPress
<1>3. tail' = node /\ head' = IF head = nullptr THEN node ELSE head
  BY DEF OnPress
<1>4. /\ link' \in [Keys -> 0 .. node]
      /\ \A k \in Keys : link'[k] = link[k] \/ (link'[k] = node /\ k < node)
  <2>1. /\ link \in [Keys -> 0 .. node] /\ tail \in 0 .. pressed
        /\ pressed \in Nat /\ node \in Nat /\ pressed < node
    BY <1>1 DEF Bounds
  <2>2. link' = link \/ (tail # nullptr /\ link' = [link EXCEPT ![tail] = node])
    BY DEF OnPress
  <2>3. CASE link' = link
    BY <2>1, <2>3
  <2>4. CASE tail # nullptr /\ link' = [link EXCEPT ![tail] = node]
    <3>1. tail < node /\ node \in 0 .. node
      BY <2>1
    <3>2. QED
      BY <2>1, <2>4, <3>1
  <2>5. QED
    BY <2>2, <2>3, <2>4
<1>5. TypeOK'
  <2>1. /\ queue_size' \in Int /\ tmp' \in Int
        /\ hit' \in SUBSET {"list", "size"}
    BY <1>2 DEF OnPress, TypeOK, Windows
  <2>2. link' \in [Keys -> Keys \cup {nullptr}]
    BY <1>1, <1>4
  <2>3. {head, tail, data}' \subseteq Keys \cup {nullptr}
    BY <1>1, <1>2, <1>3 DEF TypeOK
  <2>4. QED
    BY <1>1, <1>2, <2>1, <2>2, <2>3 DEF TypeOK
<1>6. Bounds'
  BY <1>1, <1>2, <1>3, <1>4 DEF Bounds
<1>7. LinksAscend'
  BY <1>1, <1>4 DEF LinksAscend
<1>8. (Dequeuing => head # nullptr)'
  BY <1>1, <1>2, <1>3 DEF Dequeuing
<1>9. Precedes(node)
  BY <1>1 DEF Precedes, Bounds
<1>10. HeadIsNext'
  <2>1. (~ Unlinked /\ head # nullptr => Precedes(head))'
    <3>1. Precedes(head') => Precedes(head)'
      BY <1>2 DEF Precedes
    <3>2. QED
      BY <3>1, <1>2, <1>3, <1>9 DEF HeadIsNext, Unlinked
  <2>2. Copied' => head' = head /\ Copied
    BY <1>2, <1>3 DEF Copied, Dequeuing
  <2>3. (pc = "store")' => head' = head
    BY <1>2, <1>3 DEF Dequeuing
  <2>4. (pc = "store" => tmp = nullptr \/ (tmp \in Keys /\ tmp <= pressed /\ head < tmp))'
    BY <1>1, <1>2, <2>3 DEF HeadIsNext, Bounds
  <2>5. QED
    BY <1>2, <2>1, <2>2, <2>4 DEF HeadIsNext
<1>11. HandIsNext'
  BY <1>1, <1>2, <1>3 DEF HandIsNext, Unlinked, Precedes, Bounds
<1>12. DeliveredInOrder'
  BY <1>2 DEF DeliveredInOrder
<1>13. QED
  BY <1>5, <1>6, <1>7, <1>8, <1>10, <1>11, <1>12

\* dequeue up to the load of head->next leaves the list as it is.
LEMMA ReadingPreserves ==
    ASSUME IInv, SeeKey \/ ReadData \/ Compare \/ Untail \/ LoadNext
    PROVE  IInv'
<1> USE MaxKeysAssumption DEF IInv, Keys, nullptr, Goto, queue
<1>1. CASE SeeKey
  BY <1>1 DEF SeeKey, TypeOK, Bounds, LinksAscend, Dequeuing, HeadIsNext, HandIsNext,
              DeliveredInOrder, Unlinked, Copied, Precedes
<1>2. CASE ReadData
  BY <1>2 DEF ReadData, TypeOK, Bounds, LinksAscend, Dequeuing, HeadIsNext, HandIsNext,
              DeliveredInOrder, Unlinked, Copied, Precedes
<1>3. CASE Compare
  BY <1>3 DEF Compare, TypeOK, Bounds, LinksAscend, Dequeuing, HeadIsNext, HandIsNext,
              DeliveredInOrder, Unlinked, Copied, Precedes
<1>4. CASE Untail
  BY <1>4 DEF Untail, TypeOK, Bounds, LinksAscend, Dequeuing, HeadIsNext, HandIsNext,
              DeliveredInOrder, Unlinked, Copied, Precedes
<1>5. CASE LoadNext
  <2>1. head \in Keys /\ tmp' = link[head]
    BY <1>5 DEF LoadNext, Bounds, Dequeuing
  <2>2. tmp' \in 0 .. pressed /\ (tmp' # nullptr => head < tmp')
    BY <2>1 DEF Bounds, LinksAscend
  <2>3. QED
    BY <1>5, <2>2 DEF LoadNext, TypeOK, Bounds, LinksAscend, Dequeuing, HeadIsNext,
              HandIsNext, DeliveredInOrder, Unlinked, Copied, Precedes
<1>6. QED
  BY <1>1, <1>2, <1>3, <1>4, <1>5

\* The store to head takes the key into the hands of the kernel.
LEMMA UnlinkPreserves ==
    ASSUME IInv, StoreHead \/ ReadSize PROVE IInv'
<1> USE MaxKeysAssumption DEF IInv, Keys, nullptr, Goto, queue
<1>1. CASE StoreHead
  BY <1>1 DEF StoreHead, TypeOK, Bounds, LinksAscend, Dequeuing, HeadIsNext, HandIsNext,
              DeliveredInOrder, Unlinked, Copied, Precedes
<1>2. CASE ReadSize
  BY <1>2 DEF ReadSize, TypeOK, Bounds, LinksAscend, Dequeuing, HeadIsNext, HandIsNext,
              DeliveredInOrder, Unlinked, Copied, Precedes
<1>3. QED
  BY <1>1, <1>2

\* The key in hand is returned behind all the others.
LEMMA ReturnPreserves == ASSUME IInv, WriteSize PROVE IInv'
<1> USE MaxKeysAssumption DEF IInv, Keys, nullptr, Goto
<1>1. /\ pc = "count" /\ pc' = "empty"
      /\ data \in Keys /\ data <= pressed /\ Precedes(data)
      /\ head # nullptr => data < head
      /\ UNCHANGED <<head, tail, link, pressed, data, tmp, hit>>
  BY DEF WriteSize, HandIsNext, Unlinked
<1>2. /\ delivered' \in Seq(Keys)
      /\ Len(delivered') = Len(delivered) + 1
      /\ DOMAIN delivered' = 1 .. Len(delivered) + 1
      /\ \A i \in DOMAIN delivered : i \in 1 .. Len(delivered) /\ delivered'[i] = delivered[i]
      /\ delivered'[Len(delivered) + 1] = data
      /\ Len(delivered) \in Nat
      /\ DOMAIN delivered = 1 .. Len(delivered)
  BY <1>1 DEF WriteSize, Bounds
<1>3. \A i \in DOMAIN delivered' : delivered'[i] = data
                                   \/ (i \in DOMAIN delivered /\ delivered'[i] = delivered[i])
  BY <1>2
<1>4. TypeOK'
  BY <1>1, <1>2 DEF WriteSize, TypeOK
<1>5. Bounds'
  BY <1>1, <1>2, <1>3 DEF Bounds
<1>6. LinksAscend'
  BY <1>1 DEF LinksAscend
<1>7. HeadIsNext' /\ HandIsNext' /\ ~ Dequeuing'
  <2>1. head # nullptr => \A i \in DOMAIN delivered' : delivered'[i] < head
    BY <1>1, <1>3 DEF Precedes, Bounds
  <2>2. QED
    BY <1>1, <2>1 DEF HeadIsNext, HandIsNext, Unlinked, Copied, Dequeuing, Precedes
<1>8. DeliveredInOrder'
  <2>1. SUFFICES ASSUME NEW i \in DOMAIN delivered', NEW j \in DOMAIN delivered', i < j
                 PROVE  delivered'[i] < delivered'[j]
    BY DEF DeliveredInOrder
  <2>2. i \in DOMAIN delivered /\ delivered'[i] = delivered[i]
    BY <1>2, <2>1
  <2>3. CASE j \in DOMAIN delivered
    BY <1>2, <2>1, <2>2, <2>3 DEF DeliveredInOrder
  <2>4. CASE j \notin DOMAIN delivered
    BY <1>1, <1>3, <2>2, <2>4 DEF Precedes
  <2>5. QED
    BY <2>3, <2>4
<1>9. QED
  BY <1>4, <1>5, <1>6, <1>7, <1>8

LEMMA InductiveStep == IInv /\ [Next]_vars => IInv'
<1>1. IInv /\ UNCHANGED vars => IInv'
  BY DEF vars, IInv, TypeOK, Bounds, LinksAscend, Dequeuing, HeadIsNext, HandIsNext,
         DeliveredInOrder, Unlinked, Copied, Precedes
<1>2. IInv /\ Next => IInv'
  BY PressPreserves, ReadingPreserves, UnlinkPreserves, ReturnPreserves DEF Next, Kernel
<1>3. QED
  BY <1>1, <1>2

LEMMA InvariantHolds == Spec => []IInv
  BY InitialInvariant, InductiveStep, PTL DEF Spec

\* The queue and the locals of getchar keep their types under every interleaving.
THEOREM TypeCorrect == Spec => []TypeOK
<1>1. IInv => TypeOK
  BY DEF IInv
<1>2. QED
  BY <1>1, InvariantHolds, PTL

\* dequeue never dereferences a null head, wherever the interrupts fall.
THEOREM NoNullHead == Spec => []NeverDequeuesEmpty
<1>1. IInv => NeverDequeuesEmpty
  BY DEF IInv, NeverDequeuesEmpty, Dequeuing
<1>2. QED
  BY <1>1, InvariantHolds, PTL

\* getchar returns no key twice and none before one that was pressed earlier.
THEOREM OrderKept == Spec => []DeliveredInOrder
<1>1. IInv => DeliveredInOrder
  BY DEF IInv
<1>2. QED
  BY <1>1, InvariantHolds, PTL

-----------------------------------------------------------------------------
(* The size *)

(***************************************************************************)
(* SizeExact is not inductive: queue_size-- is a load and a store.  What   *)
(* the kernel has loaded is what it is about to decrement, and the key it  *)
(* counts off is returned by the same step.                                *)
(***************************************************************************)
SizeInv ==
    "size" \notin hit => /\ queue_size = pressed - Len(delivered)
                         /\ pc = "count" => tmp = queue_size

LEMMA SizeStep == IInv /\ SizeInv /\ [Next]_vars => SizeInv'
<1> SUFFICES ASSUME IInv, SizeInv, [Next]_vars, "size" \notin hit'
             PROVE  /\ queue_size' = pressed' - Len(delivered')
                    /\ pc' = "count" => tmp' = queue_size'
  BY DEF SizeInv
<1>1. /\ pressed \in Int /\ queue_size \in Int /\ tmp \in Int
      /\ delivered \in Seq(Keys) /\ Len(delivered) \in Int /\ hit \in SUBSET {"list", "size"}
  BY MaxKeysAssumption DEF IInv, TypeOK
<1> USE DEF SizeInv
<1>2. CASE OnPress
  <2>1. "size" \notin hit /\ pc # "count" /\ pc' = pc
    BY <1>2 DEF OnPress, Windows, Counting
  <2>2. /\ queue_size' = queue_size + 1 /\ pressed' = pressed + 1
        /\ delivered' = delivered
    BY <1>2 DEF OnPress
  <2>3. QED
    BY <1>1, <2>1, <2>2
<1>3. CASE SeeKey \/ ReadData \/ Compare \/ Untail \/ LoadNext \/ StoreHead
  BY <1>1, <1>3 DEF SeeKey, ReadData, Compare, Untail, LoadNext, StoreHead, Goto, queue
<1>4. CASE ReadSize
  BY <1>1, <1>4 DEF ReadSize, Goto, queue
<1>5. CASE WriteSize
  <2>1. /\ "size" \notin hit /\ pc = "count" /\ pc' = "empty"
        /\ queue_size' = tmp - 1 /\ pressed' = pressed
        /\ delivered' = Append(delivered, data)
    BY <1>5 DEF WriteSize, Goto
  <2>2. Len(delivered') = Len(delivered) + 1
    BY <1>1, <2>1
  <2>3. QED
    BY <1>1, <2>1, <2>2
<1>6. CASE UNCHANGED vars
  BY <1>1, <1>6 DEF vars
<1>7. QED
  BY <1>2, <1>3, <1>4, <1>5, <1>6 DEF Next, Kernel

\* queue_size is the number of keys pressed and not yet returned, at every return
\* of getchar, as long as no interrupt fell between the load and the store of
\* queue_size--.
THEOREM SizeCounts == Spec => []SizeExact
<1>1. Init => SizeInv
  <2>1. Len(<<>>) = 0 /\ 0 - 0 = 0
    OBVIOUS
  <2>2. QED
    BY <2>1 DEF Init, SizeInv
<1>2. SizeInv => SizeExact
  BY DEF SizeInv, SizeExact
<1>3. QED
  BY <1>1, <1>2, InvariantHolds, SizeStep, PTL DEF Spec

-----------------------------------------------------------------------------
(* No key is lost outside the window *)

\* The number of keys that are off the list.
Taken == Len(delivered) + IF Unlinked THEN 1 ELSE 0

(***************************************************************************)
(* As long as no interrupt has hit the window in which the last node is    *)
(* unlinked, the keys are in one row: those returned, the one in hand, and *)
(* the list from head on, each linked to the next, up to the one pressed   *)
(* last.                                                                   *)
(***************************************************************************)
RowTaken ==
    /\ \A i \in DOMAIN delivered : delivered[i] = i
    /\ Unlinked => data = Len(delivered) + 1
    /\ Taken <= pressed

RowListed ==
    /\ head = IF Taken < pressed THEN Taken + 1 ELSE nullptr
    /\ \A k \in Keys : k > Taken => link[k] = IF k < pressed THEN k + 1 ELSE nullptr

RowEnds ==
    /\ tail = IF head = nullptr \/ (pc \in {"load", "store"} /\ head = pressed)
              THEN nullptr ELSE pressed
    /\ pc = "untail" => head = pressed
    /\ pc = "store" => tmp = IF head = pressed THEN nullptr ELSE head + 1

Row == RowTaken /\ RowListed /\ RowEnds

RowInv == "list" \notin hit => Row

LEMMA RowStep == IInv /\ RowInv /\ [Next]_vars => RowInv'
<1> SUFFICES ASSUME IInv, RowInv, [Next]_vars, "list" \notin hit'
             PROVE  Row'
  BY DEF RowInv
<1>1. /\ pressed \in Nat /\ pressed <= MaxKeys /\ MaxKeys \in Nat
      /\ head \in 0 .. pressed /\ tail \in 0 .. pressed /\ tmp \in Int
      /\ data \in 0 .. MaxKeys
      /\ link \in [Keys -> 0 .. pressed]
      /\ delivered \in Seq(Keys) /\ Len(delivered) \in Nat
      /\ DOMAIN delivered = 1 .. Len(delivered)
      /\ hit \in SUBSET {"list", "size"}
      /\ Dequeuing => head # nullptr
      /\ Copied => data = head
  BY MaxKeysAssumption DEF IInv, TypeOK, Bounds, HeadIsNext
<1>2. Row /\ "list" \notin hit
  <2>1. hit \subseteq hit'
    BY DEF Next, Kernel, vars, OnPress, SeeKey, ReadData, Compare, Untail, LoadNext,
           StoreHead, ReadSize, WriteSize
  <2>2. QED
    BY <2>1 DEF RowInv
<1> USE DEF Row, RowTaken, RowListed, RowEnds, Keys, nullptr
<1>3. CASE OnPress
  <2>1. /\ pressed' = pressed + 1 /\ pressed + 1 \in Keys
        /\ UNCHANGED <<pc, data, tmp, delivered>>
        /\ tail' = pressed + 1
        /\ head' = IF head = 0 THEN pressed + 1 ELSE head
    BY <1>1, <1>3 DEF OnPress
  <2>2. ~ UnlinkingLast
    BY <1>3 DEF OnPress, Windows
  <2>3. Taken' = Taken /\ Unlinked' = Unlinked /\ Taken \in Nat
    BY <1>1, <2>1 DEF Taken, Unlinked
  <2>4. RowTaken'
    BY <1>1, <1>2, <2>1, <2>3
  <2>5. CASE head = 0
    <3>1. Taken = pressed /\ link' = link /\ head' = pressed + 1
      BY <1>1, <1>2, <1>3, <2>1, <2>3, <2>5 DEF OnPress
    <3>2. RowListed'
      BY <1>1, <1>2, <2>1, <2>3, <3>1
    <3>3. pc \notin {"load", "store", "untail"}
      BY <1>1, <2>5 DEF Dequeuing
    <3>4. RowEnds'
      BY <1>1, <2>1, <3>1, <3>3
    <3>5. QED
      BY <2>4, <3>2, <3>4
  <2>6. CASE head # 0
    <3>1. tail = pressed /\ pressed > 0
      BY <1>1, <1>2, <2>2, <2>6 DEF UnlinkingLast
    <3>2. head' = head /\ link' = [link EXCEPT ![pressed] = pressed + 1]
      BY <1>1, <1>3, <2>6, <3>1 DEF OnPress
    <3>3. Taken < pressed /\ head = Taken + 1
      BY <1>2, <2>6
    <3>4. RowListed'
      <4>1. head' = IF Taken' < pressed' THEN Taken' + 1 ELSE nullptr
        BY <1>1, <2>1, <2>3, <3>2, <3>3
      <4>2. ASSUME NEW k \in Keys, k > Taken
            PROVE  link'[k] = IF k < pressed + 1 THEN k + 1 ELSE 0
        <5>1. link[k] = IF k < pressed THEN k + 1 ELSE 0
          BY <1>2, <4>2
        <5>2. link'[k] = IF k = pressed THEN pressed + 1 ELSE link[k]
          BY <1>1, <3>2, <4>2
        <5>3. QED
          BY <1>1, <5>1, <5>2
      <4>3. QED
        BY <2>1, <2>3, <4>1, <4>2
    <3>5. pc \in {"load", "store"} => head < pressed
      BY <1>1, <1>2, <3>1, <2>6, <3>3
    <3>6. pc # "untail"
      BY <2>2 DEF UnlinkingLast
    <3>7. RowEnds'
      BY <1>1, <1>2, <2>1, <2>6, <3>2, <3>5, <3>6
    <3>8. QED
      BY <2>4, <3>4, <3>7
  <2>7. QED
    BY <2>5, <2>6
<1>4. CASE SeeKey \/ ReadData \/ ReadSize
  <2>1. /\ UNCHANGED <<head, tail, link, pressed, delivered>>
        /\ pc \notin {"compare", "untail", "load", "store"}
        /\ pc' \notin {"untail", "load", "store"}
        /\ Unlinked' = Unlinked
        /\ Unlinked => data' = data
    BY <1>4 DEF SeeKey, ReadData, ReadSize, Goto, queue, Unlinked
  <2>2. Taken' = Taken
    BY <2>1 DEF Taken
  <2>3. QED
    BY <1>2, <2>1, <2>2
<1>5. CASE Compare \/ Untail \/ LoadNext
  <2>1. /\ UNCHANGED <<head, link, pressed, delivered>>
        /\ ~ Unlinked /\ ~ Unlinked' /\ Dequeuing
    BY <1>5 DEF Compare, Untail, LoadNext, Goto, queue, Unlinked, Dequeuing
  <2>2. Taken' = Taken
    BY <2>1 DEF Taken
  <2>3. head # 0 /\ head = Taken + 1 /\ Taken < pressed /\ Taken = Len(delivered)
    BY <1>1, <1>2, <2>1 DEF Taken
  <2>4. RowEnds'
    <3>1. CASE Compare
      BY <1>1, <1>2, <2>3, <3>1 DEF Compare, Goto, queue
    <3>2. CASE Untail
      BY <1>1, <1>2, <2>3, <3>2 DEF Untail, Goto
    <3>3. CASE LoadNext
      <4>1. tmp' = link[head] /\ UNCHANGED queue /\ pc = "load" /\ pc' = "store"
        BY <3>3 DEF LoadNext, Goto
      <4>2. link[head] = IF head < pressed THEN head + 1 ELSE 0
        BY <1>1, <1>2, <2>3
      <4>3. QED
        BY <1>1, <1>2, <2>1, <2>3, <4>1, <4>2 DEF queue
    <3>4. QED
      BY <1>5, <3>1, <3>2, <3>3
  <2>5. QED
    BY <1>2, <2>1, <2>2, <2>4
<1>6. CASE StoreHead
  <2>1. /\ UNCHANGED <<tail, link, pressed, delivered, data>>
        /\ ~ Unlinked /\ Unlinked' /\ head' = tmp /\ pc = "store" /\ pc' = "size"
        /\ head # 0 /\ data = head
    BY <1>1, <1>6 DEF StoreHead, Goto, Unlinked, Dequeuing, Copied
  <2>2. /\ Taken' = Taken + 1 /\ head = Taken + 1 /\ Taken < pressed
        /\ Taken = Len(delivered)
    BY <1>1, <1>2, <2>1 DEF Taken
  <2>3. RowTaken'
    BY <1>1, <1>2, <2>1, <2>2
  <2>4. RowListed' /\ RowEnds'
    BY <1>1, <1>2, <2>1, <2>2
  <2>5. QED
    BY <2>3, <2>4
<1>7. CASE WriteSize
  <2>1. /\ UNCHANGED <<head, tail, link, pressed, data>>
        /\ Unlinked /\ ~ Unlinked' /\ pc' = "empty"
        /\ delivered' = Append(delivered, data) /\ pc = "count"
    BY <1>7 DEF WriteSize, Goto, Unlinked
  <2>2. data \in Keys /\ data = Len(delivered) + 1
    BY <1>2, <2>1 DEF IInv, HandIsNext
  <2>3. /\ Len(delivered') = Len(delivered) + 1
        /\ DOMAIN delivered' = 1 .. Len(delivered) + 1
        /\ \A i \in 1 .. Len(delivered) : delivered'[i] = delivered[i]
        /\ delivered'[Len(delivered) + 1] = data
    BY <1>1, <2>1, <2>2
  <2>4. Taken' = Taken
    BY <1>1, <2>1, <2>3 DEF Taken
  <2>5. ASSUME NEW i \in DOMAIN delivered' PROVE delivered'[i] = i
    <3>1. CASE i = Len(delivered) + 1
      BY <2>2, <2>3, <3>1
    <3>2. CASE i # Len(delivered) + 1
      <4>1. i \in 1 .. Len(delivered)
        BY <1>1, <2>3, <3>2
      <4>2. delivered'[i] = delivered[i] /\ delivered[i] = i
        BY <1>1, <1>2, <2>3, <4>1
      <4>3. QED
        BY <4>2
    <3>3. QED
      BY <3>1, <3>2
  <2>6. RowTaken' /\ RowListed'
    BY <1>2, <2>1, <2>4, <2>5
  <2>7. pc \notin {"load", "store"} /\ pc' \notin {"load", "store", "untail"}
    BY <2>1
  <2>8. RowEnds'
    BY <1>2, <2>1, <2>7
  <2>9. QED
    BY <2>6, <2>8
<1>8. CASE UNCHANGED vars
  BY <1>2, <1>8 DEF vars, Taken, Unlinked
<1>9. QED
  BY <1>3, <1>4, <1>5, <1>6, <1>7, <1>8 DEF Next, Kernel

-----------------------------------------------------------------------------
(* What can be reached from head: an induction over the length of the walk *)

\* A set of numbers that is not empty has a least element.
LEMMA Smallest ==
    ASSUME NEW T \in SUBSET Nat, T # {}
    PROVE  \E m \in T : \A n \in T : m <= n
<1> DEFINE R == OpToRel(<, Nat)
<1>1. IsWellFoundedOn(R, Nat)
  BY NatLessThanWellFounded
<1>2. \A a, b \in Nat : (<<a, b>> \in R) = (a < b)
  BY DEF OpToRel
<1> HIDE DEF R
<1>3. PICK m \in T : \A n \in T : <<n, m>> \notin R
  BY <1>1, WFMin
<1>4. ASSUME NEW n \in T PROVE m <= n
  <2>1. m \in Nat /\ n \in Nat /\ ~ (n < m)
    BY <1>2, <1>3
  <2>2. QED
    BY <2>1
<1>5. QED
  BY <1>4

\* The walk of Reachable, as a function: one that satisfies its equation exists.
LEMMA WalkExists ==
    ASSUME NEW N \in Nat
    PROVE  \E f : /\ f = [n \in 0 .. N |-> f[n]]
                  /\ \A n \in 0 .. N :
                       f[n] = IF n = 0 THEN head
                              ELSE IF f[n - 1] = nullptr THEN nullptr ELSE link[f[n - 1]]
<1> DEFINE Is(f, k) ==
             f = [n \in 0 .. k |-> IF n = 0 THEN head
                                   ELSE IF f[n - 1] = nullptr THEN nullptr
                                   ELSE link[f[n - 1]]]
           T == {k \in Nat : \A f : ~ Is(f, k)}
<1>1. ASSUME T # {} PROVE FALSE
  <2>1. PICK k \in T : \A j \in T : k <= j
    BY <1>1, Smallest
  <2>2. CASE k = 0
    <3> DEFINE f == [n \in 0 .. 0 |-> head]
    <3>1. Is(f, 0)
      OBVIOUS
    <3>2. QED
      BY <2>2, <3>1
  <2>3. CASE k # 0
    <3>1. k - 1 \in Nat /\ k - 1 \notin T
      <4>1. k \in Nat
        BY <2>1
      <4> HIDE DEF T
      <4>2. QED
        BY <2>1, <2>3, <4>1
    <3>2. PICK g : Is(g, k - 1)
      <4> HIDE DEF Is
      <4>1. QED
        BY <3>1
    <3> DEFINE f == [n \in 0 .. k |-> IF n = 0 THEN head
                                      ELSE IF g[n - 1] = nullptr THEN nullptr
                                      ELSE link[g[n - 1]]]
    <3>3. \A n \in 0 .. k - 1 : f[n] = g[n]
      BY <3>1, <3>2
    <3>4. \A n \in 0 .. k : n # 0 => n - 1 \in 0 .. k - 1
      BY <3>1
    <3> HIDE DEF Is
    <3>5. f = [n \in 0 .. k |-> IF n = 0 THEN head
                                ELSE IF f[n - 1] = nullptr THEN nullptr
                                ELSE link[f[n - 1]]]
      BY <3>3, <3>4
    <3>6. Is(f, k)
      BY <3>5 DEF Is
    <3>7. QED
      BY <2>1, <3>6
  <2>4. QED
    BY <2>2, <2>3
<1>2. N \notin T
  BY <1>1
<1>3. PICK f : Is(f, N)
  BY <1>2
<1>4. QED
  BY <1>3

\* From the head of a list whose keys are in one row every key of it is reached.
LEMMA RowReached ==
    ASSUME IInv, Row PROVE Reachable = Taken + 1 .. pressed
<1> DEFINE at[n \in 0 .. MaxKeys] ==
             IF n = 0 THEN head
             ELSE IF at[n - 1] = nullptr THEN nullptr ELSE link[at[n - 1]]
<1>1. at = [n \in 0 .. MaxKeys |->
              IF n = 0 THEN head
              ELSE IF at[n - 1] = nullptr THEN nullptr ELSE link[at[n - 1]]]
  <2>1. PICK f : /\ f = [n \in 0 .. MaxKeys |-> f[n]]
                 /\ \A n \in 0 .. MaxKeys :
                      f[n] = IF n = 0 THEN head
                             ELSE IF f[n - 1] = nullptr THEN nullptr ELSE link[f[n - 1]]
    BY MaxKeysAssumption, WalkExists
  <2>2. f = [n \in 0 .. MaxKeys |->
               IF n = 0 THEN head
               ELSE IF f[n - 1] = nullptr THEN nullptr ELSE link[f[n - 1]]]
    BY <2>1
  <2>3. QED
    BY <2>2
<1>2. Reachable = {at[n] : n \in 0 .. MaxKeys} \ {nullptr}
  BY DEF Reachable
<1> HIDE DEF at
<1>3. /\ pressed \in Nat /\ pressed <= MaxKeys /\ MaxKeys \in Nat
      /\ Taken \in Nat /\ Taken <= pressed
      /\ head = IF Taken < pressed THEN Taken + 1 ELSE 0
      /\ \A k \in 1 .. MaxKeys : k > Taken => link[k] = IF k < pressed THEN k + 1 ELSE 0
  <2>1. Len(delivered) \in Nat
    BY DEF IInv, TypeOK
  <2>2. QED
    BY <2>1, MaxKeysAssumption
       DEF IInv, TypeOK, Row, RowTaken, RowListed, Taken, Keys, nullptr
<1> DEFINE row(n) == IF Taken + 1 + n <= pressed THEN Taken + 1 + n ELSE 0
           T == {n \in 0 .. MaxKeys : at[n] # row(n)}
<1>4. T = {}
  <2>1. SUFFICES ASSUME T # {} PROVE FALSE
    OBVIOUS
  <2>2. PICK m \in T : \A n \in T : m <= n
    <3>1. T \in SUBSET Nat
      BY <1>3
    <3> HIDE DEF T
    <3>2. QED
      BY <2>1, <3>1, Smallest
  <2>3. CASE m = 0
    <3>1. at[0] = head
      BY <1>1, <1>3
    <3>2. head = row(0)
      BY <1>3
    <3>3. QED
      BY <2>2, <2>3, <3>1, <3>2
  <2>4. CASE m # 0
    <3>1. m - 1 \in 0 .. MaxKeys /\ m \in 0 .. MaxKeys /\ m - 1 \notin T
      BY <1>3, <2>2, <2>4
    <3>2. at[m - 1] = row(m - 1)
      BY <3>1
    <3>3. at[m] = IF at[m - 1] = 0 THEN 0 ELSE link[at[m - 1]]
      BY <1>1, <2>4, <3>1 DEF nullptr
    <3>4. at[m] = row(m)
      <4>1. CASE Taken + m <= pressed
        <5>1. at[m - 1] = Taken + m /\ Taken + m \in 1 .. MaxKeys /\ Taken + m > Taken
          BY <1>3, <2>4, <3>1, <3>2, <4>1
        <5>2. QED
          BY <1>3, <3>1, <3>3, <5>1
      <4>2. CASE ~ (Taken + m <= pressed)
        BY <1>3, <3>1, <3>2, <3>3, <4>2
      <4>3. QED
        BY <4>1, <4>2
    <3>5. QED
      BY <2>2, <3>4
  <2>5. QED
    BY <2>3, <2>4
<1>5. \A n \in 0 .. MaxKeys : at[n] = row(n)
  BY <1>4
<1>6. ASSUME NEW k \in Taken + 1 .. pressed
      PROVE  k \in Reachable
  <2>1. k - Taken - 1 \in 0 .. MaxKeys /\ row(k - Taken - 1) = k /\ k # 0
    BY <1>3
  <2>2. QED
    BY <1>2, <1>5, <2>1 DEF nullptr
<1>7. ASSUME NEW k \in Reachable
      PROVE  k \in Taken + 1 .. pressed
  <2>1. PICK n \in 0 .. MaxKeys : k = row(n) /\ k # 0
    BY <1>2, <1>5 DEF nullptr
  <2>2. QED
    BY <1>3, <2>1
<1>8. QED
  BY <1>6, <1>7

\* Until an interrupt falls between the comparison head == tail and the store to
\* head, every key that was pressed has been returned, is in the hands of the
\* kernel, or can be reached from head: dequeue loses no key.
THEOREM NothingLost == Spec => []LossOnlyInWindow
<1>1. Init => RowInv
  <2>1. Len(<<>>) = 0 /\ DOMAIN <<>> = {}
    OBVIOUS
  <2>2. QED
    BY <2>1 DEF Init, RowInv, Row, RowTaken, RowListed, RowEnds, Taken, Unlinked, nullptr, Keys
<1>2. IInv /\ RowInv => LossOnlyInWindow
  <2>1. SUFFICES ASSUME IInv, Row PROVE 1 .. pressed = Delivered \cup InHand \cup Reachable
    BY DEF RowInv, LossOnlyInWindow
  <2>2. Reachable = Taken + 1 .. pressed
    BY <2>1, RowReached
  <2>3. /\ Len(delivered) \in Nat /\ DOMAIN delivered = 1 .. Len(delivered)
        /\ pressed \in Nat /\ Taken <= pressed
        /\ \A i \in DOMAIN delivered : delivered[i] = i
        /\ Unlinked => data = Len(delivered) + 1
    BY <2>1, MaxKeysAssumption DEF IInv, TypeOK, Row, RowTaken
  <2>4. Delivered = 1 .. Len(delivered)
    BY <2>3 DEF Delivered
  <2>5. InHand = IF Unlinked THEN {Len(delivered) + 1} ELSE {}
    BY <2>3 DEF InHand, Unlinked
  <2>6. Taken = IF Unlinked THEN Len(delivered) + 1 ELSE Len(delivered)
    BY <2>3 DEF Taken
  <2>7. CASE Unlinked
    <3>1. ASSUME NEW k
          PROVE  k \in 1 .. pressed
                   <=> k \in 1 .. Len(delivered) \/ k = Len(delivered) + 1
                       \/ k \in Len(delivered) + 2 .. pressed
      BY <2>3, <2>6, <2>7
    <3>2. Taken + 1 = Len(delivered) + 2
      BY <2>3, <2>6, <2>7
    <3>3. QED
      BY <2>2, <2>4, <2>5, <2>7, <3>1, <3>2
  <2>8. CASE ~ Unlinked
    <3>1. ASSUME NEW k
          PROVE  k \in 1 .. pressed
                   <=> k \in 1 .. Len(delivered) \/ k \in Len(delivered) + 1 .. pressed
      BY <2>3, <2>6, <2>8
    <3>2. Taken = Len(delivered)
      BY <2>6, <2>8
    <3>3. QED
      BY <2>2, <2>4, <2>5, <2>8, <3>1, <3>2
  <2>9. QED
    BY <2>7, <2>8
<1>3. QED
  BY <1>1, <1>2, InvariantHolds, RowStep, PTL DEF Spec
=============================================================================
