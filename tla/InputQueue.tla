----------------------------- MODULE InputQueue -----------------------------
(***************************************************************************)
(* InputManager and its Queue<char>: the keyboard interrupt enqueues the   *)
(* keys that are pressed while the kernel, in getchar, spins on the queue  *)
(* and dequeues.  Interrupts are enabled throughout, so the handler may    *)
(* run between any two accesses the kernel makes to the queue; the handler *)
(* itself runs with interrupts disabled, in one step.                      *)
(*                                                                         *)
(* Keys are numbered in the order in which they are pressed.  dequeue      *)
(* never frees a node, so a node is named by its key.                      *)
(***************************************************************************)
EXTENDS Integers, Sequences

CONSTANT MaxKeys   \* bound: keys pressed in a run

ASSUME MaxKeysAssumption == MaxKeys \in Nat

Keys == 1 .. MaxKeys
nullptr == 0

VARIABLES
    head, tail, queue_size,  \* the members of the queue
    link,        \* the member next of each node
    pressed,     \* the number of keys pressed so far
    pc,          \* where the kernel is in getchar and dequeue
    data, tmp,   \* its local copies: the key, and what it has read last
    delivered,   \* the keys getchar has returned
    hit          \* auxiliary: the windows of dequeue an interrupt has hit

queue == <<head, tail, queue_size, link>>
vars == <<head, tail, queue_size, link, pressed, pc, data, tmp, delivered, hit>>

Init ==
    /\ head = nullptr /\ tail = nullptr /\ queue_size = 0
    /\ link = [k \in Keys |-> nullptr]
    /\ pressed = 0
    /\ pc = "empty"
    /\ data = nullptr /\ tmp = nullptr
    /\ delivered = <<>>
    /\ hit = {}

-----------------------------------------------------------------------------
(* The interrupt *)

\* The kernel has found head == tail, and has yet to move head off that node.
UnlinkingLast == pc = "untail" \/ (pc \in {"load", "store"} /\ tail = nullptr)

\* The kernel has read queue_size and has yet to write it back.
Counting == pc = "count"

Windows == (IF UnlinkingLast THEN {"list"} ELSE {})
             \cup (IF Counting THEN {"size"} ELSE {})

\* Mutant: the node is pushed in front of the others.
OnPress_Front ==
    /\ pressed < MaxKeys
    /\ pressed' = pressed + 1
    /\ head' = pressed + 1
    /\ link' = [link EXCEPT ![pressed + 1] = head]
    /\ tail' = IF head = nullptr THEN pressed + 1 ELSE tail
    /\ queue_size' = queue_size + 1
    /\ hit' = hit \cup Windows
    /\ UNCHANGED <<pc, data, tmp, delivered>>

\* Mutant: tail is not moved to the node linked behind it.
OnPress_TailStays ==
    /\ pressed < MaxKeys
    /\ pressed' = pressed + 1
    /\ LET node == pressed + 1
       IN  IF head = nullptr
           THEN head' = node /\ tail' = node /\ UNCHANGED link
           ELSE /\ link' = IF tail = nullptr THEN link
                           ELSE [link EXCEPT ![tail] = node]
                /\ UNCHANGED <<head, tail>>
    /\ queue_size' = queue_size + 1
    /\ hit' = hit \cup Windows
    /\ UNCHANGED <<pc, data, tmp, delivered>>

\* on_press and enqueue for a printable key.  With a head but no tail the store
\* through tail goes to address 4 and the node is linked nowhere.
OnPress ==
    /\ pressed < MaxKeys
    /\ pressed' = pressed + 1
    /\ LET node == pressed + 1
       IN  /\ tail' = node
           /\ IF head = nullptr
              THEN head' = node /\ UNCHANGED link
              ELSE /\ link' = IF tail = nullptr THEN link
                              ELSE [link EXCEPT ![tail] = node]
                   /\ UNCHANGED head
    /\ queue_size' = queue_size + 1
    /\ hit' = hit \cup Windows
    /\ UNCHANGED <<pc, data, tmp, delivered>>

-----------------------------------------------------------------------------
(* The kernel: while (empty()); return dequeue(); *)

Goto(from, to) == pc = from /\ pc' = to

\* Mutant: dequeue without waiting for empty() to be false.
SeeKey_Unchecked ==
    /\ Goto("empty", "data")
    /\ UNCHANGED <<queue, pressed, data, tmp, delivered, hit>>

\* Mutant: empty() also trusts queue_size.
SeeKey_BySize ==
    /\ Goto("empty", "data")
    /\ head # nullptr /\ queue_size > 0
    /\ UNCHANGED <<queue, pressed, data, tmp, delivered, hit>>

\* empty() looks at head.
SeeKey ==
    /\ Goto("empty", "data")
    /\ head # nullptr
    /\ UNCHANGED <<queue, pressed, data, tmp, delivered, hit>>

\* T data = head->data;
ReadData ==
    /\ Goto("data", "compare")
    /\ data' = head
    /\ UNCHANGED <<queue, pressed, tmp, delivered, hit>>

\* if (head == tail)
Compare ==
    /\ Goto("compare", IF head = tail THEN "untail" ELSE "load")
    /\ UNCHANGED <<queue, pressed, data, tmp, delivered, hit>>

\* tail = nullptr;
Untail ==
    /\ Goto("untail", "load")
    /\ tail' = nullptr
    /\ UNCHANGED <<head, queue_size, link, pressed, data, tmp, delivered, hit>>

\* head = head->next; a load, then a store
LoadNext ==
    /\ Goto("load", "store")
    /\ tmp' = link[head]
    /\ UNCHANGED <<queue, pressed, data, delivered, hit>>

StoreHead ==
    /\ Goto("store", "size")
    /\ head' = tmp
    /\ UNCHANGED <<tail, queue_size, link, pressed, data, tmp, delivered, hit>>

\* queue_size--; a load, then a store, then the return to the caller
ReadSize ==
    /\ Goto("size", "count")
    /\ tmp' = queue_size
    /\ UNCHANGED <<queue, pressed, data, delivered, hit>>

\* Mutant: the size is written back as it was read.
WriteSize_NotCounted ==
    /\ Goto("count", "empty")
    /\ queue_size' = tmp
    /\ delivered' = Append(delivered, data)
    /\ UNCHANGED <<head, tail, link, pressed, data, tmp, hit>>

WriteSize ==
    /\ Goto("count", "empty")
    /\ queue_size' = tmp - 1
    /\ delivered' = Append(delivered, data)
    /\ UNCHANGED <<head, tail, link, pressed, data, tmp, hit>>

Kernel ==
    \/ SeeKey \/ ReadData \/ Compare \/ Untail
    \/ LoadNext \/ StoreHead \/ ReadSize \/ WriteSize

Next == OnPress \/ Kernel

\* The kernel runs on; nobody has to press a key.
Spec == Init /\ [][Next]_vars /\ WF_vars(Kernel)

-----------------------------------------------------------------------------
(* Properties *)

\* The nodes the kernel can still reach from head.
Reachable ==
    LET at[n \in 0 .. MaxKeys] ==
          IF n = 0 THEN head
          ELSE IF at[n - 1] = nullptr THEN nullptr ELSE link[at[n - 1]]
    IN  {at[n] : n \in 0 .. MaxKeys} \ {nullptr}

Delivered == {delivered[i] : i \in DOMAIN delivered}

\* The key in the hands of the kernel, taken off the list and not yet returned.
InHand == IF pc \in {"size", "count"} THEN {data} ELSE {}

TypeOK ==
    /\ {head, tail, data} \subseteq Keys \cup {nullptr}
    /\ queue_size \in Int /\ tmp \in Int
    /\ link \in [Keys -> Keys \cup {nullptr}]
    /\ pressed \in 0 .. MaxKeys
    /\ pc \in {"empty", "data", "compare", "untail", "load", "store", "size", "count"}
    /\ delivered \in Seq(Keys)
    /\ hit \in SUBSET {"list", "size"}

\* However the interrupts fall, getchar returns every key at most once and in
\* the order in which they were pressed.
DeliveredInOrder ==
    \A i, j \in DOMAIN delivered : i < j => delivered[i] < delivered[j]

\* dequeue never follows a null head: "The queue must not be empty" holds from
\* the check of empty() on, as the interrupt never takes a node away.
NeverDequeuesEmpty ==
    pc \in {"data", "compare", "untail", "load"} => head # nullptr

\* A key can only be lost when an interrupt falls into the window between the
\* comparison head == tail and the store to head.
LossOnlyInWindow ==
    "list" \notin hit =>
       1 .. pressed = Delivered \cup InHand \cup Reachable

\* queue_size counts the queued keys unless an interrupt fell into that window
\* or between the load and the store of queue_size--.
SizeExact ==
    hit = {} /\ pc = "empty" => queue_size = pressed - Len(delivered)

\* Whatever was lost before, a key that has become the head is returned.
HeadDelivered == \A k \in Keys : head = k ~> k \in Delivered
=============================================================================
