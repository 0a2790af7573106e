------------------------------- MODULE Vector -------------------------------
(***************************************************************************)
(* Vector, src/include/utils/vector.h: a singly linked list of nodes on    *)
(* the heap and a count of them.  The state of all vectors and their nodes *)
(* is one record; an operator takes it before a call and gives it after.   *)
(* Positions in a list are counted from 0, as in the code.                 *)
(***************************************************************************)
EXTENDS Integers, FiniteSets

CONSTANTS
    Vectors,
    Values,         \* what the nodes hold
    Bigger(_, _),   \* the function given to sort
    NODES           \* bound: nodes on the heap at a time

Nodes == 1 .. NODES
nullptr == 0
Freed == -1         \* the link of a node that has been deleted

ASSUME VectorAssumption == NODES \in Nat

\* What "the first parameter is bigger than the second" has to mean for sort: values
\* neither of which is bigger may differ, and are then all alike to the others.
StrictOrder ==
    /\ \A x, y \in Values : Bigger(x, y) => ~ Bigger(y, x)
    /\ \A x, y, z \in Values : Bigger(x, z) => Bigger(x, y) \/ Bigger(y, z)

ASSUME BiggerAssumption == StrictOrder

VARIABLE lists      \* [head, vector_size: of a vector; next, data: of a node]

Empty ==
    [head |-> [v \in Vectors |-> nullptr],
     vector_size |-> [v \in Vectors |-> 0],
     next |-> [n \in Nodes |-> Freed],
     data |-> [n \in Nodes |-> Freed]]

-----------------------------------------------------------------------------
(* Nodes *)

Allocated(l) == {n \in Nodes : l.next[n] # Freed}

\* A node for a new element; without memory append stops the kernel.
FreeNodes(l) == Nodes \ Allocated(l)
new_node(l) == CHOOSE n \in FreeNodes(l) : \A m \in FreeNodes(l) : n <= m

delete(l, n) == [l EXCEPT !.next[n] = Freed, !.data[n] = Freed]

\* The node a loop over v is at after i turns.
Chain(l, v) ==
    LET at[i \in 0 .. NODES] ==
          IF i = 0 THEN l.head[v]
          ELSE IF at[i - 1] \in {nullptr, Freed} THEN at[i - 1]
          ELSE l.next[at[i - 1]]
    IN  at

Reached(l, v) == {Chain(l, v)[i] : i \in 0 .. NODES} \ {nullptr}
LastNode(l, v) == CHOOSE n \in Reached(l, v) : l.next[n] = nullptr

panic_if_illegal_index(l, v, index) == index \notin 0 .. l.vector_size[v] - 1

get_node(l, v, index) == Chain(l, v)[index]
get(l, v, index) == l.data[get_node(l, v, index)]

-----------------------------------------------------------------------------
(* append, remove, pop_back, copying *)

Resized(l, v, d) == [l EXCEPT !.vector_size[v] = @ + d]

append_node(l, v, n) ==
    Resized(IF l.head[v] = nullptr THEN [l EXCEPT !.head[v] = n]
            ELSE [l EXCEPT !.next[LastNode(l, v)] = n], v, 1)

append(l, v, d) ==
    LET n == new_node(l)
    IN  append_node([l EXCEPT !.next[n] = nullptr, !.data[n] = d], v, n)

remove(l, v, index) ==
    LET before == get_node(l, v, index - 1)
        node   == get_node(l, v, index)
    IN  Resized(delete(IF index = 0 THEN [l EXCEPT !.head[v] = l.next[node]]
                       ELSE [l EXCEPT !.next[before] = l.next[node]], node), v, -1)

free_data(l, v) ==
    [l EXCEPT !.head[v] = nullptr,
              !.next = [n \in Nodes |-> IF n \in Reached(l, v) THEN Freed ELSE @[n]],
              !.data = [n \in Nodes |-> IF n \in Reached(l, v) THEN Freed ELSE @[n]]]

empty_vector(l, v) == [l EXCEPT !.head[v] = nullptr, !.vector_size[v] = 0]

pop_back(l, v) ==
    IF l.vector_size[v] = 1 THEN empty_vector(free_data(l, v), v)
    ELSE LET last   == LastNode(l, v)
             before == CHOOSE n \in Reached(l, v) : l.next[n] = last
         IN  Resized([delete(l, last) EXCEPT !.next[before] = nullptr], v, -1)

\* The size of other is read at every turn.
append_vector(l, v, other) ==
    LET copied[i \in 0 .. l.vector_size[other]] ==
          IF i = 0 THEN l
          ELSE append(copied[i - 1], v, get(copied[i - 1], other, i - 1))
    IN  copied[l.vector_size[other]]

\* Mutant: the nodes of the vector that is overwritten are not freed.
assign_Leaks(l, v, other) == append_vector(empty_vector(l, v), v, other)

\* operator=
assign(l, v, other) ==
    append_vector(empty_vector(free_data(l, v), v), v, other)

-----------------------------------------------------------------------------
(* sort: insertion by relinking.  s is the list with the local variables of *)
(* the loop: iterator, iterator_prev, sorted_area_size.                     *)

\* Mutant: an element goes before the equal ones.
Behind_NotStable(l, v, s) ==
    {i \in 0 .. s.sorted_area_size - 1 :
       ~ Bigger(l.data[s.iterator], get(l, v, i))}

\* The places of the sorted area whose element is bigger than the iterator's.
Behind(l, v, s) ==
    {i \in 0 .. s.sorted_area_size - 1 :
       Bigger(get(l, v, i), l.data[s.iterator])}

\* Before the first one of them, if there is one; not looked for at the first
\* element, which has no iterator_prev.
Inserted(l, v, s) ==
    LET place    == CHOOSE i \in Behind(l, v, s) : \A j \in Behind(l, v, s) : i <= j
        unlinked == [l EXCEPT !.next[s.iterator_prev] = l.next[s.iterator]]
        linked   == [unlinked EXCEPT !.next[s.iterator] = get_node(l, v, place)]
    IN  IF place = 0 THEN [linked EXCEPT !.head[v] = s.iterator]
        ELSE [linked EXCEPT !.next[get_node(l, v, place - 1)] = s.iterator]

Turn(s, v) ==
    LET moves == s.iterator_prev # nullptr /\ Behind(s.l, v, s) # {}
    IN  [l |-> IF moves THEN Inserted(s.l, v, s) ELSE s.l,
         iterator |-> s.l.next[s.iterator],
         iterator_prev |-> IF moves THEN s.iterator_prev ELSE s.iterator,
         sorted_area_size |-> s.sorted_area_size + 1]

sort(l, v) ==
    LET turn[i \in 0 .. NODES] ==
          IF i = 0
          THEN [l |-> l, iterator |-> l.head[v], iterator_prev |-> nullptr,
                sorted_area_size |-> 0]
          ELSE IF turn[i - 1].iterator = nullptr THEN turn[i - 1]
          ELSE Turn(turn[i - 1], v)
    IN  turn[NODES].l

-----------------------------------------------------------------------------

VectorInit == lists = Empty

AppendElement(v) ==
    /\ FreeNodes(lists) # {}
    /\ \E d \in Values : lists' = append(lists, v, d)

RemoveElement(v) ==
    \E index \in 0 .. NODES :
       /\ ~ panic_if_illegal_index(lists, v, index)
       /\ lists' = remove(lists, v, index)

PopBack(v) == lists.vector_size[v] # 0 /\ lists' = pop_back(lists, v)

Assign(v, w) ==
    /\ lists.vector_size[w] <= Cardinality(FreeNodes(lists)) + lists.vector_size[v]
    /\ lists' = assign(lists, v, w)

Sort(v) == lists' = sort(lists, v)

VectorNext ==
    \E v \in Vectors :
       \/ AppendElement(v) \/ RemoveElement(v) \/ PopBack(v) \/ Sort(v)
       \/ \E w \in Vectors : Assign(v, w)

VectorSpec == VectorInit /\ [][VectorNext]_lists

-----------------------------------------------------------------------------
(* Properties *)

\* Every node on the heap belongs to exactly one vector, no vector reaches a
\* deleted node, and the count is the number of nodes a loop meets: no call
\* leaks a node, frees one twice or shares one with a copy.
NodesAccounted ==
    /\ UNION {Reached(lists, v) : v \in Vectors} = Allocated(lists)
    /\ \A v, w \in Vectors : v # w => Reached(lists, v) \cap Reached(lists, w) = {}
    /\ \A v \in Vectors : lists.vector_size[v] = Cardinality(Reached(lists, v))

ContentOf(l, v) == [i \in 1 .. l.vector_size[v] |-> get(l, v, i - 1)]

\* The linked lists are the sequences they stand for; sort is stable.
Promise == INSTANCE Lists WITH content <- [v \in Vectors |-> ContentOf(lists, v)]
ImplementsLists == Promise!Spec
=============================================================================
