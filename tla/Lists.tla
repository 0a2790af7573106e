------------------------------- MODULE Lists --------------------------------
(***************************************************************************)
(* What Vector promises (src/include/utils/vector.h): a sequence of values *)
(* that can be appended to, shortened, copied and sorted.                  *)
(***************************************************************************)
EXTENDS Integers, Sequences, SequencesExt

CONSTANTS
    Values,          \* what the sequences hold
    Bigger(_, _)     \* "Returns true if the first parameter is bigger"

VARIABLE content     \* vector -> the sequence it holds

Init == content = [v \in DOMAIN content |-> <<>>]

Put(v, s) == content' = [content EXCEPT ![v] = s]

append(v, d) == Put(v, Append(content[v], d))

remove(v, index) == index \in DOMAIN content[v] /\ Put(v, RemoveAt(content[v], index))

pop_back(v) == content[v] # <<>> /\ Put(v, Front(content[v]))

\* A vector assigned to itself loses what it holds.
assign(v, w) == Put(v, IF v = w THEN <<>> ELSE content[w])

\* Sorted, with equal values in the order they had.
InOrder(s, p) ==
    \A i, j \in DOMAIN s : i < j =>
       \/ Bigger(s[p[j]], s[p[i]])
       \/ ~ Bigger(s[p[i]], s[p[j]]) /\ p[i] < p[j]

Orders(s) ==
    {p \in [DOMAIN s -> DOMAIN s] : \A i, j \in DOMAIN s : i # j => p[i] # p[j]}

sort(v) ==
    \E p \in Orders(content[v]) :
       /\ InOrder(content[v], p)
       /\ Put(v, [i \in DOMAIN content[v] |-> content[v][p[i]]])

Next ==
    \E v \in DOMAIN content :
       \/ \E d \in Values : append(v, d)
       \/ \E i \in DOMAIN content[v] : remove(v, i)
       \/ pop_back(v)
       \/ \E w \in DOMAIN content : assign(v, w)
       \/ sort(v)

Spec == Init /\ [][Next]_content
=============================================================================
