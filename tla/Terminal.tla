------------------------------ MODULE Terminal ------------------------------
(***************************************************************************)
(* What the text console promises: a page of ROWS rows on which text runs  *)
(* on from column to column and row to row, and which moves up by one row  *)
(* when there is no row left.  A place is a number: row * COLUMNS + column.*)
(* A full page moves up only when the next character needs the room.       *)
(***************************************************************************)
EXTENDS Integers

CONSTANTS ROWS, COLUMNS, Letters

Blank == " "
Glyphs == Letters \cup {Blank}

CELLS == ROWS * COLUMNS
Cells == 0 .. CELLS - 1
Off == -1      \* the place of a console that writes behind its page

VARIABLES
    page,      \* cell -> the glyph it shows
    at         \* the place of the next character, CELLS on a full page

vars == <<page, at>>

Init == page = [i \in Cells |-> Blank] /\ at = 0

MovedUp(p) ==
    [i \in Cells |-> IF i + COLUMNS \in Cells THEN p[i + COLUMNS] ELSE Blank]

\* The paper and the place after c has been typed at place a.
Typed(t, c) ==
    LET up    == t.at = CELLS
        place == IF up THEN CELLS - COLUMNS ELSE t.at
    IN  [page |-> [IF up THEN MovedUp(t.page) ELSE t.page EXCEPT ![place] = c],
         at   |-> place + 1]

Now == [page |-> page, at |-> at]
Becomes(t) == page' = t.page /\ at' = t.at

Type(c) == at # Off /\ Becomes(Typed(Now, c))

Tab ==
    /\ at # Off
    /\ Becomes(Typed(Typed(Typed(Typed(Now, Blank), Blank), Blank), Blank))

Newline ==
    /\ at \in Cells
    /\ LET start == (at \div COLUMNS + 1) * COLUMNS
       IN  Becomes(IF start = CELLS
                   THEN [page |-> MovedUp(page), at |-> CELLS - COLUMNS]
                   ELSE [page |-> page, at |-> start])

Backspace ==
    /\ at # Off
    /\ LET place == IF at = 0 THEN 0 ELSE at - 1
       IN  Becomes([page |-> [page EXCEPT ![place] = Blank], at |-> place])

Clear == at # Off /\ Becomes([page |-> [i \in Cells |-> Blank], at |-> 0])

\* The one thing that goes wrong: a newline on a full page.  From then on
\* nothing is promised about the page, until the place is on it again.
FallOff == at = CELLS /\ at' = Off
OffPage == at = Off /\ at' \in Cells \cup {CELLS, Off}

Next ==
    \/ \E c \in Letters \cup {Blank} : Type(c)
    \/ Tab \/ Newline \/ Backspace \/ Clear
    \/ (FallOff \/ OffPage) /\ page' \in [Cells -> Glyphs]

Spec == Init /\ [][Next]_vars
=============================================================================
