--------------------------- MODULE VgaText_proofs ---------------------------
(***************************************************************************)
(* For every size of the screen: the position is always a column of the    *)
(* screen, and behind the screen it stands at the start of a row first;    *)
(* and the console shows what the terminal of module Terminal shows.       *)
(***************************************************************************)
EXTENDS VgaText, WellFoundedInduction, TLAPS

\* A screen whose position putchar may find or leave.
Placed(s) == s.x \in Columns /\ s.y \in Nat /\ (s.y = ROWS => s.x = 0)

LEMMA StorePlaced ==
    ASSUME NEW s, NEW c, Placed(s) PROVE Placed(Store(s, c))
BY DEF Placed, Store

LEMMA AdvancePlaced ==
    ASSUME NEW s, s.x \in Columns, s.y \in Nat, s.y # ROWS
    PROVE  Placed(next_char(s))
BY ScreenAssumption DEF Placed, next_char, next_line, At, Columns

\* scroll leaves the position at the start of the last row.
LEMMA ScrolledOnScreen ==
    ASSUME NEW s, s.x \in Columns, s.y \in Nat
    PROVE  /\ Placed(scrolled(s))
           /\ scrolled(s).y # ROWS
           /\ scrolled(s).y <= s.y
<1>1. CASE s.y = ROWS
  <2>1. scrolled(s) = scroll(s)
    BY <1>1 DEF scrolled
  <2>2. scroll(s).x = 0 /\ scroll(s).y = s.y - 1
    BY DEF scroll, At
  <2>3. QED
    BY <1>1, <2>1, <2>2, ScreenAssumption DEF Placed, Columns
<1>2. CASE s.y # ROWS
  BY <1>2 DEF scrolled, Placed
<1>3. QED BY <1>1, <1>2

LEMMA PutPlaced ==
    ASSUME NEW s, NEW c, s.x \in Columns, s.y \in Nat
    PROVE  /\ Placed(put_regular_char(s, c))
           /\ put_regular_char(s, c).y # ROWS
           /\ Placed(put_and_advance(s, c))
<1> DEFINE t == scrolled(s)
<1>1. Placed(t) /\ t.y # ROWS
  BY ScrolledOnScreen
<1>2. Store(t, c).x = t.x /\ Store(t, c).y = t.y
  BY DEF Store
<1>3. Placed(Store(t, c)) /\ Store(t, c).y # ROWS
  BY <1>1, <1>2 DEF Placed
<1>4. put_regular_char(s, c) = Store(t, c)
  BY DEF put_regular_char
<1>5. Placed(next_char(Store(t, c)))
  <2> HIDE DEF t
  <2>1. Store(t, c).x \in Columns /\ Store(t, c).y \in Nat /\ Store(t, c).y # ROWS
    BY <1>3 DEF Placed
  <2>2. QED BY <2>1, AdvancePlaced
<1>6. QED
  BY <1>3, <1>4, <1>5 DEF put_and_advance

LEMMA BackInColumns ==
    ASSUME NEW s, Placed(s)
    PROVE  back(s).x \in Columns /\ back(s).y \in Nat
BY ScreenAssumption DEF Placed, back, At, Columns

LEMMA TabPlaced ==
    ASSUME NEW s, Placed(s)
    PROVE  Placed(tab(s))
<1> DEFINE p(t) == put_and_advance(t, Blank)
<1>1. ASSUME NEW t, Placed(t) PROVE Placed(p(t))
  BY <1>1, PutPlaced DEF Placed
<1>2. tab(s) = p(p(p(p(s))))
  BY DEF tab
<1> HIDE DEF p
<1>3. Placed(p(s)) BY <1>1
<1>4. Placed(p(p(s))) BY <1>1, <1>3
<1>5. Placed(p(p(p(s)))) BY <1>1, <1>4
<1>6. Placed(p(p(p(p(s))))) BY <1>1, <1>5
<1>7. QED BY <1>2, <1>6

\* Whatever is printed, from any position.
LEMMA PutcharPlaced ==
    ASSUME NEW s, NEW c, Placed(s)
    PROVE  Placed(after_putchar(s, c))
<1>1. CASE c = Newline
  <2>1. next_line(s).x \in Columns /\ next_line(s).y \in Nat
    BY ScreenAssumption DEF next_line, At, Columns, Placed
  <2>2. Placed(scrolled(next_line(s)))
    BY <2>1, ScrolledOnScreen
  <2>3. QED BY <1>1, <2>2 DEF after_putchar, Newline, Tab, Backspace
<1>2. CASE c = Tab
  BY <1>2, TabPlaced DEF after_putchar, Newline, Tab, Backspace
<1>3. CASE c = Backspace
  <2>1. Placed(put_regular_char(back(s), Blank))
    BY BackInColumns, PutPlaced
  <2>2. QED BY <1>3, <2>1 DEF after_putchar, Newline, Tab, Backspace
<1>4. CASE c \notin Control
  <2>1. Placed(put_and_advance(s, c))
    BY PutPlaced DEF Placed
  <2>2. QED BY <1>4, <2>1 DEF after_putchar, Control
<1>5. QED BY <1>1, <1>2, <1>3, <1>4 DEF Control

Position == x \in Columns /\ y \in Nat /\ PendingAtRowStart

\* The position stays in the columns of the screen, and where it first leaves
\* the rows, at y = ROWS, it stands at the start of a row: the scroll that
\* putchar then makes drops no character of a row begun.
THEOREM PositionOK == Spec => []Position
<1>1. Init => Position
  BY ScreenAssumption DEF Init, Position, PendingAtRowStart, Columns
<1>2. Position /\ [Next]_vars => Position'
  <2> SUFFICES ASSUME Position, [Next]_vars PROVE Position'
    OBVIOUS
  <2>1. ASSUME NEW c, putchar(c) PROVE Position'
    <3>1. Placed(Screen)
      BY DEF Position, PendingAtRowStart, Placed, Screen
    <3>2. Placed(after_putchar(Screen, c))
      BY <3>1, PutcharPlaced
    <3>3. x' = after_putchar(Screen, c).x /\ y' = after_putchar(Screen, c).y
      BY <2>1 DEF putchar, Becomes
    <3>4. QED
      BY <3>2, <3>3 DEF Position, PendingAtRowStart, Placed
  <2>2. CASE clear
    <3>1. x' = 0 /\ y' = 0
      BY <2>2 DEF clear, Becomes, At
    <3>2. QED
      BY <3>1, ScreenAssumption DEF Position, PendingAtRowStart, Columns
  <2>3. CASE UNCHANGED vars
    BY <2>3 DEF Position, PendingAtRowStart, vars
  <2>4. QED
    BY <2>1, <2>2, <2>3 DEF Next
<1>3. QED BY <1>1, <1>2, PTL DEF Spec

\* The part of it that the runs check.
THEOREM PendingOK == Spec => []PendingAtRowStart
<1>1. Position => PendingAtRowStart
  BY DEF Position
<1>2. QED BY <1>1, PositionOK, PTL
-----------------------------------------------------------------------------
(* Turns of a loop *)

LEMMA Smallest ==
    ASSUME NEW T \in SUBSET Nat, T # {}
    PROVE  \E m \in T : \A n \in T : m <= n
<1> DEFINE R == OpToRel(<, Nat)
<1>1. IsWellFoundedOn(R, Nat)
  BY NatLessThanWellFounded
<1>2. \A a, b \in Nat : (<<a, b>> \in R) = (a < b)
  BY DEF OpToRel
<1> HIDE DEF R
<1>3. PICK m \in T : \A n \in T : <<n, m>> \notin R
  BY <1>1, WFMin
<1>4. ASSUME NEW n \in T PROVE m <= n
  <2>1. m \in Nat /\ n \in Nat /\ ~ (n < m)
    BY <1>2, <1>3
  <2>2. QED
    BY <2>1
<1>5. QED
  BY <1>4

\* What holds before a loop and is carried on by each of its turns holds after every
\* turn: turn n leads from a state in S[n - 1] to one in S[n].
LEMMA TurnsKept ==
    ASSUME NEW N \in Nat, NEW f, NEW S, f[0] \in S[0],
           \A n \in 1 .. N : f[n - 1] \in S[n - 1] => f[n] \in S[n]
    PROVE  \A n \in 0 .. N : f[n] \in S[n]
<1> DEFINE T == {n \in 0 .. N : f[n] \notin S[n]}
<1>1. SUFFICES ASSUME T # {} PROVE FALSE
  OBVIOUS
<1>2. PICK m \in T : \A n \in T : m <= n
  <2>1. T \in SUBSET Nat
    OBVIOUS
  <2> HIDE DEF T
  <2>2. QED
    BY <1>1, <2>1, Smallest
<1>3. m \in 0 .. N /\ f[m] \notin S[m]
  OBVIOUS
<1>4. m \in 1 .. N
  BY <1>3
<1>5. f[m - 1] \in S[m - 1]
  <2>1. m - 1 \in 0 .. N /\ ~ (m <= m - 1)
    BY <1>4
  <2>2. m - 1 \notin T
    BY <1>2, <2>1
  <2>3. QED
    BY <2>1, <2>2
<1>6. QED
  BY <1>3, <1>4, <1>5

Carries(N, F, S) == \A n \in 1 .. N : \A t \in S[n - 1] : F[n][t] \in S[n]

\* f[n] is where turn n of a loop from s leads, turn n doing F[n].
Runs(f, N, F, s) == f = [n \in 0 .. N |-> IF n = 0 THEN s ELSE F[n][f[n - 1]]]

\* A loop exists for every number of turns, if each is defined where the last one
\* ends.
LEMMA TurnsExist ==
    ASSUME NEW N \in Nat, NEW F, NEW S, NEW s \in S[0], Carries(N, F, S)
    PROVE  \E f : Runs(f, N, F, s) /\ \A n \in 0 .. N : f[n] \in S[n]
<1> DEFINE Is(f, k) == f = [n \in 0 .. k |-> IF n = 0 THEN s ELSE F[n][f[n - 1]]]
           T == {k \in Nat : \A f : ~ Is(f, k)}
<1>1. ASSUME T # {} PROVE FALSE
  <2>1. PICK k \in T : \A j \in T : k <= j
    BY <1>1, Smallest
  <2>2. CASE k = 0
    <3> DEFINE f == [n \in 0 .. 0 |-> s]
    <3>1. Is(f, 0)
      OBVIOUS
    <3>2. QED
      BY <2>2, <3>1
  <2>3. CASE k # 0
    <3>1. k - 1 \in Nat /\ k - 1 \notin T
      <4>1. k \in Nat
        BY <2>1
      <4> HIDE DEF T
      <4>2. QED
        BY <2>1, <2>3, <4>1
    <3>2. PICK g : Is(g, k - 1)
      <4> HIDE DEF Is
      <4>1. QED
        BY <3>1
    <3> DEFINE f == [n \in 0 .. k |-> IF n = 0 THEN s ELSE F[n][g[n - 1]]]
    <3>3. \A n \in 0 .. k - 1 : f[n] = g[n]
      BY <3>1, <3>2
    <3>4. \A n \in 0 .. k : n # 0 => n - 1 \in 0 .. k - 1
      BY <3>1
    <3> HIDE DEF Is
    <3>5. f = [n \in 0 .. k |-> IF n = 0 THEN s ELSE F[n][f[n - 1]]]
      BY <3>3, <3>4
    <3>6. Is(f, k)
      BY <3>5 DEF Is
    <3>7. QED
      BY <2>1, <3>6
  <2>4. QED
    BY <2>2, <2>3
<1>2. N \notin T
  BY <1>1
<1>3. PICK f : Is(f, N)
  BY <1>2
<1>4. f[0] = s /\ \A n \in 1 .. N : f[n] = F[n][f[n - 1]]
  <2>1. 0 \in 0 .. N /\ \A n \in 1 .. N : n \in 0 .. N /\ n # 0
    OBVIOUS
  <2>2. QED
    BY <1>3, <2>1
<1>5. \A n \in 1 .. N : f[n - 1] \in S[n - 1] => f[n] \in S[n]
  BY <1>4 DEF Carries
<1>6. \A n \in 0 .. N : f[n] \in S[n]
  BY <1>4, <1>5, TurnsKept
<1>7. QED
  BY <1>3, <1>6 DEF Runs
-----------------------------------------------------------------------------
(* Places *)

\* A character in every cell, and the screens that show such a page.
Pages == [Cells -> Glyphs]
Screens == [x : Nat, y : Nat, memory : Pages]

\* The place of the first column of a row.
Start(row) == row * COLUMNS

LEMMA StartsOK ==
    /\ Start(0) = 0
    /\ Start(ROWS) = ROWS * COLUMNS
    /\ \A row \in Nat : Start(row) \in Nat /\ Start(row + 1) = Start(row) + COLUMNS
    /\ \A row \in Nat \ {0} : Start(row - 1) = Start(row) - COLUMNS
    /\ \A row \in Nat : row < ROWS => Start(row) + COLUMNS <= Start(ROWS)
    /\ \A row \in Nat : row >= ROWS => Start(row) >= Start(ROWS)
<1>1. ROWS \in Nat /\ COLUMNS \in Nat
  BY ScreenAssumption
<1>2. \A row \in Nat : row * COLUMNS \in Nat /\ (row + 1) * COLUMNS = row * COLUMNS + COLUMNS
  BY <1>1
<1>3. \A row \in Nat \ {0} : (row - 1) * COLUMNS = row * COLUMNS - COLUMNS
  BY <1>1
<1>4. \A row \in Nat : row + 1 <= ROWS => (row + 1) * COLUMNS <= ROWS * COLUMNS
  BY <1>1
<1>5. \A row \in Nat : row >= ROWS => row * COLUMNS >= ROWS * COLUMNS
  BY <1>1
<1>6. QED
  BY <1>1, <1>2, <1>3, <1>4, <1>5 DEF Start

\* A position in a row of the screen is one of its cells, and no other is.
LEMMA OffsetOK ==
    ASSUME NEW s, s.x \in Columns, s.y \in Nat
    PROVE  /\ Offset(s) = s.x + Start(s.y)
           /\ Offset(s) \in Nat
           /\ (Offset(s) \in Cells) = (s.y < ROWS)
           /\ Start(s.y) <= Offset(s) /\ Offset(s) < Start(s.y + 1)
           /\ s.y < ROWS => Offset(s) < Start(ROWS)
<1>1. Offset(s) = s.x + Start(s.y)
  BY DEF Offset, Start
<1>2. Cells = 0 .. Start(ROWS) - 1
  BY DEF Cells, Start
<1>3. s.x \in Nat /\ s.x < COLUMNS /\ COLUMNS \in Nat /\ ROWS \in Nat
  BY ScreenAssumption DEF Columns
<1>4. Start(s.y) \in Nat /\ Start(s.y + 1) = Start(s.y) + COLUMNS /\ Start(ROWS) \in Nat
  <2>1. \A row \in Nat : Start(row) \in Nat /\ Start(row + 1) = Start(row) + COLUMNS
    BY StartsOK
  <2>2. QED
    BY <1>3, <2>1
<1>5. IF s.y < ROWS THEN Start(s.y) + COLUMNS <= Start(ROWS) ELSE Start(s.y) >= Start(ROWS)
  <2>1. \A row \in Nat : row < ROWS => Start(row) + COLUMNS <= Start(ROWS)
    BY StartsOK
  <2>2. \A row \in Nat : row >= ROWS => Start(row) >= Start(ROWS)
    BY StartsOK
  <2>3. QED
    BY <1>3, <2>1, <2>2
<1>6. Offset(s) \in Nat /\ Start(s.y) <= Offset(s) /\ Offset(s) < Start(s.y + 1)
  BY <1>1, <1>3, <1>4
<1>7. CASE s.y < ROWS
  <2>1. Offset(s) < Start(ROWS)
    BY <1>1, <1>3, <1>4, <1>5, <1>7
  <2>2. QED
    BY <1>1, <1>2, <1>4, <1>6, <1>7, <2>1
<1>8. CASE ~ (s.y < ROWS)
  <2>1. ~ (Offset(s) < Start(ROWS))
    BY <1>1, <1>3, <1>4, <1>5, <1>8
  <2>2. QED
    BY <1>1, <1>2, <1>4, <1>6, <1>8, <2>1
<1>9. QED
  BY <1>7, <1>8
-----------------------------------------------------------------------------
(* What scroll does *)

\* The screen with this page in its memory.
Showing(s, m) == [x |-> s.x, y |-> s.y, memory |-> m]

\* The first n characters of a row are those of the next row.
RowCopied(m, row, n) ==
    [a \in Cells |-> IF Start(row) <= a /\ a < Start(row) + n THEN m[a + COLUMNS] ELSE m[a]]

\* The rows before this one have moved up.
MovedTo(m, row) == [a \in Cells |-> IF a < Start(row) THEN m[a + COLUMNS] ELSE m[a]]

\* The first n characters of the last row are blank.
Filled(m, n) ==
    [a \in Cells |-> IF Start(ROWS - 1) <= a /\ a < Start(ROWS - 1) + n THEN Blank ELSE m[a]]

\* One character more, of the row below.
LEMMA OneCopied ==
    ASSUME NEW m \in Pages, NEW row \in Nat, row + 1 < ROWS, NEW n \in 1 .. COLUMNS
    PROVE  /\ Start(row) + n - 1 \in Cells
           /\ Start(row) + n - 1 + COLUMNS \in Cells
           /\ [RowCopied(m, row, n - 1) EXCEPT ![Start(row) + n - 1] =
                 RowCopied(m, row, n - 1)[Start(row) + n - 1 + COLUMNS]]
              = RowCopied(m, row, n)
<1> DEFINE b == Start(row)
<1>1. /\ b \in Nat /\ COLUMNS \in Nat /\ ROWS \in Nat
      /\ Start(ROWS) \in Nat
      /\ b + COLUMNS + COLUMNS <= Start(ROWS)
      /\ Cells = 0 .. Start(ROWS) - 1
  <2>1. COLUMNS \in Nat /\ ROWS \in Nat
    BY ScreenAssumption
  <2>2. b \in Nat /\ Start(row + 1) = b + COLUMNS
    BY StartsOK
  <2>3. \A r \in Nat : r < ROWS => Start(r) + COLUMNS <= Start(ROWS)
    BY StartsOK
  <2>4. \A r \in Nat : Start(r) \in Nat
    BY StartsOK
  <2>5. Start(row + 1) + COLUMNS <= Start(ROWS) /\ Start(ROWS) \in Nat
    BY <2>1, <2>3, <2>4
  <2>6. QED
    BY <2>1, <2>2, <2>5 DEF Cells, Start
<1> HIDE DEF b
<1>2. b + n - 1 \in Cells /\ b + n - 1 + COLUMNS \in Cells
  BY <1>1
<1>3. RowCopied(m, row, n - 1)[b + n - 1 + COLUMNS] = m[b + n - 1 + COLUMNS]
  BY <1>1, <1>2 DEF RowCopied, b
<1>4. ASSUME NEW a \in Cells
      PROVE  (IF a = b + n - 1 THEN m[b + n - 1 + COLUMNS] ELSE RowCopied(m, row, n - 1)[a])
             = RowCopied(m, row, n)[a]
  <2>1. RowCopied(m, row, n)[a] = IF b <= a /\ a < b + n THEN m[a + COLUMNS] ELSE m[a]
    BY DEF RowCopied, b
  <2>2. RowCopied(m, row, n - 1)[a] =
          IF b <= a /\ a < b + (n - 1) THEN m[a + COLUMNS] ELSE m[a]
    BY DEF RowCopied, b
  <2>3. CASE a = b + n - 1
    BY <1>1, <2>1, <2>3
  <2>4. CASE a # b + n - 1
    <3>1. (b <= a /\ a < b + n) = (b <= a /\ a < b + (n - 1))
      BY <1>1, <2>4
    <3>2. QED
      BY <2>1, <2>2, <2>4, <3>1
  <2>5. QED
    BY <2>3, <2>4
<1>5. [RowCopied(m, row, n - 1) EXCEPT ![b + n - 1] = m[b + n - 1 + COLUMNS]]
      = [a \in Cells |-> IF a = b + n - 1 THEN m[b + n - 1 + COLUMNS]
                         ELSE RowCopied(m, row, n - 1)[a]]
  BY DEF RowCopied
<1>6. RowCopied(m, row, n) = [a \in Cells |-> RowCopied(m, row, n)[a]]
  BY DEF RowCopied
<1>7. [RowCopied(m, row, n - 1) EXCEPT ![b + n - 1] = m[b + n - 1 + COLUMNS]]
      = RowCopied(m, row, n)
  BY <1>4, <1>5, <1>6
<1>8. QED
  BY <1>2, <1>3, <1>7 DEF b

\* copy_row copies the row whole, in spite of going through putchar.
LEMMA CopyRowOK ==
    ASSUME NEW s \in Screens, NEW row \in Nat, row + 1 < ROWS
    PROVE  copy_row(s, row + 1, row) = Showing(s, RowCopied(s.memory, row, COLUMNS))
<1> DEFINE Turn(t, i) ==
             next_char(Store(At(t, i - 1, row),
                             t.memory[Offset(At(t, i - 1, row + 1))]))
           g == [i \in 0 .. COLUMNS |->
                  IF i = 0 THEN s
                  ELSE [x |-> IF i = COLUMNS THEN 0 ELSE i,
                        y |-> IF i = COLUMNS THEN row + 1 ELSE row,
                        memory |-> RowCopied(s.memory, row, i)]]
           Loop(f) == f = [i \in 0 .. COLUMNS |-> IF i = 0 THEN s ELSE Turn(f[i - 1], i)]
           copied == CHOOSE f : Loop(f)
<1>1. COLUMNS \in Nat \ {0}
  BY ScreenAssumption
<1>2. copy_row(s, row + 1, row) = At(copied[COLUMNS], s.x, s.y)
  BY DEF copy_row
<1> HIDE DEF copied
<1>3. g[0] = s
  BY <1>1
<1>4. \A i \in 1 .. COLUMNS :
        g[i] = [x |-> IF i = COLUMNS THEN 0 ELSE i,
                y |-> IF i = COLUMNS THEN row + 1 ELSE row,
                memory |-> RowCopied(s.memory, row, i)]
  BY <1>1
<1>5. \A i \in 1 .. COLUMNS : i - 1 \in 0 .. COLUMNS
  BY <1>1
<1>6. s.memory \in Pages /\ s.memory = RowCopied(s.memory, row, 0)
  <2>1. s.memory \in Pages
    BY DEF Screens
  <2>2. \A a \in Cells : ~ (Start(row) <= a /\ a < Start(row) + 0)
    BY StartsOK DEF Cells
  <2>3. s.memory = [a \in Cells |-> s.memory[a]]
    BY <2>1 DEF Pages
  <2>4. QED
    BY <2>1, <2>2, <2>3 DEF RowCopied
<1>7. ASSUME NEW i \in 0 .. COLUMNS PROVE g[i].memory = RowCopied(s.memory, row, i)
  <2>1. CASE i = 0
    BY <1>3, <1>6, <2>1
  <2>2. CASE i # 0
    BY <1>1, <1>4, <2>2
  <2>3. QED
    BY <2>1, <2>2
<1> HIDE DEF g
<1>8. ASSUME NEW i \in 1 .. COLUMNS PROVE Turn(g[i - 1], i) = g[i]
  <2> DEFINE m == RowCopied(s.memory, row, i - 1)
             c == m[Start(row) + i - 1 + COLUMNS]
  <2>1. g[i - 1].memory = m
    BY <1>5, <1>7
  <2>2. Offset(At(g[i - 1], i - 1, row + 1)) = Start(row) + i - 1 + COLUMNS
    <3>1. Start(row + 1) = Start(row) + COLUMNS /\ Start(row) \in Nat
      BY StartsOK
    <3>2. Offset(At(g[i - 1], i - 1, row + 1)) = i - 1 + Start(row + 1)
      BY DEF Offset, At, Start
    <3>3. QED
      BY <1>1, <3>1, <3>2
  <2>3. Offset(At(g[i - 1], i - 1, row)) = Start(row) + i - 1
    <3>1. Start(row) \in Nat
      BY StartsOK
    <3>2. Offset(At(g[i - 1], i - 1, row)) = i - 1 + Start(row)
      BY DEF Offset, At, Start
    <3>3. QED
      BY <1>1, <3>1, <3>2
  <2>4. Start(row) + i - 1 \in Cells
        /\ [m EXCEPT ![Start(row) + i - 1] = c] = RowCopied(s.memory, row, i)
    BY <1>6, OneCopied
  <2> HIDE DEF m, c
  <2>5. Store(At(g[i - 1], i - 1, row), c)
        = [x |-> i - 1, y |-> row, memory |-> RowCopied(s.memory, row, i)]
    <3>1. /\ At(g[i - 1], i - 1, row).x = i - 1
          /\ At(g[i - 1], i - 1, row).y = row
          /\ At(g[i - 1], i - 1, row).memory = m
      BY <2>1 DEF At
    <3>2. QED
      BY <2>3, <2>4, <3>1 DEF Store
  <2>6. Turn(g[i - 1], i) = next_char(Store(At(g[i - 1], i - 1, row), c))
    BY <2>1, <2>2 DEF c
  <2>7. next_char([x |-> i - 1, y |-> row, memory |-> RowCopied(s.memory, row, i)]) = g[i]
    BY <1>1, <1>4 DEF next_char, next_line, At
  <2>8. QED
    BY <2>5, <2>6, <2>7
<1> HIDE DEF Turn
<1>9. Loop(g)
  <2>1. g = [i \in 0 .. COLUMNS |-> g[i]]
    BY DEF g
  <2>2. \A i \in 0 .. COLUMNS : g[i] = IF i = 0 THEN s ELSE Turn(g[i - 1], i)
    BY <1>1, <1>3, <1>8
  <2>3. QED
    BY <2>1, <2>2
<1>10. Loop(copied)
  <2> HIDE DEF Loop
  <2>1. QED
    BY <1>9 DEF copied
<1>11. copied[0] = s /\ \A i \in 1 .. COLUMNS : copied[i] = Turn(copied[i - 1], i)
  BY <1>1, <1>10
<1>12. \A i \in 0 .. COLUMNS : copied[i] = g[i]
  <2> DEFINE S == [i \in 0 .. COLUMNS |-> {g[i]}]
  <2>1. copied[0] \in S[0]
    BY <1>1, <1>3, <1>11
  <2>2. \A i \in 1 .. COLUMNS : copied[i - 1] \in S[i - 1] => copied[i] \in S[i]
    BY <1>5, <1>8, <1>11
  <2>3. \A i \in 0 .. COLUMNS : S[i] = {g[i]}
    OBVIOUS
  <2> HIDE DEF S
  <2>4. \A i \in 0 .. COLUMNS : copied[i] \in S[i]
    BY <1>1, <2>1, <2>2, TurnsKept
  <2>5. QED
    BY <2>3, <2>4
<1>13. copied[COLUMNS].memory = RowCopied(s.memory, row, COLUMNS)
  BY <1>1, <1>7, <1>12
<1>14. QED
  BY <1>2, <1>13 DEF At, Showing
\* One row more.
LEMMA OneMoved ==
    ASSUME NEW m \in Pages, NEW row \in 1 .. ROWS - 1
    PROVE  /\ MovedTo(m, row - 1) \in Pages
           /\ RowCopied(MovedTo(m, row - 1), row - 1, COLUMNS) = MovedTo(m, row)
<1> DEFINE b == Start(row - 1)
           p == MovedTo(m, row - 1)
<1>1. /\ b \in Nat /\ COLUMNS \in Nat
      /\ Start(row) = b + COLUMNS
      /\ b + COLUMNS + COLUMNS <= Start(ROWS)
      /\ Cells = 0 .. Start(ROWS) - 1
      /\ Start(ROWS) \in Nat
  <2>1. COLUMNS \in Nat /\ ROWS \in Nat /\ row \in Nat /\ row - 1 \in Nat /\ row < ROWS
    BY ScreenAssumption
  <2>2. \A r \in Nat : Start(r) \in Nat /\ Start(r + 1) = Start(r) + COLUMNS
    BY StartsOK
  <2>3. \A r \in Nat : r < ROWS => Start(r) + COLUMNS <= Start(ROWS)
    BY StartsOK
  <2>4. b \in Nat /\ Start((row - 1) + 1) = b + COLUMNS /\ Start(ROWS) \in Nat
    BY <2>1, <2>2
  <2>5. (row - 1) + 1 = row
    BY <2>1
  <2>6. Start(row) + COLUMNS <= Start(ROWS)
    BY <2>1, <2>3
  <2>7. QED
    BY <2>1, <2>4, <2>5, <2>6 DEF Cells, Start
<1>2. \A a \in Cells : p[a] = IF a < b THEN m[a + COLUMNS] ELSE m[a]
  BY DEF MovedTo
<1>3. \A a \in Cells : a < b + COLUMNS => a + COLUMNS \in Cells
  BY <1>1
<1>4. p \in Pages
  <2> HIDE DEF b
  <2>1. \A a \in Cells : m[a] \in Glyphs /\ (a < b => m[a + COLUMNS] \in Glyphs)
    BY <1>1, <1>3 DEF Pages
  <2>2. p = [a \in Cells |-> IF a < b THEN m[a + COLUMNS] ELSE m[a]]
    BY DEF MovedTo, b
  <2>3. QED
    BY <2>1, <2>2 DEF Pages
<1>5. ASSUME NEW a \in Cells
      PROVE  RowCopied(p, row - 1, COLUMNS)[a] = MovedTo(m, row)[a]
  <2>1. RowCopied(p, row - 1, COLUMNS)[a]
        = IF b <= a /\ a < b + COLUMNS THEN p[a + COLUMNS] ELSE p[a]
    BY DEF RowCopied
  <2>2. MovedTo(m, row)[a] = IF a < b + COLUMNS THEN m[a + COLUMNS] ELSE m[a]
    BY <1>1 DEF MovedTo
  <2> HIDE DEF b, p
  <2>3. CASE b <= a /\ a < b + COLUMNS
    <3>1. a + COLUMNS \in Cells /\ ~ (a + COLUMNS < b)
      BY <1>1, <1>3, <2>3
    <3>2. p[a + COLUMNS] = m[a + COLUMNS]
      BY <1>2, <3>1
    <3>3. QED
      BY <2>1, <2>2, <2>3, <3>2
  <2>4. CASE ~ (b <= a /\ a < b + COLUMNS)
    <3>1. (a < b) = (a < b + COLUMNS)
      BY <1>1, <2>4
    <3>2. QED
      BY <1>2, <2>1, <2>2, <2>4, <3>1
  <2>5. QED
    BY <2>3, <2>4
<1>6. RowCopied(p, row - 1, COLUMNS) = [a \in Cells |-> RowCopied(p, row - 1, COLUMNS)[a]]
      /\ MovedTo(m, row) = [a \in Cells |-> MovedTo(m, row)[a]]
  BY DEF RowCopied, MovedTo
<1>7. QED
  BY <1>4, <1>5, <1>6

LEMMA RowsMovedOK ==
    ASSUME NEW s \in Screens
    PROVE  rows_moved(s) = Showing(s, MovedTo(s.memory, ROWS - 1))
<1> DEFINE g == [row \in 0 .. ROWS - 1 |-> Showing(s, MovedTo(s.memory, row))]
           Loop(f) == f = [row \in 0 .. ROWS - 1 |->
                             IF row = 0 THEN s ELSE copy_row(f[row - 1], row, row - 1)]
           moved == CHOOSE f : Loop(f)
<1>1. ROWS \in Nat \ {0, 1} /\ ROWS - 1 \in Nat
  BY ScreenAssumption
<1>2. rows_moved(s) = moved[ROWS - 1]
  BY DEF rows_moved
<1> HIDE DEF moved
<1>3. s.memory \in Pages /\ s = Showing(s, s.memory)
  BY DEF Screens, Showing
<1>4. g[0] = s
  <2>1. \A a \in Cells : ~ (a < Start(0))
    BY StartsOK DEF Cells
  <2>2. s.memory = [a \in Cells |-> s.memory[a]]
    BY <1>3 DEF Pages
  <2>3. MovedTo(s.memory, 0) = s.memory
    BY <2>1, <2>2 DEF MovedTo
  <2>4. QED
    BY <1>1, <1>3, <2>3
<1>5. ASSUME NEW row \in 1 .. ROWS - 1
      PROVE  row - 1 \in 0 .. ROWS - 1 /\ copy_row(g[row - 1], row, row - 1) = g[row]
  <2> DEFINE t == g[row - 1]
  <2>1. row - 1 \in 0 .. ROWS - 1 /\ row - 1 \in Nat /\ (row - 1) + 1 = row /\ row < ROWS
    BY <1>1
  <2>2. t = Showing(s, MovedTo(s.memory, row - 1))
    BY <2>1
  <2>3. t \in Screens /\ t.memory = MovedTo(s.memory, row - 1) /\ t.x = s.x /\ t.y = s.y
    BY <1>3, <2>2, OneMoved DEF Screens, Showing
  <2>4. g[row] = Showing(s, MovedTo(s.memory, row))
    BY <1>1
  <2> HIDE DEF t, g
  <2>5. copy_row(t, (row - 1) + 1, row - 1) = Showing(t, RowCopied(t.memory, row - 1, COLUMNS))
    BY <2>1, <2>3, CopyRowOK
  <2>6. RowCopied(t.memory, row - 1, COLUMNS) = MovedTo(s.memory, row)
    BY <1>3, <2>3, OneMoved
  <2>7. copy_row(t, row, row - 1) = g[row]
    BY <2>1, <2>3, <2>4, <2>5, <2>6 DEF Showing
  <2>8. QED
    BY <2>1, <2>7 DEF t
<1>6. Loop(g)
  <2>1. g = [row \in 0 .. ROWS - 1 |-> g[row]]
    OBVIOUS
  <2> HIDE DEF g
  <2>2. \A row \in 0 .. ROWS - 1 :
          g[row] = IF row = 0 THEN s ELSE copy_row(g[row - 1], row, row - 1)
    BY <1>1, <1>4, <1>5
  <2>3. QED
    BY <2>1, <2>2
<1> HIDE DEF g
<1>7. Loop(moved)
  <2> HIDE DEF Loop
  <2>1. QED
    BY <1>6 DEF moved
<1>8. moved[0] = s
      /\ \A row \in 1 .. ROWS - 1 : moved[row] = copy_row(moved[row - 1], row, row - 1)
  <2>1. 0 \in 0 .. ROWS - 1 /\ \A row \in 1 .. ROWS - 1 : row \in 0 .. ROWS - 1 /\ row # 0
    BY <1>1
  <2>2. QED
    BY <1>7, <2>1
<1>9. moved[ROWS - 1] = g[ROWS - 1]
  <2> DEFINE S == [row \in 0 .. ROWS - 1 |-> {g[row]}]
  <2>1. moved[0] \in S[0]
    BY <1>1, <1>4, <1>8
  <2>2. \A row \in 1 .. ROWS - 1 : moved[row - 1] \in S[row - 1] => moved[row] \in S[row]
    BY <1>5, <1>8
  <2>3. \A row \in 0 .. ROWS - 1 : S[row] = {g[row]}
    OBVIOUS
  <2> HIDE DEF S
  <2>4. \A row \in 0 .. ROWS - 1 : moved[row] \in S[row]
    BY <1>1, <2>1, <2>2, TurnsKept
  <2>5. QED
    BY <1>1, <2>3, <2>4
<1>10. QED
  BY <1>1, <1>2, <1>9 DEF g
\* One blank more in the last row.
LEMMA OneFilled ==
    ASSUME NEW m \in Pages, NEW n \in 1 .. COLUMNS
    PROVE  /\ Start(ROWS - 1) + n - 1 \in Cells
           /\ [Filled(m, n - 1) EXCEPT ![Start(ROWS - 1) + n - 1] = Blank] = Filled(m, n)
<1> DEFINE b == Start(ROWS - 1)
<1>1. /\ b \in Nat /\ COLUMNS \in Nat
      /\ b + COLUMNS = Start(ROWS)
      /\ Cells = 0 .. Start(ROWS) - 1
  <2>1. COLUMNS \in Nat /\ ROWS \in Nat \ {0} /\ ROWS - 1 \in Nat
    BY ScreenAssumption
  <2>2. \A r \in Nat : Start(r) \in Nat
    BY StartsOK
  <2>3. \A r \in Nat \ {0} : Start(r - 1) = Start(r) - COLUMNS
    BY StartsOK
  <2>4. b \in Nat /\ Start(ROWS) \in Nat /\ b = Start(ROWS) - COLUMNS
    BY <2>1, <2>2, <2>3
  <2>5. QED
    BY <2>1, <2>4 DEF Cells, Start
<1> HIDE DEF b
<1>2. b + n - 1 \in Cells
  BY <1>1
<1>3. ASSUME NEW a \in Cells
      PROVE  (IF a = b + n - 1 THEN Blank ELSE Filled(m, n - 1)[a]) = Filled(m, n)[a]
  <2>1. /\ Filled(m, n)[a] = IF b <= a /\ a < b + n THEN Blank ELSE m[a]
        /\ Filled(m, n - 1)[a] = IF b <= a /\ a < b + (n - 1) THEN Blank ELSE m[a]
    BY DEF Filled, b
  <2>2. CASE a = b + n - 1
    BY <1>1, <2>1, <2>2
  <2>3. CASE a # b + n - 1
    <3>1. (b <= a /\ a < b + n) = (b <= a /\ a < b + (n - 1))
      BY <1>1, <2>3
    <3>2. QED
      BY <2>1, <2>3, <3>1
  <2>4. QED
    BY <2>2, <2>3
<1>4. [Filled(m, n - 1) EXCEPT ![b + n - 1] = Blank]
      = [a \in Cells |-> IF a = b + n - 1 THEN Blank ELSE Filled(m, n - 1)[a]]
  BY DEF Filled
<1>5. Filled(m, n) = [a \in Cells |-> Filled(m, n)[a]]
  BY DEF Filled
<1>6. [Filled(m, n - 1) EXCEPT ![b + n - 1] = Blank] = Filled(m, n)
  BY <1>3, <1>4, <1>5
<1>7. QED
  BY <1>2, <1>6 DEF b

\* Rows moved up and a blank last row are the page moved up.
LEMMA MovedUpOK ==
    ASSUME NEW m \in Pages
    PROVE  /\ Filled(MovedTo(m, ROWS - 1), COLUMNS) = Paper!MovedUp(m)
           /\ MovedTo(m, ROWS - 1) \in Pages
           /\ Paper!MovedUp(m) \in Pages
<1> DEFINE b == Start(ROWS - 1)
<1>1. /\ b \in Nat /\ COLUMNS \in Nat
      /\ b + COLUMNS = Start(ROWS)
      /\ Cells = 0 .. Start(ROWS) - 1
      /\ Paper!Cells = Cells
  <2>1. COLUMNS \in Nat /\ ROWS \in Nat \ {0} /\ ROWS - 1 \in Nat
    BY ScreenAssumption
  <2>2. \A r \in Nat : Start(r) \in Nat
    BY StartsOK
  <2>3. \A r \in Nat \ {0} : Start(r - 1) = Start(r) - COLUMNS
    BY StartsOK
  <2>4. b \in Nat /\ Start(ROWS) \in Nat /\ b = Start(ROWS) - COLUMNS
    BY <2>1, <2>2, <2>3
  <2>5. QED
    BY <2>1, <2>4 DEF Cells, Start, Paper!Cells, Paper!CELLS
<1>2. MovedTo(m, ROWS - 1) = [a \in Cells |-> IF a < b THEN m[a + COLUMNS] ELSE m[a]]
  BY DEF MovedTo
<1> HIDE DEF b
<1>3. \A a \in Cells : (a < b) = (a + COLUMNS \in Cells)
  BY <1>1
<1>4. MovedTo(m, ROWS - 1) \in Pages
  BY <1>2, <1>3 DEF Pages
<1>5. Paper!MovedUp(m) = [a \in Cells |-> IF a + COLUMNS \in Cells THEN m[a + COLUMNS] ELSE Blank]
  BY <1>1 DEF Paper!MovedUp, Paper!Blank, Blank
<1>6. Filled(MovedTo(m, ROWS - 1), COLUMNS)
      = [a \in Cells |-> IF b <= a /\ a < b + COLUMNS THEN Blank ELSE MovedTo(m, ROWS - 1)[a]]
  BY DEF Filled, b
<1>7. ASSUME NEW a \in Cells
      PROVE  (IF b <= a /\ a < b + COLUMNS THEN Blank ELSE MovedTo(m, ROWS - 1)[a])
             = IF a + COLUMNS \in Cells THEN m[a + COLUMNS] ELSE Blank
  <2>1. (b <= a /\ a < b + COLUMNS) = ~ (a < b)
    BY <1>1
  <2>2. MovedTo(m, ROWS - 1)[a] = IF a < b THEN m[a + COLUMNS] ELSE m[a]
    BY <1>2
  <2>3. QED
    BY <1>3, <2>1, <2>2
<1>8. Paper!MovedUp(m) \in Pages
  BY <1>5 DEF Pages, Glyphs
<1>9. QED
  BY <1>4, <1>5, <1>6, <1>7, <1>8

\* scroll moves the page up by one row.
LEMMA ScrollOK ==
    ASSUME NEW s \in Screens, s.y = ROWS
    PROVE  scroll(s) = [x |-> 0, y |-> ROWS - 1, memory |-> Paper!MovedUp(s.memory)]
<1> DEFINE m == MovedTo(s.memory, ROWS - 1)
           Turn(t, col) == Store(At(t, col - 1, s.y - 1), Blank)
           g == [col \in 0 .. COLUMNS |->
                   IF col = 0 THEN rows_moved(s)
                   ELSE [x |-> col - 1, y |-> s.y - 1, memory |-> Filled(m, col)]]
           Loop(f) == f = [col \in 0 .. COLUMNS |->
                             IF col = 0 THEN rows_moved(s) ELSE Turn(f[col - 1], col)]
           filled == CHOOSE f : Loop(f)
<1>1. COLUMNS \in Nat \ {0}
  BY ScreenAssumption
<1>2. scroll(s) = At(filled[COLUMNS], 0, s.y - 1)
  BY DEF scroll
<1> HIDE DEF filled
<1>3. s.memory \in Pages /\ m \in Pages
  BY MovedUpOK DEF Screens
<1>4. rows_moved(s).memory = Filled(m, 0)
  <2>1. \A a \in Cells : ~ (Start(ROWS - 1) <= a /\ a < Start(ROWS - 1) + 0)
    <3>1. ROWS - 1 \in Nat
      BY ScreenAssumption
    <3>2. Start(ROWS - 1) \in Nat
      BY <3>1, StartsOK
    <3>3. QED
      BY <3>2 DEF Cells
  <2> HIDE DEF m
  <2>2. m = [a \in Cells |-> m[a]]
    BY <1>3 DEF Pages
  <2>3. m = Filled(m, 0)
    BY <2>1, <2>2 DEF Filled
  <2>4. QED
    BY <2>3, RowsMovedOK DEF Showing, m
<1>5. g[0] = rows_moved(s)
  BY <1>1
<1>6. \A col \in 1 .. COLUMNS :
        /\ col - 1 \in 0 .. COLUMNS
        /\ g[col] = [x |-> col - 1, y |-> s.y - 1, memory |-> Filled(m, col)]
  BY <1>1
<1>7. \A col \in 0 .. COLUMNS : g[col].memory = Filled(m, col)
  <2> HIDE DEF m, g
  <2>1. \A col \in 0 .. COLUMNS : col = 0 \/ col \in 1 .. COLUMNS
    OBVIOUS
  <2>2. g[0].memory = Filled(m, 0)
    BY <1>4, <1>5
  <2>3. ASSUME NEW col \in 1 .. COLUMNS PROVE g[col].memory = Filled(m, col)
    <3>1. g[col] = [x |-> col - 1, y |-> s.y - 1, memory |-> Filled(m, col)]
      BY <1>6
    <3>2. QED
      BY <3>1
  <2>4. QED
    BY <2>1, <2>2, <2>3
<1> HIDE DEF m, g
<1>8. ASSUME NEW col \in 1 .. COLUMNS PROVE Turn(g[col - 1], col) = g[col]
  <2> DEFINE t == At(g[col - 1], col - 1, s.y - 1)
  <2>1. t.x = col - 1 /\ t.y = s.y - 1 /\ t.memory = Filled(m, col - 1)
    BY <1>6, <1>7 DEF At
  <2>2. Offset(t) = Start(ROWS - 1) + col - 1
    <3>1. ROWS - 1 \in Nat /\ s.y - 1 = ROWS - 1
      BY ScreenAssumption
    <3>2. Start(ROWS - 1) \in Nat
      BY <3>1, StartsOK
    <3>3. Offset(t) = col - 1 + Start(ROWS - 1)
      BY <2>1, <3>1 DEF Offset, Start
    <3>4. QED
      BY <3>2, <3>3
  <2>3. Start(ROWS - 1) + col - 1 \in Cells
        /\ [Filled(m, col - 1) EXCEPT ![Start(ROWS - 1) + col - 1] = Blank] = Filled(m, col)
    BY <1>3, OneFilled
  <2>4. Turn(g[col - 1], col) = Store(t, Blank)
    OBVIOUS
  <2> HIDE DEF t
  <2>5. QED
    BY <1>6, <2>1, <2>2, <2>3, <2>4 DEF Store
<1> HIDE DEF Turn
<1>9. Loop(g)
  <2>1. g = [col \in 0 .. COLUMNS |-> g[col]]
    BY DEF g
  <2>2. \A col \in 0 .. COLUMNS :
          g[col] = IF col = 0 THEN rows_moved(s) ELSE Turn(g[col - 1], col)
    BY <1>1, <1>5, <1>8
  <2>3. QED
    BY <2>1, <2>2
<1>10. Loop(filled)
  <2> HIDE DEF Loop
  <2>1. QED
    BY <1>9 DEF filled
<1>11. filled[0] = rows_moved(s)
       /\ \A col \in 1 .. COLUMNS : filled[col] = Turn(filled[col - 1], col)
  BY <1>1, <1>10
<1>12. filled[COLUMNS] = g[COLUMNS]
  <2> DEFINE S == [col \in 0 .. COLUMNS |-> {g[col]}]
  <2>1. \A col \in 0 .. COLUMNS : S[col] = {g[col]}
    OBVIOUS
  <2> HIDE DEF S
  <2>2. filled[0] \in S[0]
    BY <1>1, <1>5, <1>11, <2>1
  <2>3. ASSUME NEW col \in 1 .. COLUMNS, filled[col - 1] \in S[col - 1]
        PROVE  filled[col] \in S[col]
    <3>1. filled[col - 1] = g[col - 1]
      BY <1>6, <2>1, <2>3
    <3>2. filled[col] = g[col]
      BY <1>8, <1>11, <3>1
    <3>3. QED
      BY <2>1, <3>2
  <2>4. \A col \in 0 .. COLUMNS : filled[col] \in S[col]
    BY <1>1, <2>2, <2>3, TurnsKept
  <2>5. QED
    BY <1>1, <2>1, <2>4
<1>13. filled[COLUMNS].memory = Paper!MovedUp(s.memory)
  <2>1. filled[COLUMNS].memory = Filled(m, COLUMNS)
    BY <1>1, <1>7, <1>12
  <2>2. QED
    BY <1>3, <2>1, MovedUpOK DEF m
<1>14. QED
  BY <1>2, <1>13 DEF At
-----------------------------------------------------------------------------
(* What putchar shows *)

\* A screen as a page of text, and the screens of which the page says all: those
\* whose position is on the page or right behind it.
Shown(s) == [page |-> s.memory, at |-> Offset(s)]
OnPage(s) == s \in Screens /\ Placed(s) /\ s.y <= ROWS

LEMMA StoreTyped ==
    ASSUME NEW s \in Screens, NEW c \in Glyphs
    PROVE  /\ Store(s, c) \in Screens
           /\ Offset(s) \in Cells => Store(s, c).memory = [s.memory EXCEPT ![Offset(s)] = c]
           /\ Store(s, c).x = s.x /\ Store(s, c).y = s.y
           /\ Offset(Store(s, c)) = Offset(s)
BY DEF Store, Screens, Pages, Offset

LEMMA NextTyped ==
    ASSUME NEW s \in Screens
    PROVE  next_char(s) \in Screens /\ next_line(s) \in Screens
BY ScreenAssumption DEF next_char, next_line, At, Screens

LEMMA ScrolledTyped ==
    ASSUME NEW s \in Screens
    PROVE  scrolled(s) \in Screens
<1>1. CASE s.y = ROWS
  <2>1. s.memory \in Pages /\ ROWS - 1 \in Nat
    BY ScreenAssumption DEF Screens
  <2>2. Paper!MovedUp(s.memory) \in Pages
    BY <2>1, MovedUpOK
  <2>3. [x |-> 0, y |-> ROWS - 1, memory |-> Paper!MovedUp(s.memory)] \in Screens
    BY <2>1, <2>2 DEF Screens
  <2>4. QED
    BY <1>1, <2>3, ScrollOK DEF scrolled
<1>2. CASE s.y # ROWS
  BY <1>2 DEF scrolled
<1>3. QED
  BY <1>1, <1>2

LEMMA PutTyped ==
    ASSUME NEW s \in Screens, NEW c \in Glyphs
    PROVE  put_regular_char(s, c) \in Screens /\ put_and_advance(s, c) \in Screens
BY ScrolledTyped, StoreTyped, NextTyped DEF put_regular_char, put_and_advance

\* The page is full where the position is behind the last row, and a scroll makes
\* room on it.
LEMMA ScrolledShows ==
    ASSUME NEW s, OnPage(s)
    PROVE  /\ scrolled(s) \in Screens
           /\ scrolled(s).x \in Columns
           /\ scrolled(s).y < ROWS
           /\ (Offset(s) = Paper!CELLS) = (s.y = ROWS)
           /\ scrolled(s).memory = IF s.y = ROWS THEN Paper!MovedUp(s.memory) ELSE s.memory
           /\ Offset(scrolled(s)) = IF s.y = ROWS THEN Paper!CELLS - COLUMNS ELSE Offset(s)
<1>1. s \in Screens /\ s.x \in Columns /\ s.y \in Nat /\ s.y <= ROWS /\ (s.y = ROWS => s.x = 0)
  BY DEF OnPage, Placed
<1>2. ROWS \in Nat \ {0} /\ ROWS - 1 \in Nat /\ 0 \in Columns /\ COLUMNS \in Nat
  BY ScreenAssumption DEF Columns
<1>3. Paper!CELLS = Start(ROWS) /\ Start(ROWS) \in Nat
      /\ Start(ROWS - 1) \in Nat /\ Start(ROWS - 1) = Start(ROWS) - COLUMNS
  <2>1. \A r \in Nat : Start(r) \in Nat
    BY StartsOK
  <2>2. \A r \in Nat \ {0} : Start(r - 1) = Start(r) - COLUMNS
    BY StartsOK
  <2>3. QED
    BY <1>2, <2>1, <2>2 DEF Start, Paper!CELLS
<1>4. scrolled(s) \in Screens
  BY <1>1, ScrolledTyped
<1>5. CASE s.y = ROWS
  <2> DEFINE t == [x |-> 0, y |-> ROWS - 1, memory |-> Paper!MovedUp(s.memory)]
  <2>1. scrolled(s) = t
    BY <1>1, <1>5, ScrollOK DEF scrolled
  <2>2. Offset(s) = 0 + Start(ROWS)
    BY <1>1, <1>5 DEF Offset, Start
  <2>3. t.x = 0 /\ t.y = ROWS - 1 /\ t.memory = Paper!MovedUp(s.memory)
    OBVIOUS
  <2>4. Offset(t) = 0 + Start(ROWS - 1)
    BY DEF Offset, Start
  <2> HIDE DEF t
  <2>5. QED
    BY <1>2, <1>3, <1>4, <1>5, <2>1, <2>2, <2>3, <2>4
<1>6. CASE s.y # ROWS
  <2>1. scrolled(s) = s
    BY <1>6 DEF scrolled
  <2>2. s.y < ROWS
    BY <1>1, <1>2, <1>6
  <2>3. Offset(s) < Start(ROWS) /\ Offset(s) \in Nat
    BY <1>1, <2>2, OffsetOK
  <2>4. QED
    BY <1>1, <1>3, <1>6, <2>1, <2>2, <2>3
<1>7. QED
  BY <1>5, <1>6

\* On the page the position runs on by one place.
LEMMA AdvanceShows ==
    ASSUME NEW s \in Screens, s.x \in Columns, s.y < ROWS
    PROVE  /\ OnPage(next_char(s))
           /\ Offset(next_char(s)) = Offset(s) + 1
           /\ next_char(s).memory = s.memory
<1>1. ROWS \in Nat /\ COLUMNS \in Nat \ {0} /\ s.x \in Nat /\ s.y \in Nat
  BY ScreenAssumption DEF Screens
<1>2. Placed(next_char(s)) /\ next_char(s) \in Screens
  BY <1>1, AdvancePlaced, NextTyped
<1>3. next_char(s).memory = s.memory /\ next_char(s).y <= s.y + 1
  BY <1>1 DEF next_char, next_line, At
<1>4. Offset(next_char(s)) = Offset(s) + 1
  <2>1. Start(s.y) \in Nat /\ Start(s.y + 1) = Start(s.y) + COLUMNS
    BY <1>1, StartsOK
  <2>2. Offset(s) = s.x + Start(s.y)
    BY DEF Offset, Start
  <2>3. CASE s.x + 1 = COLUMNS
    <3>1. Offset(next_char(s)) = 0 + Start(s.y + 1)
      BY <2>3 DEF next_char, next_line, At, Offset, Start
    <3>2. QED
      BY <1>1, <2>1, <2>2, <2>3, <3>1
  <2>4. CASE s.x + 1 # COLUMNS
    <3>1. Offset(next_char(s)) = s.x + 1 + Start(s.y)
      BY <2>4 DEF next_char, At, Offset, Start
    <3>2. QED
      BY <1>1, <2>1, <2>2, <3>1
  <2>5. QED
    BY <2>3, <2>4
<1>5. next_char(s).y <= ROWS
  <2>1. next_char(s).y \in Nat
    BY <1>2 DEF Screens
  <2>2. QED
    BY <1>1, <1>3, <2>1
<1>6. QED
  BY <1>2, <1>3, <1>4, <1>5 DEF OnPage

\* A character printed is a character typed.
LEMMA TypedOK ==
    ASSUME NEW s, OnPage(s), NEW c \in Glyphs
    PROVE  /\ OnPage(put_and_advance(s, c))
           /\ Shown(put_and_advance(s, c)) = Paper!Typed(Shown(s), c)
<1> DEFINE t == scrolled(s)
           u == Store(t, c)
<1>1. /\ t \in Screens /\ t.x \in Columns /\ t.y < ROWS
      /\ (Offset(s) = Paper!CELLS) = (s.y = ROWS)
      /\ t.memory = IF s.y = ROWS THEN Paper!MovedUp(s.memory) ELSE s.memory
      /\ Offset(t) = IF s.y = ROWS THEN Paper!CELLS - COLUMNS ELSE Offset(s)
  BY ScrolledShows
<1>2. put_and_advance(s, c) = next_char(u)
  BY DEF put_and_advance, put_regular_char
<1> HIDE DEF t
<1>3. Offset(t) \in Cells
  BY <1>1, OffsetOK DEF Screens
<1>4. /\ u \in Screens /\ u.x = t.x /\ u.y = t.y /\ Offset(u) = Offset(t)
      /\ u.memory = [t.memory EXCEPT ![Offset(t)] = c]
  BY <1>1, <1>3, StoreTyped
<1> HIDE DEF u
<1>5. /\ OnPage(next_char(u))
      /\ Offset(next_char(u)) = Offset(t) + 1
      /\ next_char(u).memory = u.memory
  BY <1>1, <1>4, AdvanceShows
<1>6. Shown(next_char(u)) = [page |-> [t.memory EXCEPT ![Offset(t)] = c], at |-> Offset(t) + 1]
  BY <1>4, <1>5 DEF Shown
<1>7. Paper!Typed(Shown(s), c) = [page |-> [t.memory EXCEPT ![Offset(t)] = c], at |-> Offset(t) + 1]
  BY <1>1 DEF Shown, Paper!Typed
<1>8. QED
  BY <1>2, <1>5, <1>6, <1>7
LEMMA TabOK ==
    ASSUME NEW s, OnPage(s)
    PROVE  /\ OnPage(tab(s))
           /\ Shown(tab(s)) =
                Paper!Typed(Paper!Typed(Paper!Typed(Paper!Typed(Shown(s), Blank), Blank), Blank), Blank)
<1> DEFINE p(t) == put_and_advance(t, Blank)
<1>1. ASSUME NEW t, OnPage(t)
      PROVE  OnPage(p(t)) /\ Shown(p(t)) = Paper!Typed(Shown(t), Blank)
  BY <1>1, TypedOK DEF Glyphs
<1>2. tab(s) = p(p(p(p(s))))
  BY DEF tab
<1> HIDE DEF p
<1>3. OnPage(p(s)) /\ Shown(p(s)) = Paper!Typed(Shown(s), Blank)
  BY <1>1
<1>4. OnPage(p(p(s))) /\ Shown(p(p(s))) = Paper!Typed(Shown(p(s)), Blank)
  BY <1>1, <1>3
<1>5. OnPage(p(p(p(s)))) /\ Shown(p(p(p(s)))) = Paper!Typed(Shown(p(p(s))), Blank)
  BY <1>1, <1>4
<1>6. OnPage(p(p(p(p(s))))) /\ Shown(p(p(p(p(s))))) = Paper!Typed(Shown(p(p(p(s)))), Blank)
  BY <1>1, <1>5
<1>7. QED
  BY <1>2, <1>3, <1>4, <1>5, <1>6

\* The row of a place.
LEMMA RowOfPlace ==
    ASSUME NEW w \in Nat \ {0}, NEW col \in 0 .. w - 1, NEW row \in Nat
    PROVE  (col + row * w) \div w = row
<1> DEFINE q == (col + row * w) \div w
<1>1. row * w \in Nat /\ col + row * w \in Nat
  OBVIOUS
<1>2. q \in Int /\ q * w <= col + row * w /\ col + row * w < q * w + w
  BY <1>1
<1>3. QED
  BY <1>2

\* A newline goes to the start of the next row, and scrolls at once.
LEMMA NewlineOK ==
    ASSUME NEW s, OnPage(s), s.y < ROWS
    PROVE  LET start == (Offset(s) \div COLUMNS + 1) * COLUMNS
           IN  Shown(scrolled(next_line(s))) =
                 IF start = Paper!CELLS
                 THEN [page |-> Paper!MovedUp(s.memory), at |-> Paper!CELLS - COLUMNS]
                 ELSE [page |-> s.memory, at |-> start]
<1> DEFINE t == next_line(s)
           start == (Offset(s) \div COLUMNS + 1) * COLUMNS
<1>1. s \in Screens /\ s.x \in Columns /\ s.y \in Nat /\ ROWS \in Nat
      /\ COLUMNS \in Nat \ {0} /\ 0 \in Columns
  BY ScreenAssumption DEF OnPage, Placed, Columns
<1>2. start = Start(s.y + 1)
  <2>1. Offset(s) \div COLUMNS = s.y
    BY <1>1, RowOfPlace DEF Offset, Columns
  <2>2. QED
    BY <2>1 DEF Start
<1>3. t \in Screens /\ t.x = 0 /\ t.y = s.y + 1 /\ t.memory = s.memory
  BY <1>1, NextTyped DEF next_line, At
<1>4. Offset(t) = Start(s.y + 1)
  <2>1. Start(s.y + 1) \in Nat
    <3>1. \A r \in Nat : Start(r) \in Nat
      BY StartsOK
    <3>2. QED
      BY <1>1, <3>1
  <2>2. Offset(t) = 0 + Start(s.y + 1)
    BY <1>3 DEF Offset, Start
  <2>3. QED
    BY <2>1, <2>2
<1> HIDE DEF t
<1>5. OnPage(t)
  BY <1>1, <1>3 DEF OnPage, Placed
<1>6. /\ (Offset(t) = Paper!CELLS) = (t.y = ROWS)
      /\ scrolled(t).memory = IF t.y = ROWS THEN Paper!MovedUp(s.memory) ELSE s.memory
      /\ Offset(scrolled(t)) = IF t.y = ROWS THEN Paper!CELLS - COLUMNS ELSE Offset(t)
  BY <1>3, <1>5, ScrolledShows
<1> HIDE DEF start
<1>7. Shown(scrolled(t)) = IF start = Paper!CELLS
                           THEN [page |-> Paper!MovedUp(s.memory), at |-> Paper!CELLS - COLUMNS]
                           ELSE [page |-> s.memory, at |-> start]
  BY <1>2, <1>4, <1>6 DEF Shown
<1>8. QED
  BY <1>7 DEF start, t

\* A backspace blanks the place before, if there is one.
LEMMA BackspaceOK ==
    ASSUME NEW s, OnPage(s)
    PROVE  LET place == IF Offset(s) = 0 THEN 0 ELSE Offset(s) - 1
           IN  Shown(put_regular_char(back(s), Blank)) =
                 [page |-> [s.memory EXCEPT ![place] = Blank], at |-> place]
<1> DEFINE place == IF Offset(s) = 0 THEN 0 ELSE Offset(s) - 1
           t == back(s)
<1>1. s \in Screens /\ s.x \in Columns /\ s.y \in Nat /\ ROWS \in Nat \ {0}
      /\ COLUMNS \in Nat \ {0} /\ s.x \in Nat /\ s.x < COLUMNS
      /\ s.y <= ROWS /\ (s.y = ROWS => s.x = 0)
  BY ScreenAssumption DEF OnPage, Placed, Columns
<1>2. Offset(s) = s.x + Start(s.y) /\ Start(s.y) \in Nat
  BY <1>1, StartsOK DEF Offset, Start
<1>3. t.memory = s.memory /\ t.x \in Columns /\ t.y \in Nat /\ t.y < ROWS /\ Offset(t) = place
      /\ t \in Screens
  <2>1. CASE s.x # 0
    <3>1. t = At(s, s.x - 1, s.y)
      BY <2>1 DEF back
    <3>2. Offset(t) = s.x - 1 + Start(s.y)
      BY <3>1 DEF At, Offset, Start
    <3>3. QED
      BY <1>1, <1>2, <2>1, <3>1, <3>2 DEF At, Columns, Screens
  <2>2. CASE s.x = 0 /\ s.y # 0
    <3>1. t = At(s, COLUMNS - 1, s.y - 1)
      BY <2>2 DEF back
    <3>2. Offset(t) = COLUMNS - 1 + Start(s.y - 1)
      BY <3>1 DEF At, Offset, Start
    <3>3. Start(s.y - 1) = Start(s.y) - COLUMNS /\ Start(s.y - 1) \in Nat
      <4>1. \A r \in Nat \ {0} : Start(r - 1) = Start(r) - COLUMNS
        BY StartsOK
      <4>2. \A r \in Nat : Start(r) \in Nat
        BY StartsOK
      <4>3. QED
        BY <1>1, <2>2, <4>1, <4>2
    <3>4. Offset(t) = place
      BY <1>1, <1>2, <2>2, <3>2, <3>3
    <3>5. QED
      BY <1>1, <2>2, <3>1, <3>4 DEF At, Columns, Screens
  <2>3. CASE s.x = 0 /\ s.y = 0
    <3>1. t = s
      BY <2>3 DEF back
    <3>2. Offset(s) = 0
      BY <1>2, <2>3, StartsOK
    <3>3. QED
      BY <1>1, <2>3, <3>1, <3>2
  <2>4. QED
    BY <2>1, <2>2, <2>3
<1> HIDE DEF t, place
<1>4. put_regular_char(t, Blank) = Store(t, Blank)
  BY <1>1, <1>3 DEF put_regular_char, scrolled
<1>5. Offset(t) \in Cells
  BY <1>3, OffsetOK
<1>6. Shown(Store(t, Blank)) = [page |-> [s.memory EXCEPT ![place] = Blank], at |-> place]
  BY <1>3, <1>5, StoreTyped DEF Shown, Glyphs
<1>7. QED
  BY <1>4, <1>6 DEF t, place
-----------------------------------------------------------------------------
(* What clear shows *)

\* The loop of clear: blanks from wherever the position is.
Cleared(s) ==
    CHOOSE f : f = [n \in 0 .. ROWS * COLUMNS |->
                      IF n = 0 THEN s ELSE put_and_advance(f[n - 1], Blank)]

LEMMA ClearedOK ==
    ASSUME NEW S, NEW s \in S[0],
           \A n \in 0 .. ROWS * COLUMNS : S[n] \subseteq Screens,
           \A n \in 1 .. ROWS * COLUMNS : \A t \in S[n - 1] : put_and_advance(t, Blank) \in S[n]
    PROVE  \A n \in 0 .. ROWS * COLUMNS : Cleared(s)[n] \in S[n]
<1> DEFINE N == ROWS * COLUMNS
           F == [n \in 1 .. N |-> [t \in Screens |-> put_and_advance(t, Blank)]]
           Loop(f) == f = [n \in 0 .. N |->
                             IF n = 0 THEN s ELSE put_and_advance(f[n - 1], Blank)]
<1>1. N \in Nat
  BY ScreenAssumption
<1>2. /\ \A n \in 0 .. N : S[n] \subseteq Screens
      /\ \A n \in 1 .. N : \A t \in S[n - 1] : put_and_advance(t, Blank) \in S[n]
  OBVIOUS
<1>3. Cleared(s) = CHOOSE f : Loop(f)
  BY DEF Cleared
<1> HIDE DEF N
<1>4. \A n \in 1 .. N : n - 1 \in 0 .. N
  BY <1>1
<1>5. \A n \in 1 .. N : \A t \in Screens : F[n][t] = put_and_advance(t, Blank)
  OBVIOUS
<1> HIDE DEF F
<1>6. Carries(N, F, S)
  BY <1>2, <1>4, <1>5 DEF Carries
<1>7. PICK f : Runs(f, N, F, s) /\ \A n \in 0 .. N : f[n] \in S[n]
  BY <1>1, <1>6, TurnsExist
<1>8. Loop(f)
  <2>1. \A n \in 0 .. N : n # 0 => F[n][f[n - 1]] = put_and_advance(f[n - 1], Blank)
    <3>1. \A n \in 0 .. N : n # 0 => n \in 1 .. N
      OBVIOUS
    <3>2. QED
      BY <1>2, <1>4, <1>5, <1>7, <3>1
  <2>2. QED
    BY <1>7, <2>1 DEF Runs
<1> DEFINE g == Cleared(s)
<1>9. Loop(g)
  <2> HIDE DEF Loop
  <2>1. QED
    BY <1>3, <1>8
<1> HIDE DEF g
<1>10. g[0] = s /\ \A n \in 1 .. N : g[n] = put_and_advance(g[n - 1], Blank)
  BY <1>1, <1>9
<1>11. \A n \in 1 .. N : g[n - 1] \in S[n - 1] => g[n] \in S[n]
  BY <1>2, <1>10
<1>12. \A n \in 0 .. N : g[n] \in S[n]
  BY <1>1, <1>10, <1>11, TurnsKept
<1>13. QED
  BY <1>12 DEF g, N

\* The last n places before the position are blank, and once the page has moved up,
\* so is all that follows.
Blanked(t, first, n) ==
    /\ \A i \in Cells : t.at - n <= i /\ i < t.at => t.page[i] = Blank
    /\ t.at = first + n \/ \A i \in Cells : i >= t.at => t.page[i] = Blank

LEMMA BlankTyped ==
    ASSUME NEW m \in Pages, NEW at \in 0 .. Paper!CELLS, NEW first \in Nat, NEW n \in Nat,
           Blanked([page |-> m, at |-> at], first, n)
    PROVE  Blanked(Paper!Typed([page |-> m, at |-> at], Blank), first, n + 1)
<1> DEFINE N == Paper!CELLS
           t == [page |-> m, at |-> at]
           u == Paper!Typed(t, Blank)
<1>1. N \in Nat /\ COLUMNS \in Nat \ {0} /\ N - COLUMNS \in Nat /\ Cells = 0 .. N - 1
  <2>1. COLUMNS \in Nat \ {0} /\ ROWS \in Nat \ {0} /\ ROWS - 1 \in Nat
    BY ScreenAssumption
  <2>2. \A r \in Nat : Start(r) \in Nat
    BY StartsOK
  <2>3. \A r \in Nat \ {0} : Start(r - 1) = Start(r) - COLUMNS
    BY StartsOK
  <2>4. N = Start(ROWS) /\ Cells = 0 .. N - 1
    BY DEF Start, Cells, Paper!CELLS
  <2>5. Start(ROWS) \in Nat /\ Start(ROWS) - COLUMNS \in Nat
    BY <2>1, <2>2, <2>3
  <2>6. QED
    BY <2>1, <2>4, <2>5
<1>2. /\ \A i \in Cells : at - n <= i /\ i < at => m[i] = Blank
      /\ at = first + n \/ \A i \in Cells : i >= at => m[i] = Blank
  BY DEF Blanked
<1>3. CASE at = N
  <2> DEFINE p == Paper!MovedUp(m)
  <2>1. u = [page |-> [p EXCEPT ![N - COLUMNS] = Blank], at |-> N - COLUMNS + 1]
    BY <1>3 DEF Paper!Typed, Paper!Blank, Blank
  <2>2. p = [i \in Cells |-> IF i + COLUMNS \in Cells THEN m[i + COLUMNS] ELSE Blank]
    BY <1>1 DEF Paper!MovedUp, Paper!Cells, Paper!Blank, Blank
  <2> HIDE DEF N, p
  <2>3. \A i \in Cells : i >= N - COLUMNS - n => p[i] = Blank
    <3>1. SUFFICES ASSUME NEW i \in Cells, i >= N - COLUMNS - n, i + COLUMNS \in Cells
                   PROVE  m[i + COLUMNS] = Blank
      BY <2>2
    <3>2. at - n <= i + COLUMNS /\ i + COLUMNS < at
      BY <1>1, <1>3, <3>1
    <3>3. QED
      BY <1>2, <3>1, <3>2
  <2>4. u.at = N - COLUMNS + 1 /\ \A i \in Cells : u.page[i] = IF i = N - COLUMNS THEN Blank ELSE p[i]
    <3>1. [p EXCEPT ![N - COLUMNS] = Blank]
          = [i \in Cells |-> IF i = N - COLUMNS THEN Blank ELSE p[i]]
      BY <2>2
    <3>2. u.at = N - COLUMNS + 1 /\ u.page = [p EXCEPT ![N - COLUMNS] = Blank]
      <4> HIDE DEF u
      <4>1. QED
        BY <2>1
    <3>3. QED
      BY <3>1, <3>2
  <2> HIDE DEF u
  <2>5. \A i \in Cells : u.at - (n + 1) <= i => u.page[i] = Blank
    BY <1>1, <2>3, <2>4
  <2>6. \A i \in Cells : i >= u.at => u.page[i] = Blank
    BY <1>1, <2>3, <2>4
  <2>7. QED
    BY <2>5, <2>6 DEF Blanked, u, t
<1>4. CASE at # N
  <2>1. u = [page |-> [m EXCEPT ![at] = Blank], at |-> at + 1]
    BY <1>4 DEF Paper!Typed, Paper!Blank, Blank
  <2>2. u.at = at + 1 /\ \A i \in Cells : u.page[i] = IF i = at THEN Blank ELSE m[i]
    BY <2>1 DEF Pages
  <2> HIDE DEF u, N
  <2>3. \A i \in Cells : u.at - (n + 1) <= i /\ i < u.at => u.page[i] = Blank
    BY <1>1, <1>2, <2>2
  <2>4. u.at = first + (n + 1) \/ \A i \in Cells : i >= u.at => u.page[i] = Blank
    BY <1>1, <1>2, <2>2
  <2>5. QED
    BY <2>3, <2>4 DEF Blanked, u, t
<1>5. QED
  BY <1>3, <1>4
\* clear leaves a blank page, wherever on the page it starts.
LEMMA ClearShows ==
    ASSUME NEW s, OnPage(s)
    PROVE  put_regular_char(Cleared(s)[ROWS * COLUMNS - 1], Blank).memory = [i \in Cells |-> Blank]
<1> DEFINE N == ROWS * COLUMNS
           first == Offset(s)
           S == [n \in 0 .. N |->
                   {t \in Screens : OnPage(t) /\ Blanked(Shown(t), first, n)}]
<1>1. N \in Nat \ {0} /\ Paper!CELLS = N /\ Cells = 0 .. N - 1
  BY ScreenAssumption DEF Paper!CELLS, Cells
<1>2. ASSUME NEW t, OnPage(t)
      PROVE  t \in Screens /\ t.memory \in Pages /\ Offset(t) \in 0 .. Paper!CELLS
  <2>1. t \in Screens /\ t.x \in Columns /\ t.y \in Nat /\ t.y <= ROWS /\ (t.y = ROWS => t.x = 0)
    BY <1>2 DEF OnPage, Placed
  <2>2. Offset(t) \in Nat /\ (Offset(t) \in Cells) = (t.y < ROWS)
    BY <2>1, OffsetOK
  <2>3. t.y = ROWS => Offset(t) = 0 + N
    BY <2>1 DEF Offset
  <2>4. ROWS \in Nat
    BY ScreenAssumption
  <2> HIDE DEF N
  <2>5. QED
    BY <1>1, <2>1, <2>2, <2>3, <2>4 DEF Screens
<1> HIDE DEF N
<1>3. ASSUME NEW n \in Nat, NEW t, OnPage(t), Blanked(Shown(t), first, n)
      PROVE  /\ OnPage(put_and_advance(t, Blank))
             /\ Blanked(Shown(put_and_advance(t, Blank)), first, n + 1)
  <2>1. t.memory \in Pages /\ Offset(t) \in 0 .. Paper!CELLS /\ first \in Nat
    BY <1>1, <1>2, <1>3
  <2>2. Shown(t) = [page |-> t.memory, at |-> Offset(t)]
    BY DEF Shown
  <2> HIDE DEF first
  <2>3. Blanked(Paper!Typed(Shown(t), Blank), first, n + 1)
    BY <1>3, <2>1, <2>2, BlankTyped
  <2>4. OnPage(put_and_advance(t, Blank))
        /\ Shown(put_and_advance(t, Blank)) = Paper!Typed(Shown(t), Blank)
    BY <1>3, TypedOK DEF Glyphs
  <2>5. QED
    BY <2>3, <2>4
<1>4. s \in S[0]
  <2>1. first \in 0 .. Paper!CELLS /\ s \in Screens
    BY <1>2
  <2>2. Shown(s).at = first
    BY DEF Shown
  <2> HIDE DEF first
  <2>3. Blanked(Shown(s), first, 0)
    BY <1>1, <2>1, <2>2 DEF Blanked
  <2>4. QED
    BY <1>1, <2>1, <2>3
<1>5. \A n \in 0 .. N : S[n] \subseteq Screens
  OBVIOUS
<1>6. ASSUME NEW n \in 1 .. N, NEW t \in S[n - 1]
      PROVE  put_and_advance(t, Blank) \in S[n]
  <2>1. n - 1 \in Nat /\ n - 1 \in 0 .. N /\ n \in 0 .. N /\ (n - 1) + 1 = n
    BY <1>1
  <2>2. OnPage(t) /\ Blanked(Shown(t), first, n - 1)
    BY <2>1
  <2> HIDE DEF first
  <2>3. /\ OnPage(put_and_advance(t, Blank))
        /\ Blanked(Shown(put_and_advance(t, Blank)), first, n)
    BY <1>3, <2>1, <2>2
  <2>4. put_and_advance(t, Blank) \in Screens
    BY <1>2, <2>3
  <2>5. QED
    BY <2>1, <2>3, <2>4
<1> DEFINE last == Cleared(s)[N - 1]
           u == put_and_advance(last, Blank)
<1>7. last \in S[N - 1]
  <2> HIDE DEF S
  <2>1. \A n \in 0 .. N : Cleared(s)[n] \in S[n]
    BY <1>4, <1>5, <1>6, ClearedOK DEF N
  <2>2. QED
    BY <1>1, <2>1
<1>8. OnPage(u) /\ Blanked(Shown(u), first, N)
  <2>1. N - 1 \in Nat /\ N - 1 \in 0 .. N /\ (N - 1) + 1 = N
    BY <1>1
  <2>2. OnPage(last) /\ Blanked(Shown(last), first, N - 1)
    BY <1>7, <2>1
  <2> HIDE DEF first, last
  <2>3. QED
    BY <1>3, <2>1, <2>2
<1> HIDE DEF last, u
<1>9. Offset(u) \in 0 .. N /\ first \in Nat /\ u.memory \in Pages
  BY <1>1, <1>2, <1>8
<1>10. Shown(u).page = u.memory /\ Shown(u).at = Offset(u)
  BY DEF Shown
<1> HIDE DEF first
<1>11. ASSUME NEW i \in Cells PROVE u.memory[i] = Blank
  BY <1>1, <1>8, <1>9, <1>10 DEF Blanked
<1>12. u.memory = [i \in Cells |-> Blank]
  BY <1>9, <1>11 DEF Pages
<1>13. put_regular_char(last, Blank).memory = u.memory
  BY DEF u, put_and_advance, next_char, next_line, At
<1>14. QED
  BY <1>12, <1>13 DEF last, N

\* And it keeps to characters from anywhere else.
LEMMA ClearTyped ==
    ASSUME NEW s \in Screens
    PROVE  put_regular_char(Cleared(s)[ROWS * COLUMNS - 1], Blank).memory \in Pages
<1> DEFINE S == [n \in 0 .. ROWS * COLUMNS |-> Screens]
<1>1. ROWS * COLUMNS \in Nat \ {0}
  BY ScreenAssumption
<1>2. \A n \in 0 .. ROWS * COLUMNS : S[n] = Screens
  OBVIOUS
<1>3. s \in S[0]
  BY <1>1
<1>4. \A n \in 1 .. ROWS * COLUMNS : n - 1 \in 0 .. ROWS * COLUMNS /\ n \in 0 .. ROWS * COLUMNS
  BY <1>1
<1> HIDE DEF S
<1>5. \A n \in 1 .. ROWS * COLUMNS : \A t \in S[n - 1] : put_and_advance(t, Blank) \in S[n]
  BY <1>2, <1>4, PutTyped DEF Glyphs
<1>6. Cleared(s)[ROWS * COLUMNS - 1] \in Screens
  <2>1. \A n \in 0 .. ROWS * COLUMNS : Cleared(s)[n] \in S[n]
    BY <1>2, <1>3, <1>5, ClearedOK
  <2>2. ROWS * COLUMNS - 1 \in 0 .. ROWS * COLUMNS
    BY <1>1
  <2>3. QED
    BY <1>2, <2>1, <2>2
<1>7. QED
  BY <1>6, PutTyped DEF Glyphs, Screens
-----------------------------------------------------------------------------
(* The console is the terminal *)

\* What the steps need: a position that putchar may find, and a character in every
\* cell of the page.
Console == Position /\ memory \in Pages

LEMMA ConsoleScreen ==
    ASSUME Console PROVE Screen \in Screens /\ Placed(Screen)
BY DEF Console, Position, PendingAtRowStart, Screen, Screens, Placed, Columns

\* On the page, page and place are what the screen shows; a screen that is left on
\* the page becomes what it shows.
LEMMA NowShown ==
    ASSUME Console, y <= ROWS
    PROVE  /\ OnPage(Screen)
           /\ Paper!Now = Shown(Screen)
           /\ (IF y > ROWS THEN -1 ELSE x + y * COLUMNS) = Offset(Screen)
           /\ Offset(Screen) \in Nat
<1>1. Screen \in Screens /\ Placed(Screen) /\ Screen.y = y /\ Screen.x = x /\ Screen.memory = memory
  BY ConsoleScreen DEF Screen
<1>2. OnPage(Screen)
  BY <1>1 DEF OnPage
<1>3. ~ (y > ROWS)
  BY <1>1, ScreenAssumption DEF Screens
<1>4. (IF y > ROWS THEN -1 ELSE x + y * COLUMNS) = Offset(Screen)
  BY <1>1, <1>3 DEF Offset
<1>5. Paper!Now = Shown(Screen)
  BY <1>1, <1>4 DEF Paper!Now, Shown
<1>6. Offset(Screen) \in Nat
  BY <1>1, OffsetOK DEF Placed
<1>7. QED
  BY <1>2, <1>4, <1>5, <1>6

LEMMA BecomesShown ==
    ASSUME NEW t, t \in Screens, t.y <= ROWS, Becomes(t)
    PROVE  Paper!Becomes(Shown(t))
<1>1. x' = t.x /\ y' = t.y /\ memory' = t.memory /\ ~ (y' > ROWS)
  BY ScreenAssumption DEF Becomes, Screens
<1>2. (IF y' > ROWS THEN -1 ELSE x' + y' * COLUMNS) = Offset(t)
  BY <1>1 DEF Offset
<1>3. QED
  BY <1>1, <1>2 DEF Paper!Becomes, Shown

\* Any character, from any position.
LEMMA PutcharTyped ==
    ASSUME NEW s \in Screens, Placed(s), NEW c \in Letters \cup {Blank} \cup Control
    PROVE  after_putchar(s, c) \in Screens
<1>1. CASE c = Newline
  BY <1>1, NextTyped, ScrolledTyped DEF after_putchar, Newline, Tab, Backspace
<1>2. CASE c = Tab
  <2> DEFINE p(t) == put_and_advance(t, Blank)
  <2>1. \A t \in Screens : p(t) \in Screens
    BY PutTyped DEF Glyphs
  <2>2. after_putchar(s, c) = tab(s)
    BY <1>2 DEF after_putchar, Newline, Tab, Backspace
  <2>3. tab(s) = p(p(p(p(s))))
    BY DEF tab
  <2> HIDE DEF p
  <2>4. QED
    BY <2>1, <2>2, <2>3
<1>3. CASE c = Backspace
  <2>1. back(s) \in Screens
    BY ScreenAssumption, BackInColumns DEF back, At, Screens, Columns
  <2>2. QED
    BY <1>3, <2>1, PutTyped DEF after_putchar, Newline, Tab, Backspace, Glyphs
<1>4. CASE c \notin Control
  <2>1. c \in Glyphs
    BY <1>4 DEF Glyphs
  <2>2. QED
    BY <1>4, <2>1, PutTyped DEF after_putchar, Control
<1>5. QED
  BY <1>1, <1>2, <1>3, <1>4 DEF Control

LEMMA ConsoleKept ==
    ASSUME Console, [Next]_vars PROVE Console'
<1>1. Screen \in Screens /\ Placed(Screen)
  BY ConsoleScreen
<1>2. ASSUME NEW c \in Letters \cup {Blank} \cup Control, putchar(c) PROVE Console'
  <2>1. Placed(after_putchar(Screen, c)) /\ after_putchar(Screen, c) \in Screens
    BY <1>1, PutcharPlaced, PutcharTyped
  <2>2. Becomes(after_putchar(Screen, c))
    BY <1>2 DEF putchar
  <2>3. QED
    BY <2>1, <2>2 DEF Becomes, Console, Position, PendingAtRowStart, Placed, Screens
<1>3. CASE clear
  <2>1. x' = 0 /\ y' = 0
        /\ memory' = put_regular_char(Cleared(Screen)[ROWS * COLUMNS - 1], Blank).memory
    BY <1>3 DEF clear, Becomes, At, Cleared
  <2>2. memory' \in Pages
    BY <1>1, <2>1, ClearTyped
  <2>3. QED
    BY <2>1, <2>2, ScreenAssumption DEF Console, Position, PendingAtRowStart, Columns
<1>4. CASE UNCHANGED vars
  BY <1>4 DEF vars, Console, Position, PendingAtRowStart, Pages
<1>5. QED
  BY <1>2, <1>3, <1>4 DEF Next

LEMMA InitShown ==
    ASSUME Init PROVE Console /\ Paper!Init
<1>1. Console
  BY ScreenAssumption DEF Init, Console, Position, PendingAtRowStart, Columns, Pages, Glyphs
<1>2. (IF y > ROWS THEN -1 ELSE x + y * COLUMNS) = 0
  BY ScreenAssumption DEF Init
<1>3. memory = [i \in Paper!Cells |-> Paper!Blank]
  BY DEF Init, Cells, Blank, Paper!Cells, Paper!CELLS, Paper!Blank
<1>4. QED
  BY <1>1, <1>2, <1>3 DEF Paper!Init
\* Every step of the console on the page is one of the terminal, or its falling off.
LEMMA PutcharShown ==
    ASSUME Console, y <= ROWS, NEW c \in Letters \cup {Blank} \cup Control, putchar(c)
    PROVE  Paper!Next
<1> DEFINE s == Screen
           t == after_putchar(s, c)
<1>1. /\ OnPage(s) /\ Paper!Now = Shown(s) /\ s.memory = memory /\ s.y = y
      /\ (IF y > ROWS THEN -1 ELSE x + y * COLUMNS) = Offset(s)
      /\ Offset(s) \in Nat
  BY NowShown DEF Screen
<1>2. t \in Screens /\ Becomes(t) /\ Placed(t)
  <2>1. s \in Screens /\ Placed(s)
    BY ConsoleScreen
  <2>2. QED
    BY <2>1, PutcharTyped, PutcharPlaced DEF putchar
<1> HIDE DEF s
<1>3. Offset(s) # -1
  BY <1>1
<1>4. CASE c \in Glyphs
  <2>1. t = put_and_advance(s, c)
    BY <1>4, ScreenAssumption DEF after_putchar, Glyphs, Control, Newline, Tab, Backspace, Blank
  <2>2. OnPage(t) /\ Shown(t) = Paper!Typed(Shown(s), c)
    BY <1>1, <1>4, <2>1, TypedOK
  <2>3. Paper!Becomes(Paper!Typed(Paper!Now, c))
    BY <1>1, <1>2, <2>2, BecomesShown DEF OnPage
  <2>4. Paper!Type(c)
    BY <1>1, <1>3, <2>3 DEF Paper!Type, Paper!Off
  <2>5. QED
    BY <1>4, <2>4 DEF Paper!Next, Glyphs, Blank, Paper!Blank
<1>5. CASE c = Tab
  <2>1. t = tab(s)
    BY <1>5 DEF after_putchar, Newline, Tab, Backspace
  <2>2. OnPage(t) /\ Shown(t) = Paper!Typed(Paper!Typed(Paper!Typed(
                                  Paper!Typed(Shown(s), Blank), Blank), Blank), Blank)
    BY <1>1, <2>1, TabOK
  <2>3. Paper!Becomes(Shown(t))
    BY <1>2, <2>2, BecomesShown DEF OnPage
  <2>4. Paper!Tab
    BY <1>1, <1>3, <2>2, <2>3 DEF Paper!Tab, Paper!Off, Paper!Blank, Blank
  <2>5. QED
    BY <2>4 DEF Paper!Next
<1>6. CASE c = Backspace
  <2> DEFINE place == IF Offset(s) = 0 THEN 0 ELSE Offset(s) - 1
  <2>1. t = put_regular_char(back(s), Blank)
    BY <1>6 DEF after_putchar, Newline, Tab, Backspace
  <2>2. Shown(t) = [page |-> [memory EXCEPT ![place] = Blank], at |-> place]
    BY <1>1, <2>1, BackspaceOK
  <2>3. t.y <= ROWS
    <3>1. t.y \in Nat /\ t.x \in Columns /\ place \in Nat /\ place = Offset(t)
      BY <1>1, <1>2, <2>2 DEF Placed, Shown
    <3>2. back(s).y \in Nat /\ back(s).x \in Columns
      BY <1>1, BackInColumns DEF OnPage
    <3>3. back(s).y <= ROWS
      BY <1>1, ScreenAssumption DEF OnPage, Placed, back, At
    <3>4. scrolled(back(s)).y <= back(s).y /\ Placed(scrolled(back(s)))
      BY <3>2, ScrolledOnScreen
    <3>5. t.y = scrolled(back(s)).y
      BY <2>1 DEF put_regular_char, Store
    <3>6. QED
      BY <3>1, <3>2, <3>3, <3>4, <3>5, ScreenAssumption
  <2>4. Paper!Becomes(Shown(t))
    BY <1>2, <2>3, BecomesShown
  <2>5. Paper!Backspace
    <3> DEFINE now == IF y > ROWS THEN -1 ELSE x + y * COLUMNS
               there == IF now = 0 THEN 0 ELSE now - 1
    <3>1. now = Offset(s) /\ now # Paper!Off /\ there = place
      BY <1>1, <1>3 DEF Paper!Off
    <3> HIDE DEF place
    <3>2. Paper!Becomes([page |-> [memory EXCEPT ![there] = Paper!Blank], at |-> there])
      BY <2>2, <2>4, <3>1 DEF Paper!Blank, Blank
    <3>3. QED
      BY <3>1, <3>2 DEF Paper!Backspace
  <2>6. QED
    BY <2>5 DEF Paper!Next
<1>7. CASE c = Newline
  <2>1. t = scrolled(next_line(s))
    BY <1>7 DEF after_putchar, Newline, Tab, Backspace
  <2>2. s \in Screens /\ s.x \in Columns /\ s.y \in Nat /\ s.y <= ROWS /\ (s.y = ROWS => s.x = 0)
        /\ ROWS \in Nat
    BY <1>1, ScreenAssumption DEF OnPage, Placed
  <2>3. CASE y < ROWS
    <3> DEFINE start == (Offset(s) \div COLUMNS + 1) * COLUMNS
    <3>1. Shown(t) = IF start = Paper!CELLS
                     THEN [page |-> Paper!MovedUp(s.memory), at |-> Paper!CELLS - COLUMNS]
                     ELSE [page |-> s.memory, at |-> start]
      BY <1>1, <2>1, <2>3, NewlineOK
    <3>2. t.y <= ROWS
      <4>1. next_line(s).y = s.y + 1 /\ next_line(s).x = 0
        BY DEF next_line, At
      <4>2. scrolled(next_line(s)).y <= s.y + 1 /\ scrolled(next_line(s)).y \in Nat
        BY <2>2, <4>1, ScrolledOnScreen, ScreenAssumption DEF Columns, Placed
      <4>3. QED
        BY <1>1, <2>1, <2>2, <2>3, <4>2
    <3>3. Paper!Becomes(Shown(t))
      BY <1>2, <3>2, BecomesShown
    <3>4. Offset(s) \in Paper!Cells
      <4>1. Offset(s) \in Cells
        BY <1>1, <2>2, <2>3, OffsetOK
      <4>2. QED
        BY <4>1 DEF Cells, Paper!Cells, Paper!CELLS
    <3>5. Paper!Newline
      BY <1>1, <3>1, <3>3, <3>4 DEF Paper!Newline
    <3>6. QED
      BY <3>5 DEF Paper!Next
  <2>4. CASE y = ROWS
    <3>1. next_line(s) = At(s, 0, s.y + 1) /\ next_line(s).y = ROWS + 1
      BY <1>1, <2>4 DEF next_line, At
    <3>2. t = next_line(s)
      BY <2>1, <2>2, <3>1 DEF scrolled
    <3>3. y' = ROWS + 1 /\ y' > ROWS /\ memory' \in Pages
      BY <1>2, <2>2, <3>1, <3>2 DEF Becomes, Screens
    <3>4. (IF y' > ROWS THEN -1 ELSE x' + y' * COLUMNS) = -1
      BY <3>3
    <3>5. Offset(s) = Paper!CELLS
      BY <1>1, <2>4, ScrolledShows
    <3>6. Paper!FallOff
      BY <1>1, <3>4, <3>5 DEF Paper!FallOff, Paper!Off
    <3>7. memory' \in [Paper!Cells -> Paper!Glyphs]
      BY <3>3 DEF Pages, Cells, Glyphs, Blank, Paper!Cells, Paper!CELLS, Paper!Glyphs, Paper!Blank
    <3>8. QED
      BY <3>6, <3>7 DEF Paper!Next
  <2>5. QED
    BY <1>1, <2>2, <2>3, <2>4
<1>8. QED
  BY <1>4, <1>5, <1>6, <1>7 DEF Glyphs, Control
LEMMA ClearShown ==
    ASSUME Console, y <= ROWS, clear
    PROVE  Paper!Next
<1>1. OnPage(Screen) /\ (IF y > ROWS THEN -1 ELSE x + y * COLUMNS) # Paper!Off
  BY NowShown DEF Paper!Off
<1>2. x' = 0 /\ y' = 0
      /\ memory' = put_regular_char(Cleared(Screen)[ROWS * COLUMNS - 1], Blank).memory
  BY DEF clear, Becomes, At, Cleared
<1>3. memory' = [i \in Paper!Cells |-> Paper!Blank]
  BY <1>1, <1>2, ClearShows DEF Cells, Blank, Paper!Cells, Paper!CELLS, Paper!Blank
<1>4. (IF y' > ROWS THEN -1 ELSE x' + y' * COLUMNS) = 0
  BY <1>2, ScreenAssumption
<1>5. Paper!Clear
  BY <1>1, <1>3, <1>4 DEF Paper!Clear, Paper!Becomes
<1>6. QED
  BY <1>5 DEF Paper!Next

\* Behind the page every step keeps to characters, and to a place on the page or none.
LEMMA OffPageShown ==
    ASSUME Console, Console', y > ROWS
    PROVE  Paper!Next
<1>1. (IF y > ROWS THEN -1 ELSE x + y * COLUMNS) = Paper!Off
  BY DEF Paper!Off
<1>2. memory' \in [Paper!Cells -> Paper!Glyphs]
  BY DEF Console, Pages, Cells, Glyphs, Blank, Paper!Cells, Paper!CELLS, Paper!Glyphs, Paper!Blank
<1>3. (IF y' > ROWS THEN -1 ELSE x' + y' * COLUMNS)
        \in Paper!Cells \cup {Paper!CELLS, Paper!Off}
  <2> DEFINE t == [x |-> x', y |-> y', memory |-> memory']
  <2>1. /\ t.x = x' /\ t.y = y' /\ x' \in Columns /\ y' \in Nat /\ (y' = ROWS => x' = 0)
        /\ ROWS \in Nat /\ COLUMNS \in Nat
    BY ScreenAssumption DEF Console, Position, PendingAtRowStart
  <2>2. Offset(t) = x' + y' * COLUMNS
    BY DEF Offset
  <2>3. CASE y' < ROWS
    <3>1. Offset(t) \in Cells
      BY <2>1, <2>3, OffsetOK
    <3>2. x' + y' * COLUMNS \in Paper!Cells
      BY <2>2, <3>1 DEF Cells, Paper!Cells, Paper!CELLS
    <3>3. ~ (y' > ROWS)
      BY <2>1, <2>3
    <3>4. QED
      BY <3>2, <3>3
  <2>4. CASE y' = ROWS
    <3>1. x' + y' * COLUMNS = Paper!CELLS
      BY <2>1, <2>4 DEF Paper!CELLS
    <3>2. ~ (y' > ROWS)
      BY <2>1, <2>4
    <3>3. QED
      BY <3>1, <3>2
  <2>5. CASE y' > ROWS
    BY <2>5 DEF Paper!Off
  <2>6. QED
    BY <2>1, <2>3, <2>4, <2>5
<1>4. Paper!OffPage
  BY <1>1, <1>3 DEF Paper!OffPage
<1>5. QED
  BY <1>2, <1>4 DEF Paper!Next

LEMMA StepShown ==
    ASSUME Console, [Next]_vars
    PROVE  [Paper!Next]_(Paper!vars)
<1>1. CASE UNCHANGED vars
  BY <1>1 DEF vars, Paper!vars
<1>2. CASE Next /\ y > ROWS
  BY <1>2, ConsoleKept, OffPageShown
<1>3. CASE Next /\ y <= ROWS
  BY <1>3, PutcharShown, ClearShown DEF Next
<1>4. y \in Nat /\ ROWS \in Nat
  BY ScreenAssumption DEF Console, Position
<1>5. QED
  BY <1>1, <1>2, <1>3, <1>4

\* Whatever is printed and cleared, the console shows what a page shows on which text
\* runs on from row to row and that moves up when it is full: though scroll copies
\* its rows through putchar itself, tabs and backspaces run across rows, and clear
\* prints its blanks, scrolling, from any position.  Only a newline on a full page
\* puts the position behind the page, and then nothing is promised but characters.
THEOREM TerminalImplemented == Spec => ImplementsTerminal
<1>1. Init => Console /\ Paper!Init
  BY InitShown
<1>2. Console /\ [Next]_vars => Console' /\ [Paper!Next]_(Paper!vars)
  BY ConsoleKept, StepShown
<1>3. QED
  BY <1>1, <1>2, PTL DEF Spec, ImplementsTerminal, Paper!Spec
=============================================================================
