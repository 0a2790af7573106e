------------------------------- MODULE VgaText ------------------------------
(***************************************************************************)
(* The text console, src/drivers/screen/vga_text.cpp: putchar with its     *)
(* control characters, the scrolling by copying row over row through       *)
(* putchar itself, and the position that runs ahead of the screen.  An     *)
(* operator takes the screen before a call and gives the screen after it.  *)
(***************************************************************************)
EXTENDS Integers

CONSTANTS
    ROWS,         \* VGA_ROWS
    COLUMNS,      \* VGA_COLUMNS
    Letters,      \* what is printed besides blanks and control characters
    MaxRowsOff    \* bound: rows the position gets behind the screen

Blank == " "
Newline == "newline"
Tab == "tab"
Backspace == "backspace"
Control == {Newline, Tab, Backspace}
Glyphs == Letters \cup {Blank}

ASSUME ScreenAssumption ==
    /\ ROWS \in Nat \ {0, 1}
    /\ COLUMNS \in Nat \ {0}
    /\ MaxRowsOff \in Nat
    /\ Letters \cap (Control \cup {Blank}) = {}

Cells == 0 .. ROWS * COLUMNS - 1
Columns == 0 .. COLUMNS - 1

VARIABLES
    x, y,         \* VgaText::x, y
    memory,       \* cell -> the character in the video memory
    cursor        \* the offset last written to the cursor registers

vars == <<x, y, memory, cursor>>

Screen == [x |-> x, y |-> y, memory |-> memory]

-----------------------------------------------------------------------------
(* The character at the position *)

\* xy_to_memory_offset, counted in characters.
Offset(s) == s.x + s.y * COLUMNS

At(s, col, row) == [x |-> col, y |-> row, memory |-> s.memory]

\* Behind the last row the character goes to memory that the console never reads.
Store(s, c) ==
    [x |-> s.x, y |-> s.y, memory |->
       IF Offset(s) \in Cells THEN [s.memory EXCEPT ![Offset(s)] = c] ELSE s.memory]

next_line(s) == At(s, 0, s.y + 1)

next_char(s) ==
    IF s.x + 1 = COLUMNS THEN next_line(s) ELSE At(s, s.x + 1, s.y)

-----------------------------------------------------------------------------
(* scroll *)

\* copy_row: character by character through putchar, which neither scrolls, for
\* row "to" is not the last, nor meets a control character; x and y restored.
copy_row(s, from, to) ==
    LET copied[i \in 0 .. COLUMNS] ==
          IF i = 0 THEN s
          ELSE LET before == copied[i - 1]
                   c      == before.memory[Offset(At(before, i - 1, from))]
               IN  next_char(Store(At(before, i - 1, to), c))
    IN  At(copied[COLUMNS], s.x, s.y)

\* Mutant: the rows are copied from the last one up, each over the next.
rows_moved_FromBelow(s) ==
    LET moved[row \in 1 .. ROWS] ==
          IF row = ROWS THEN s ELSE copy_row(moved[row + 1], row, row - 1)
    IN  moved[1]

rows_moved(s) ==
    LET moved[row \in 0 .. ROWS - 1] ==
          IF row = 0 THEN s ELSE copy_row(moved[row - 1], row, row - 1)
    IN  moved[ROWS - 1]

\* Every row moves up and the last one is filled with blanks; the position is
\* the start of the row that was left, one row up.
scroll(s) ==
    LET moved  == rows_moved(s)
        filled[col \in 0 .. COLUMNS] ==
          IF col = 0 THEN moved
          ELSE Store(At(filled[col - 1], col - 1, s.y - 1), Blank)
    IN  At(filled[COLUMNS], 0, s.y - 1)

-----------------------------------------------------------------------------
(* putchar *)

\* Mutant: the screen scrolls one row too late.
scrolled_TooLate(s) == IF s.y > ROWS THEN scroll(s) ELSE s

\* Only a position exactly one row behind the screen makes it scroll.
scrolled(s) == IF s.y = ROWS THEN scroll(s) ELSE s

put_regular_char(s, c) == Store(scrolled(s), c)
put_and_advance(s, c) == next_char(put_regular_char(s, c))

back(s) ==
    IF s.x # 0 THEN At(s, s.x - 1, s.y)
    ELSE IF s.y # 0 THEN At(s, COLUMNS - 1, s.y - 1)
    ELSE s

\* A tab is four spaces.
tab(s) ==
    LET p(t) == put_and_advance(t, Blank) IN p(p(p(p(s))))

after_putchar(s, c) ==
    CASE c = Newline -> scrolled(next_line(s))
      [] c = Tab -> tab(s)
      [] c = Backspace -> put_regular_char(back(s), Blank)
      [] OTHER -> put_and_advance(s, c)

Becomes(s) == x' = s.x /\ y' = s.y /\ memory' = s.memory

\* putchar ends with move_cursor, which overrides where scroll has put it.
putchar(c) ==
    LET s == after_putchar(Screen, c)
    IN  /\ s.y <= ROWS + MaxRowsOff
        /\ Becomes(s)
        /\ cursor' = Offset(s)

\* clear prints blanks from wherever the position is and leaves the hardware
\* cursor where scroll has put it last, at the end of the last copied row.
clear ==
    LET cleared[n \in 0 .. ROWS * COLUMNS] ==
          IF n = 0 THEN Screen ELSE put_and_advance(cleared[n - 1], Blank)
        last == put_regular_char(cleared[ROWS * COLUMNS - 1], Blank)
    IN  /\ Becomes(At(last, 0, 0))
        /\ cursor' = IF y > ROWS \/ (y = 0 /\ x = 0)
                     THEN cursor ELSE (ROWS - 1) * COLUMNS

\* initialize: the screen is blank and the cursor in its corner.
Init ==
    /\ x = 0 /\ y = 0
    /\ memory = [i \in Cells |-> Blank]
    /\ cursor = 0

Next == (\E c \in Letters \cup {Blank} \cup Control : putchar(c)) \/ clear

Spec == Init /\ [][Next]_vars

-----------------------------------------------------------------------------
(* Properties *)

\* The test y == VGA_ROWS is enough only if the position gets behind the screen
\* nowhere but at the start of a row, so that a scroll loses no column.
PendingAtRowStart == y = ROWS => x = 0

\* The console is the terminal it looks like: copying rows through putchar,
\* scrolling late, tabs and backspaces across rows and clear from any position
\* show what the terminal shows.  A newline on a full page loses the page.
Paper == INSTANCE Terminal WITH
           page <- memory,
           at <- IF y > ROWS THEN -1 ELSE x + y * COLUMNS
ImplementsTerminal == Paper!Spec
=============================================================================
