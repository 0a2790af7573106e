------------------------------- MODULE String -------------------------------
(***************************************************************************)
(* class String, src/libc++/string.cpp: a C string on the heap and the     *)
(* member _size that is kept beside it.  The text is the sequence of the   *)
(* characters in front of the terminating NUL; _size need not agree.       *)
(***************************************************************************)
EXTENDS Integers, Sequences

CONSTANTS
    Characters,   \* what a text consists of, without the terminating NUL
    Whitespace    \* the characters isspace accepts

NUL == "NUL"

\* String(const char*), also the copy of a String: it goes through c_str.
FromText(text) == [text |-> text, size |-> Len(text)]

clear == FromText(<<>>)

\* String& operator=(char): the size given to one character is 2.
FromChar(c) == [text |-> <<c>>, size |-> 2]

\* String(s, n), for n characters that contain no NUL.
FirstOf(text, n) == FromText(SubSeq(text, 1, n))

\* += char writes at _size; behind a NUL nobody sees it.
append_char(s, c) ==
    [text |-> IF s.size = Len(s.text) THEN Append(s.text, c) ELSE s.text,
     size |-> s.size + 1]

\* += and + with a string.
append_c_string(s, text) == [text |-> s.text \o text, size |-> s.size + Len(text)]

CharPlus(c, s) == append_c_string(FromChar(c), s.text)

equal(s, t) == s.text = t.text
empty(s) == s.size = 0

\* actual_string[pos], as at, operator[], front and back read it.
CharAt(s, pos) == IF pos < Len(s.text) THEN s.text[pos + 1] ELSE NUL

back(s) == CharAt(s, s.size - 1)

empty_or_whitespaces(s) ==
    empty(s) \/ \A i \in 0 .. s.size - 1 : CharAt(s, i) \in Whitespace

\* substr(pos, len); behind the end it stops the kernel.
substr(s, pos, len) ==
    IF pos = s.size THEN clear
    ELSE FirstOf(SubSeq(s.text, pos + 1, Len(s.text)),
                 IF len + pos > s.size THEN s.size - pos ELSE len)
=============================================================================
