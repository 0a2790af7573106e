-------------------------------- MODULE Path --------------------------------
(***************************************************************************)
(* class Path, src/fs/path.cpp: a text cut into parts at its slashes.  Its *)
(* member parts is a Vector of Strings, here the sequence it implements    *)
(* (module Vector) of their texts.                                         *)
(***************************************************************************)
EXTENDS String, SequencesExt

CONSTANT Texts   \* what paths are made from

Slash == "/"

ASSUME TextsAssumption ==
    /\ Slash \in Characters \ Whitespace
    /\ Texts \subseteq Seq(Characters)

VARIABLES
    path,         \* a Path object
    meant         \* auxiliary: the text that it stands for, and if as a folder
pathVars == <<path, meant>>

-----------------------------------------------------------------------------
(* The constructor *)

\* One turn of the loop of fill_vector.
FillStep(r, c) ==
    IF c = Slash
    THEN [parts |-> Append(r.parts, r.s.text), s |-> clear]
    ELSE [r EXCEPT !.s = append_char(@, c)]

\* The loop, over the characters of text after the first.
filled(text) ==
    LET turn[n \in 0 .. Len(text) - 1] ==
          IF n = 0 THEN [parts |-> <<>>, s |-> clear]
          ELSE FillStep(turn[n - 1], text[n + 1])
    IN  turn[Len(text) - 1]

\* Mutant: what stands behind the last slash is no part.
fill_vector_FoldersOnly(s) == filled(s.text).parts

\* The first slash is skipped; a part that is not empty may follow the last.
fill_vector(s) ==
    LET r == filled(s.text)
    IN  IF empty(r.s) THEN r.parts ELSE Append(r.parts, r.s.text)

\* Nothing but white space gets a slash behind it, and what does not start with
\* a slash gets one in front; the sum is copied into s, which counts it anew.
Rooted(s) ==
    LET named == IF empty_or_whitespaces(s) THEN append_char(s, Slash) ELSE s
    IN  IF CharAt(named, 0) # Slash THEN FromText(CharPlus(Slash, named).text) ELSE named

PathOf(text) ==
    LET s == Rooted(FromText(text))
    IN  [parts |-> fill_vector(s), folder |-> back(s) = Slash]

-----------------------------------------------------------------------------
(* Its methods *)

is_folder(p) == p.folder
get_number_of_parts(p) == Len(p.parts)

\* The file itself does not count.
get_depth(p) == IF is_folder(p) THEN Len(p.parts) ELSE Len(p.parts) - 1
is_root(p) == get_depth(p) = 0 /\ is_folder(p)

to_string(p) ==
    LET part[i \in 0 .. Len(p.parts)] ==
          IF i = 0 THEN FromText(<<Slash>>)
          ELSE LET named == append_c_string(part[i - 1], p.parts[i])
               IN  IF is_folder(p) \/ i < Len(p.parts)
                   THEN append_char(named, Slash) ELSE named
    IN  part[Len(p.parts)]

\* go_up and remove_part stop the kernel elsewhere.
may_go_up(p) == get_depth(p) # 0 /\ is_folder(p)
go_up(p) == [p EXCEPT !.parts = Front(@)]

remove_part(p, index) == [p EXCEPT !.parts = RemoveAt(@, index + 1)]

\* VFS::open and VFS::io: the path inside the file system mounted on m.
trimmed(p, m) ==
    LET cut[i \in 0 .. get_depth(m)] ==
          IF i = 0 THEN p ELSE remove_part(cut[i - 1], 0)
    IN  cut[get_depth(m)]

\* DevFS::io: the paths that name a drive, whatever its letter.
names_drive(p) ==
    equal(substr(to_string(p), 1, 2), FromText(<<"s", "d">>)) /\ to_string(p).size = 4

-----------------------------------------------------------------------------
(* What a path means, on its text *)

Slashes(text) == {i \in DOMAIN text : text[i] = Slash}

\* Where the n-th slash is, the end of the text if there is none.
NthSlash(text, n) ==
    LET nth == {i \in Slashes(text) : Cardinality({j \in Slashes(text) : j <= i}) = n}
    IN  IF nth = {} THEN Len(text) + 1 ELSE CHOOSE i \in nth : TRUE

WithoutPart(text, index) ==
    SubSeq(text, 1, NthSlash(text, index + 1) - 1)
      \o SubSeq(text, NthSlash(text, index + 2), Len(text))

\* White space alone names a folder, and a relative text means the absolute one.
Absolute(text) ==
    LET named == IF Range(text) \subseteq Whitespace THEN Append(text, Slash) ELSE text
    IN  IF Head(named) = Slash THEN named ELSE <<Slash>> \o named

\* to_string never shows less than the root.
Shown(text) == IF text = <<>> THEN <<Slash>> ELSE text

\* What a path made from text stands for.
Meaning(text) ==
    [text |-> Absolute(text), folder |-> Last(Absolute(text)) = Slash]

-----------------------------------------------------------------------------
(* A path object, from its construction on *)

MakePath(text) == path = PathOf(text) /\ meant = Meaning(text)
PathInit == \E text \in Texts : MakePath(text)

\* Cut to p, which should leave text of what was meant.
CutTo(p, text) == path' = p /\ meant' = [meant EXCEPT !.text = text]

GoUp ==
    /\ may_go_up(path)
    /\ CutTo(go_up(path), WithoutPart(meant.text, get_depth(path) - 1))

RemovePart(index) == CutTo(remove_part(path, index), WithoutPart(meant.text, index))

\* VFS::open and VFS::io cut off the folder of a mount.
Trim(depth) ==
    LET mount == [parts |-> SubSeq(path.parts, 1, depth), folder |-> TRUE]
    IN  CutTo(trimmed(path, mount),
              SubSeq(meant.text, NthSlash(meant.text, depth + 1), Len(meant.text)))

UsePath ==
    \/ GoUp
    \/ \E index \in 0 .. get_number_of_parts(path) - 1 : RemovePart(index)
    \/ \E depth \in 1 .. get_depth(path) : Trim(depth)

PathSpec == PathInit /\ [][UsePath]_pathVars

\* path.h: a path is the text it was made from.  Every text reads back as the
\* absolute one, its depth is the number of its folders, and however often it is
\* gone up, cut or trimmed for a mount, exactly those parts of the text are gone.
PathsMeanTheirText ==
    LET text == meant.text
    IN  /\ to_string(path) = FromText(Shown(text))
        /\ get_depth(path) = Cardinality(Slashes(text)) - 1
        /\ is_folder(path) = meant.folder
        /\ is_root(path) = (meant.folder /\ text = <<Slash>>)
        /\ names_drive(path) = \E c \in Range(text) : text = <<Slash, "s", "d", c>>
=============================================================================
