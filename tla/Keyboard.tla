------------------------------ MODULE Keyboard ------------------------------
(***************************************************************************)
(* The keyboard drivers, src/drivers_manager/drivers/keyboard: the generic *)
(* driver hands the listeners on to the PS/2 driver, which decodes the     *)
(* bytes of the keyboard one interrupt at a time, remembering a prefix     *)
(* from one to the next.  The keyboard itself is external: it sends the    *)
(* codes of a stroke one by one, each when the last has been read.         *)
(***************************************************************************)
EXTENDS Integers, Sequences

CONSTANTS
    Codes,        \* key -> the bytes of its press and of its release
    Named         \* key -> the character it stands for, NoKey if it is not heard

NoKey == "no key"
Empty == -1
nullptr == "nullptr"

VARIABLES
    output,       \* the byte in the keyboard controller's output buffer
    wire,         \* the bytes of the stroke that are still to come
    stroke,       \* auxiliary: the stroke, and how the driver was before it
    prefix,       \* wait_for_second_scan_code, wait_for_second_and_third_scan_code
    listeners,    \* the listeners of the generic and of the PS/2 driver
    heard         \* auxiliary: the listener calls of the stroke

keyboard == <<output, wire, stroke, prefix, listeners, heard>>

-----------------------------------------------------------------------------
(* ExtendedChar *)

one_scan_code_to_avi_charcode_arr == <<
    "UNKNOWN", "ESCAPE", "1", "2", "3", "4", "5", "6", "7", "8", "9", "0",
    "MINUS", "EQUAL", "BACKSPACE", "TAB", "Q", "W", "E", "R", "T", "Y", "U",
    "I", "O", "P", "LEFTBRACKET", "RIGHTBRACKET", "RETURN", "LCTRL", "A", "S",
    "D", "F", "G", "H", "J", "K", "L", "SEMICOLON", "QUOTE", "GRAVE", "LSHIFT",
    "BACKSLASH", "Z", "X", "C", "V", "B", "N", "M", "COMMA", "DOT", "SLASH",
    "RSHIFT", "KP_ASTERISK", "RALT", "SPACE", "CAPSLOCK", "F1", "F2", "F3",
    "F4", "F5", "F6", "F7", "F8", "F9", "F10", "KP_NUMLOCK", "SCROLLLOCK",
    "HOME", "KP_8", "PAGEUP", "UNKNOWN", "UNKNOWN", "UNKNOWN", "UNKNOWN",
    "UNKNOWN", "UNKNOWN", "KP_2", "KP_3", "KP_0", "KP_DECIMAL", "UNKNOWN",
    "UNKNOWN", "UNKNOWN", "F11", "F12" >>

\* 94 entries, all unknown but these, which begin at codes 28, 53, 56, 71 and 91.
two_scan_codes_to_avi_charcode_arr ==
    [code \in 0 .. 93 |->
       CASE code \in 28 .. 29 -> <<"KP_ENTER", "RCTRL">>[code - 27]
         [] code = 53 -> "KP_DIVIDE"
         [] code = 56 -> "RALT"
         [] code \in 71 .. 83 ->
              << "HOME", "UPARROW", "PAGEUP", "UNKNOWN", "LEFTARROW", "UNKNOWN",
                 "RIGHTARROW", "UNKNOWN", "END", "DOWNARROW", "PAGEDOWN", "INSERT",
                 "DELETE" >>[code - 70]
         [] code \in 91 .. 93 -> <<"LGUI", "RGUI", "APPS">>[code - 90]
         [] OTHER -> "UNKNOWN"]

ExtendedChar(second, code) ==
    IF second THEN two_scan_codes_to_avi_charcode_arr[code]
    ELSE one_scan_code_to_avi_charcode_arr[code + 1]

-----------------------------------------------------------------------------
(* The PS/2 driver *)

MAKE_SCAN_CODES_START == 1
MAKE_SCAN_CODES_END == 88
SCAN_CODE_WAIT_FOR_SECOND == 224
SCAN_CODE_WAIT_FOR_SECOND_AND_THIRD == 225
BREAK == 128

MakeCodes == MAKE_SCAN_CODES_START .. MAKE_SCAN_CODES_END
BreakCodes == {c + BREAK : c \in MakeCodes}

\* Print Screen and the shift codes the keyboard sends around other keys: 2A, B7,
\* 37 and AA behind E0; Pause: 1D, 9D, 45 and C5 behind E1.
Skipped(p) == IF p.second THEN {42, 183} ELSE {}
SkippedLast(p) == IF p.second THEN {55, 170} ELSE {}
SkippedOfThree(p) == IF p.third THEN {29, 157} ELSE {}
SkippedLastOfThree(p) == IF p.third THEN {69, 197} ELSE {}

\* Mutant: the code that ends a skipped sequence is taken for a key.
ignore_NotTheLast(p, data) == data \in Skipped(p) \cup SkippedOfThree(p)

ignore(p, data) ==
    data \in Skipped(p) \cup SkippedLast(p) \cup SkippedOfThree(p) \cup SkippedLastOfThree(p)

\* A byte that is the code of a key, the stroke it stands for, and its name.
IsCode(p, data) ==
    /\ data \notin {SCAN_CODE_WAIT_FOR_SECOND, SCAN_CODE_WAIT_FOR_SECOND_AND_THIRD}
    /\ ~ignore(p, data)
    /\ data \in MakeCodes \cup BreakCodes

KindOf(data) == IF data \in BreakCodes THEN "release" ELSE "press"

NameOf(p, data) ==
    ExtendedChar(p.second, IF data \in BreakCodes THEN data - BREAK ELSE data)

\* A prefix lasts until a key's code, or the last code of what is skipped behind it.
PrefixAfter(p, data) ==
    [second |-> \/ data = SCAN_CODE_WAIT_FOR_SECOND
                \/ p.second /\ data \notin SkippedLast(p) /\ ~IsCode(p, data),
     third  |-> \/ data = SCAN_CODE_WAIT_FOR_SECOND_AND_THIRD
                \/ p.third /\ data \notin SkippedLastOfThree(p)]

\* The call of a listener that a byte makes, if any.
Delivered(p, data) ==
    LET l == listeners.ps2[KindOf(data)]
    IN  IF IsCode(p, data) /\ l # nullptr THEN << <<l, NameOf(p, data)>> >> ELSE <<>>

\* on_ke_data reads the byte, so that the keyboard may send the next.
on_ke_data ==
    /\ heard' = heard \o Delivered(prefix, output)
    /\ prefix' = PrefixAfter(prefix, output)
    /\ output' = Empty
    /\ UNCHANGED <<wire, stroke, listeners>>

-----------------------------------------------------------------------------
(* The generic driver and the keyboard *)

\* The listener goes to the driver that exists, and the generic driver keeps it.
set_on_press_listener(l) ==
    /\ listeners' = [d \in {"generic", "ps2"} |-> [listeners[d] EXCEPT !.press = l]]
    /\ UNCHANGED <<output, wire, stroke, prefix, heard>>

\* The generic driver takes it for its press listener too, which it never calls.
set_on_release_listener(l) ==
    /\ listeners' = [generic |-> [press |-> l, release |-> l],
                     ps2 |-> [listeners.ps2 EXCEPT !.release = l]]
    /\ UNCHANGED <<output, wire, stroke, prefix, heard>>

Keys == DOMAIN Codes
Kinds == {"press", "release"}

\* Scan code set 1: the code of a key, 128 more when it is released.  The keys that
\* have come later have E0 in front, and the keyboard undoes the shift that they are
\* not to be seen with: E0 2A and E0 AA around them with Num Lock, E0 AA and E0 2A
\* while the left shift is held.
Sent(kind, c) == IF kind = "press" THEN c ELSE c + BREAK

Extended(kind, c) ==
    LET s == Sent(kind, c)
    IN  {<<224, s>>} \cup
        IF kind = "press" THEN {<<224, 42, 224, s>>, <<224, 170, 224, s>>}
        ELSE {<<224, s, 224, 170>>, <<224, s, 224, 42>>}

PrintScreen(kind) ==
    IF kind = "press" THEN {<<224, 42, 224, 55>>, <<224, 55>>}
    ELSE {<<224, 183, 224, 170>>, <<224, 183>>}

Pause(kind) == IF kind = "press" THEN <<225, 29, 69, 225, 157, 197>> ELSE <<>>

\* Codes behind the last that the driver knows; 128 more than 96 and 97 are the
\* prefixes.
LaterCodes == (MAKE_SCAN_CODES_END + 1 .. BREAK - 1) \ {96, 97}

\* The keys of a keyboard, and the names that the tables of the driver have for them.
ASSUME KeyTable ==
    \A key \in Keys :
       \/ /\ Named[key] # NoKey
          /\ \E c \in MakeCodes :
               /\ Named[key] = one_scan_code_to_avi_charcode_arr[c + 1]
               /\ \A kind \in Kinds : Codes[key][kind] = <<Sent(kind, c)>>
       \/ /\ Named[key] # NoKey
          /\ \E c \in MakeCodes \ {42, 55} :
               /\ Named[key] = two_scan_codes_to_avi_charcode_arr[c]
               /\ \A kind \in Kinds : Codes[key][kind] \in Extended(kind, c)
       \/ /\ Named[key] = NoKey
          /\ \/ \E c \in LaterCodes : \A kind \in Kinds :
                  Codes[key][kind] \in Extended(kind, c) \cup {<<Sent(kind, c)>>}
             \/ \A kind \in Kinds : Codes[key][kind] \in PrintScreen(kind)
             \/ \A kind \in Kinds : Codes[key][kind] = Pause(kind)

\* The next key is pressed or released when the last stroke is done with.
Strike(key, kind) ==
    /\ wire = <<>> /\ output = Empty
    /\ wire' = Codes[key][kind]
    /\ stroke' = [key |-> key, kind |-> kind, listener |-> listeners.ps2[kind],
                  clean |-> ~prefix.second /\ ~prefix.third]
    /\ heard' = <<>>
    /\ UNCHANGED <<output, prefix, listeners>>

Send ==
    /\ wire # <<>> /\ output = Empty
    /\ output' = Head(wire) /\ wire' = Tail(wire)
    /\ UNCHANGED <<stroke, prefix, listeners, heard>>

KeyboardInit ==
    /\ output = Empty /\ wire = <<>> /\ heard = <<>>
    /\ stroke = [key |-> NoKey, clean |-> TRUE]
    /\ prefix = [second |-> FALSE, third |-> FALSE]
    /\ listeners = [d \in {"generic", "ps2"} |-> [press |-> nullptr, release |-> nullptr]]
=============================================================================
