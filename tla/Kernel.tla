------------------------------- MODULE Kernel -------------------------------
(***************************************************************************)
(* kernel_main up to its endless loop, src/kernel/kernel.cpp, with the     *)
(* interrupts of the clock and the keyboard: the order in which the IDT,   *)
(* the PICs, the clock, the drives and the keyboard are set up while       *)
(* interrupts are already coming in.  After an interrupt the kernel goes   *)
(* on where it was.                                                        *)
(***************************************************************************)
EXTENDS Interrupts, Clock, Keyboard

CONSTANTS
    MaxTicks,     \* bound: how far the clock counts, but for the end of a sleep
    Sleeps        \* bound: how often the storage driver sleeps

TimerLine == 0
KeyboardLine == 1
PIT_IRQ_NUMBER == 32
PS2_INTERRUPT_NUMBER == 33

VARIABLES
    pc,           \* the next step of kernel_main
    drivers,      \* DriversManager has created the drivers
    slept,        \* how often the storage driver has slept
    deaf          \* auxiliary: the request of a byte has come before there was a handler

vars == <<interrupts, clock, keyboard, pc, drivers, slept, deaf>>

-----------------------------------------------------------------------------
(* kernel_main *)

\* The kernel runs when no interrupt is being handled.
Step(from, to) == frames = <<>> /\ pc = from /\ pc' = to

setup_interrupts ==
    /\ Step("interrupts", "exceptions")
    /\ idt' = put_descriptors
    /\ UNCHANGED <<cpu, pic, isrs, clock, keyboard, drivers, slept>>

setup_exceptions_handlers ==
    /\ Step("exceptions", "drivers")
    /\ isrs' = [v \in Vectors |-> IF v \in Exceptions THEN "panic" ELSE isrs[v]]
    /\ UNCHANGED <<cpu, pic, idt, clock, keyboard, drivers, slept>>

DriversManager_initialize ==
    /\ Step("drivers", "pic")
    /\ drivers' = TRUE
    /\ UNCHANGED <<interrupts, clock, keyboard, slept>>

setup_pic ==
    /\ Step("pic", "sti")
    /\ Remap
    /\ UNCHANGED <<cpu, tables, clock, keyboard, drivers, slept>>

sti ==
    /\ Step("sti", "pit")
    /\ IF_flag' = TRUE
    /\ UNCHANGED <<frames, pic, tables, clock, keyboard, drivers, slept>>

\* Behind the scan of the PCI bus: the divisor is written with interrupts off.
configure_pit ==
    \/ /\ Step("pit", "divisor")
       /\ IF_flag' = FALSE
       /\ UNCHANGED <<frames, pic, tables, clock, keyboard, drivers, slept>>
    \/ /\ Step("divisor", "tick handler")
       /\ IF_flag' = TRUE
       /\ UNCHANGED <<frames, pic, tables, clock, keyboard, drivers, slept>>

setup_clock ==
    /\ Step("tick handler", "time")
    /\ set_isr(PIT_IRQ_NUMBER, "on_tick")
    /\ UNCHANGED <<cpu, pic, idt, clock, keyboard, drivers, slept>>

Time_initialize ==
    /\ Step("time", "storage")
    /\ set_on_tick_listener
    /\ UNCHANGED <<interrupts, keyboard, drivers, slept>>

\* The storage driver sleeps after every selection of a drive.
setup_storage ==
    \/ /\ pc = "storage" /\ frames = <<>> /\ slept < Sleeps
       /\ slept' = slept + 1
       /\ \E time \in Times : sleep(time)
       /\ UNCHANGED <<interrupts, keyboard, drivers, pc>>
    \/ /\ Step("storage", "keyboard")
       /\ at = "awake"
       /\ UNCHANGED <<interrupts, clock, keyboard, drivers, slept>>

Sleeping ==
    /\ frames = <<>>
    /\ LoadPrevious \/ LoadCounter \/ Wake
    /\ UNCHANGED <<interrupts, keyboard, pc, drivers, slept>>

setup_keyboard ==
    /\ Step("keyboard", "endless")
    /\ set_isr(PS2_INTERRUPT_NUMBER, "on_ke_data")
    /\ UNCHANGED <<cpu, pic, idt, clock, keyboard, drivers, slept>>

\* Setting up the PICs forgets the request of a byte that has already come in.
kernel_main ==
    /\ \/ setup_interrupts \/ setup_exceptions_handlers
       \/ DriversManager_initialize \/ setup_pic \/ sti
       \/ configure_pit \/ setup_clock \/ Time_initialize
       \/ setup_storage \/ Sleeping \/ setup_keyboard
    /\ deaf' = (deaf \/ KeyboardLine \in irr \ irr')

\* What a user of the keyboard would do, and InputManager::initialize does for
\* the press listener; kernel_main itself sets no listener.
Listen ==
    /\ pc = "endless" /\ frames = <<>>
    /\ \/ listeners.ps2.press = nullptr /\ set_on_press_listener("on_press")
       \/ listeners.ps2.release = nullptr /\ set_on_release_listener("on_release")
    /\ UNCHANGED <<interrupts, clock, pc, drivers, slept, deaf>>

-----------------------------------------------------------------------------
(* Interrupts *)

CallOnTick ==
    /\ Calls("on_tick")
    /\ on_tick
    /\ UNCHANGED <<keyboard, deaf>>

CallOnKeData ==
    /\ Calls("on_ke_data")
    /\ on_ke_data
    /\ UNCHANGED <<clock, deaf>>

\* The request is taken for handled; the byte, if it was one, stays unread.
CallNothing ==
    /\ Calls(None)
    /\ deaf' = (deaf \/ Top.number = PS2_INTERRUPT_NUMBER)
    /\ UNCHANGED <<clock, keyboard>>

Handling ==
    /\ \/ (Enter \/ SendEoi \/ Iret) /\ UNCHANGED <<clock, keyboard, deaf>>
       \/ CallOnTick \/ CallOnKeData \/ CallNothing
    /\ UNCHANGED <<pc, drivers, slept>>

\* The clock runs from the start, at the firmware's rate or at the kernel's.
ClockRequests ==
    /\ \/ counter_ms < MaxTicks
       \/ at \in {"counter1", "counter2"} /\ counter_ms < previous + ms
    /\ Raise(TimerLine)
    /\ UNCHANGED <<cpu, base, in_service, tables, clock, keyboard, pc, drivers, slept, deaf>>

KeyboardSends ==
    /\ Send
    /\ Raise(KeyboardLine)
    /\ UNCHANGED <<cpu, base, in_service, tables, clock, pc, drivers, slept, deaf>>

Strikes ==
    /\ \E key \in Keys, kind \in Kinds : Strike(key, kind)
    /\ UNCHANGED <<interrupts, clock, pc, drivers, slept, deaf>>

-----------------------------------------------------------------------------

Init ==
    /\ InterruptsInit /\ ClockInit /\ KeyboardInit
    /\ pc = "interrupts"
    /\ drivers = FALSE /\ slept = 0 /\ deaf = FALSE

Next ==
    \/ kernel_main \/ Listen
    \/ Handling
    \/ ClockRequests \/ KeyboardSends \/ Strikes

\* The clock ticks, the keyboard sends what was typed, the processor takes the
\* interrupts, and between interrupts there is time for the kernel, however
\* often they come.
Fairness ==
    /\ SF_vars(kernel_main)
    /\ WF_vars(Handling)
    /\ WF_vars(ClockRequests)
    /\ WF_vars(KeyboardSends)

Spec == Init /\ [][Next]_vars /\ Fairness

-----------------------------------------------------------------------------
(* Properties *)

\* An interrupt is taken only when everything its way to a handler needs exists,
\* at a vector that is no exception's, and never inside of another, so that the
\* handlers need no locks against each other.
InterruptsInOrder ==
    frames # <<>> =>
      /\ Len(frames) = 1 /\ ~IF_flag
      /\ drivers /\ idt[Top.number] # None
      /\ Top.number \in IRQ_START .. IRQ_END

\* A sleep lasts at least as many ticks as it was asked for, unless the carry
\* into the upper half of the counter fell between the loads of the two halves.
SleepsLongEnough ==
    at = "slept" => counter_ms - began >= ms \/ torn

\* A stroke is heard once, by the listener for its kind and with its name, or
\* not at all if its key is skipped; the stroke that follows one whose prefix the
\* driver keeps is the exception.  It keeps that of a key it does not know, and of
\* E0 2A or E0 B7 at the end of a stroke: an arrow, or Print Screen, let go while
\* a shift is held.
ExpectedOf(l) ==
    IF l = nullptr \/ Named[stroke.key] = NoKey THEN <<>> ELSE << <<l, Named[stroke.key]>> >>

KeepsPrefix(bytes) ==
    LET last == bytes[Len(bytes)]
    IN  /\ Len(bytes) > 1 /\ bytes[Len(bytes) - 1] = SCAN_CODE_WAIT_FOR_SECOND
        /\ last \in {42, 183} \/ last \notin MakeCodes \cup BreakCodes

HeardAsTyped ==
    stroke.key # NoKey /\ stroke.clean /\ wire = <<>> /\ output = Empty =>
      /\ \/ heard = ExpectedOf(listeners.ps2[stroke.kind])
         \/ stroke.listener = nullptr /\ heard = <<>>
      /\ prefix.second => KeepsPrefix(Codes[stroke.key][stroke.kind])
      /\ ~prefix.third

\* Every sleep ends, also when the clock ticks between the loads of the counter
\* and its loop never sees the value it waits for, and a byte from the keyboard
\* is read: the order of the set-up and the end of interrupt see to it.  A byte
\* that came in before its handler was registered is the exception, it silences
\* the keyboard for good.
NothingWaitsForever ==
    /\ at # "awake" ~> at = "awake"
    /\ output # Empty ~> output = Empty \/ deaf
=============================================================================
