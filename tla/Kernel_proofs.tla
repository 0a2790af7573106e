---------------------------- MODULE Kernel_proofs ----------------------------
(***************************************************************************)
(* Interrupts and sleeping while the kernel sets itself up, for any set of *)
(* request lines, any width of the halves of the counter and any times:    *)
(* handlers are never nested and find everything they need, and a sleep is *)
(* never too short unless its loads of the counter were torn.  Strokes are *)
(* heard as they were typed, for every keyboard.                           *)
(***************************************************************************)
EXTENDS Kernel, TLAPS

-----------------------------------------------------------------------------
(* Halves of the counter *)

\* What the standard operators on numbers give.
LEMMA HalvesType ==
  ASSUME NEW n \in Nat
  PROVE  /\ n \div WORD \in Nat
         /\ n % WORD \in 0 .. WORD - 1
         /\ n = WORD * (n \div WORD) + (n % WORD)
BY WordAssumption

\* Halves determine the number.
LEMMA HalvesUnique ==
  ASSUME NEW q \in Nat, NEW p \in Nat,
         NEW r \in 0 .. WORD - 1, NEW s \in 0 .. WORD - 1,
         WORD * q + r = WORD * p + s
  PROVE  q = p
<1> USE WordAssumption
<1>1. ASSUME NEW a \in Nat, NEW b \in Nat, a < b
      PROVE  WORD * a + WORD <= WORD * b
  <2>1. a + 1 <= b
    BY <1>1
  <2>2. WORD * (a + 1) <= WORD * b
    BY <2>1
  <2>3. WORD * (a + 1) = WORD * a + WORD
    OBVIOUS
  <2>4. QED
    BY <2>2, <2>3
<1>2. WORD * q \in Nat /\ WORD * p \in Nat
  OBVIOUS
<1>3. ~ (q < p)
  BY <1>1, <1>2
<1>4. ~ (p < q)
  BY <1>1, <1>2
<1>5. QED
  BY <1>3, <1>4

\* A tick that does not carry leaves the upper half.
LEMMA NoCarry ==
  ASSUME NEW n \in Nat, n % WORD # WORD - 1
  PROVE  (n + 1) \div WORD = n \div WORD
<1> USE WordAssumption
<1>1. (n % WORD) + 1 \in 0 .. WORD - 1
  BY HalvesType
<1>2. n + 1 = WORD * (n \div WORD) + ((n % WORD) + 1)
  BY HalvesType
<1>3. /\ (n + 1) \div WORD \in Nat /\ (n + 1) % WORD \in 0 .. WORD - 1
      /\ n + 1 = WORD * ((n + 1) \div WORD) + ((n + 1) % WORD)
  BY HalvesType, n + 1 \in Nat
<1>4. n \div WORD \in Nat
  BY HalvesType
<1>5. QED
  BY <1>1, <1>2, <1>3, <1>4, HalvesUnique

\* The half of c and the other half of n, loaded with no carry in between.
LEMMA JoinedHalves ==
  ASSUME NEW c \in Nat, NEW n \in Nat, c <= n, c \div WORD = n \div WORD,
         low_first \in BOOLEAN
  PROVE  Join(Half(c, low_first), Half(n, ~low_first)) \in c .. n
<1>1. CASE low_first
  <2>1. Join(Half(c, low_first), Half(n, ~low_first)) = (c % WORD) + WORD * (n \div WORD)
    BY <1>1 DEF Join, Half
  <2>2. c = WORD * (n \div WORD) + (c % WORD)
    BY HalvesType
  <2>3. c % WORD \in Nat /\ WORD * (n \div WORD) \in Nat
    BY HalvesType, WordAssumption
  <2>4. QED
    BY <2>1, <2>2, <2>3
<1>2. CASE ~low_first
  <2>1. Join(Half(c, low_first), Half(n, ~low_first)) = WORD * (c \div WORD) + (n % WORD)
    BY <1>2 DEF Join, Half
  <2>2. n = WORD * (c \div WORD) + (n % WORD)
    BY HalvesType
  <2>3. QED
    BY <2>1, <2>2
<1>3. QED
  BY <1>1, <1>2

-----------------------------------------------------------------------------
(* Handlers are never nested *)

\* The steps before which interrupts are off and the PICs or the IDT not set up.
Early == {"interrupts", "exceptions", "drivers", "pic", "sti"}

RemappedBase ==
    [p \in {Master, Slave} |->
       IF p = Master THEN MASTER_INTERRUPTS_OFFSET ELSE SLAVE_INTERRUPTS_OFFSET]

\* At most one interrupt is being handled, one of a request line.
OneFrame ==
    \/ frames = <<>>
    \/ \E l \in Lines, a \in {"eoi", "call", "iret"} :
         frames = <<[number |-> IRQ_START + l, at |-> a]>>

\* Why the handlers are not nested: a frame is there only while interrupts are
\* off, and neither before the tables, the drivers and the PICs are set up.
HandlingInv ==
    /\ IF_flag \in BOOLEAN
    /\ OneFrame
    /\ frames # <<>> => ~IF_flag
    /\ IF_flag \/ frames # <<>> => pc \notin Early
    /\ pc # "interrupts" => idt = put_descriptors
    /\ pc \notin Early \ {"pic", "sti"} => drivers
    /\ pc \notin Early \ {"sti"} => base = RemappedBase

\* With the PICs set up line l comes in at vector 32 + l.
LEMMA VectorOfLine ==
  ASSUME NEW l \in Lines
  PROVE  /\ RemappedBase[PicOf(l)] + (l % 8) = IRQ_START + l
         /\ IRQ_START + l \in Vectors
         /\ PushedNumber(IRQ_START + l) = IRQ_START + l
         /\ IRQ_START + l \in IRQ_START .. IRQ_END
<1> l \in 0 .. 15
  BY LinesAssumption
<1>1. RemappedBase[PicOf(l)] + (l % 8) = IRQ_START + l
  BY DEF RemappedBase, PicOf, Master, Slave, IRQ_START,
         MASTER_INTERRUPTS_OFFSET, SLAVE_INTERRUPTS_OFFSET
<1>2. QED
  BY <1>1 DEF Vectors, PushedNumber, IRQ_START, IRQ_END

\* What a step that touches none of it keeps.
LEMMA HandlingUntouched ==
  ASSUME HandlingInv, UNCHANGED <<IF_flag, frames, idt, base, pc, drivers>>
  PROVE  HandlingInv'
BY DEF HandlingInv, OneFrame

LEMMA HandlingInit == Init => HandlingInv
BY DEF Init, InterruptsInit, HandlingInv, OneFrame, Early

\* kernel_main runs only between interrupts.
LEMMA HandlingKernelMain ==
  ASSUME HandlingInv, kernel_main
  PROVE  HandlingInv'
<1> USE DEF Step
<1>1. CASE setup_interrupts
  BY <1>1 DEF setup_interrupts, HandlingInv, OneFrame, Early, cpu, pic
<1>2. CASE setup_exceptions_handlers
  BY <1>2 DEF setup_exceptions_handlers, HandlingInv, OneFrame, Early, cpu, pic
<1>3. CASE DriversManager_initialize
  BY <1>3 DEF DriversManager_initialize, HandlingInv, OneFrame, Early,
              interrupts, cpu, pic, tables
<1>4. CASE setup_pic
  BY <1>4 DEF setup_pic, Remap, RemappedBase, HandlingInv, OneFrame, Early, cpu, tables
<1>5. CASE sti
  BY <1>5 DEF sti, HandlingInv, OneFrame, Early, pic, tables
<1>6. CASE configure_pit
  BY <1>6 DEF configure_pit, HandlingInv, OneFrame, Early, pic, tables
<1>7. CASE setup_clock
  BY <1>7 DEF setup_clock, HandlingInv, OneFrame, Early, cpu, pic
<1>8. CASE Time_initialize
  BY <1>8 DEF Time_initialize, HandlingInv, OneFrame, Early, interrupts, cpu, pic, tables
<1>9. CASE setup_storage
  BY <1>9 DEF setup_storage, HandlingInv, OneFrame, Early, interrupts, cpu, pic, tables
<1>10. CASE Sleeping
  BY <1>10, HandlingUntouched DEF Sleeping, interrupts, cpu, pic, tables
<1>11. CASE setup_keyboard
  BY <1>11 DEF setup_keyboard, HandlingInv, OneFrame, Early, cpu, pic
<1>12. QED
  BY <1>1, <1>2, <1>3, <1>4, <1>5, <1>6, <1>7, <1>8, <1>9, <1>10, <1>11 DEF kernel_main

\* An interrupt turns interrupts off and finds no frame; it turns them on when
\* its frame is gone.
LEMMA HandlingHandling ==
  ASSUME HandlingInv, Handling
  PROVE  HandlingInv'
<1>1. UNCHANGED <<pc, drivers>>
  BY DEF Handling
<1>2. CASE Enter
  <2> USE <1>2 DEF Enter
  <2>1. PICK line \in Lines :
          LET v == base[PicOf(line)] + (line % 8)
          IN  /\ frames' = <<[number |-> PushedNumber(v), at |-> "eoi"]>> \o frames
              /\ IF_flag' = (idt[v] = "trap")
    OBVIOUS
  <2>2. /\ frames = <<>> /\ pc \notin Early
        /\ idt = put_descriptors /\ base = RemappedBase
    BY DEF HandlingInv, Early
  <2>3. /\ base[PicOf(line)] + (line % 8) = IRQ_START + line
        /\ PushedNumber(IRQ_START + line) = IRQ_START + line
    BY <2>2, VectorOfLine
  <2>4. frames' = <<[number |-> IRQ_START + line, at |-> "eoi"]>>
    BY <2>1, <2>2, <2>3
  <2>5. IF_flag' = FALSE
    <3>1. idt[IRQ_START + line] = "interrupt"
      BY <2>2, VectorOfLine DEF put_descriptors, put_descriptor
    <3>2. QED
      BY <2>1, <2>3, <3>1
  <2>6. UNCHANGED <<idt, base>>
    BY DEF tables
  <2>7. QED
    BY <1>1, <2>2, <2>4, <2>5, <2>6 DEF HandlingInv, OneFrame
<1>3. ASSUME UNCHANGED <<IF_flag, idt, base>>, frames # <<>>,
             NEW a \in {"call", "iret"}, frames' = [frames EXCEPT ![1].at = a]
      PROVE  HandlingInv'
  <2>1. PICK l \in Lines, b \in {"eoi", "call", "iret"} :
          frames = <<[number |-> IRQ_START + l, at |-> b]>>
    BY <1>3 DEF HandlingInv, OneFrame
  <2>2. frames' = <<[number |-> IRQ_START + l, at |-> a]>>
    BY <1>3, <2>1
  <2>3. QED
    BY <1>1, <1>3, <2>2 DEF HandlingInv, OneFrame
<1>4. CASE SendEoi
  BY <1>3, <1>4 DEF SendEoi, tables
<1>5. ASSUME NEW handler, Calls(handler)
      PROVE  HandlingInv'
  BY <1>3, <1>5 DEF Calls, pic, tables
<1>6. CASE Iret
  <2>1. frames' = <<>>
    <3>1. PICK l \in Lines, a \in {"eoi", "call", "iret"} :
            frames = <<[number |-> IRQ_START + l, at |-> a]>>
      BY <1>6 DEF Iret, HandlingInv, OneFrame
    <3>2. Tail(frames) = <<>>
      BY <3>1
    <3>3. QED
      BY <1>6, <3>2 DEF Iret
  <2>2. IF_flag' = TRUE /\ frames # <<>> /\ UNCHANGED <<idt, base>>
    BY <1>6 DEF Iret, pic, tables
  <2>3. QED
    BY <1>1, <2>1, <2>2 DEF HandlingInv, OneFrame
<1>7. QED
  BY <1>2, <1>4, <1>5, <1>6
     DEF Handling, CallOnTick, CallOnKeData, CallNothing

LEMMA HandlingNext ==
  ASSUME HandlingInv, [Next]_vars
  PROVE  HandlingInv'
<1> USE DEF interrupts, cpu, pic, tables
<1>1. CASE kernel_main
  BY <1>1, HandlingKernelMain
<1>2. CASE Handling
  BY <1>2, HandlingHandling
<1>3. CASE Listen
  BY <1>3, HandlingUntouched DEF Listen
<1>4. CASE ClockRequests
  BY <1>4, HandlingUntouched DEF ClockRequests
<1>5. CASE KeyboardSends
  BY <1>5, HandlingUntouched DEF KeyboardSends
<1>6. CASE Strikes
  BY <1>6, HandlingUntouched DEF Strikes
<1>7. CASE UNCHANGED vars
  BY <1>7, HandlingUntouched DEF vars
<1>8. QED
  BY <1>1, <1>2, <1>3, <1>4, <1>5, <1>6, <1>7 DEF Next

LEMMA HandlingInOrder == HandlingInv => InterruptsInOrder
<1> SUFFICES ASSUME HandlingInv, frames # <<>>
             PROVE  /\ Len(frames) = 1 /\ ~IF_flag
                    /\ drivers /\ idt[Top.number] # None
                    /\ Top.number \in IRQ_START .. IRQ_END
  BY DEF InterruptsInOrder
<1>1. PICK l \in Lines, a \in {"eoi", "call", "iret"} :
        frames = <<[number |-> IRQ_START + l, at |-> a]>>
  BY DEF HandlingInv, OneFrame
<1>2. Len(frames) = 1 /\ Top.number = IRQ_START + l
  BY <1>1 DEF Top
<1>3. idt = put_descriptors /\ drivers /\ ~IF_flag
  BY DEF HandlingInv, Early
<1>4. idt[IRQ_START + l] = "interrupt"
  BY <1>3, VectorOfLine DEF put_descriptors, put_descriptor
<1>5. QED
  BY <1>2, <1>3, <1>4, VectorOfLine DEF None

\* An interrupt is handled only behind the set-up it relies on, at the vector of
\* its line, with interrupts off, for every set of request lines.
THEOREM HandlersInOrder == Spec => []InterruptsInOrder
BY HandlingInit, HandlingNext, HandlingInOrder, PTL DEF Spec

-----------------------------------------------------------------------------
(* Sleeps are long enough *)

Places == {"awake", "previous1", "previous2", "counter1", "counter2", "slept"}

ClockTyped ==
    /\ counter_ms \in Nat /\ listener \in BOOLEAN /\ low_first \in BOOLEAN
    /\ at \in Places
    /\ ms \in Nat /\ previous \in Nat /\ loaded \in Nat /\ began \in Nat
    /\ torn \in BOOLEAN

\* The half that is loaded is one of a count since s, with no carry since.
HalfSince(s) ==
    \E c \in Nat : /\ s <= c /\ c <= counter_ms
                   /\ loaded = Half(c, low_first)
                   /\ c \div WORD = counter_ms \div WORD

\* Why a sleep is long enough: its start is not before it began, and what it
\* compares with is not ahead of the counter.
SleepInv ==
    /\ ClockTyped
    /\ at # "awake" => began <= counter_ms
    /\ at = "previous2" => torn \/ HalfSince(began)
    /\ at \in {"counter1", "counter2"} => torn \/ previous >= began
    /\ at = "counter2" => torn \/ HalfSince(0)
    /\ SleepsLongEnough

LEMMA HalfType ==
  ASSUME NEW n \in Nat, NEW low \in BOOLEAN
  PROVE  Half(n, low) \in Nat
BY HalvesType, WordAssumption DEF Half

LEMMA JoinType ==
  ASSUME NEW a \in Nat, NEW b \in Nat
  PROVE  Join(a, b) \in Nat
<1>1. WORD * a \in Nat /\ WORD * b \in Nat
  BY WordAssumption
<1>2. QED
  BY <1>1 DEF Join

LEMMA SleepInit == Init => SleepInv
<1> SUFFICES ASSUME Init PROVE SleepInv
  OBVIOUS
<1>1. at = "awake" /\ low_first \in BOOLEAN
  BY DEF Init, ClockInit
<1>2. ClockTyped
  BY <1>1 DEF Init, ClockInit, ClockTyped, Places
<1>3. QED
  BY <1>1, <1>2 DEF SleepInv, SleepsLongEnough

LEMMA SleepUntouched ==
  ASSUME SleepInv, UNCHANGED clock
  PROVE  SleepInv'
BY DEF SleepInv, ClockTyped, HalfSince, SleepsLongEnough, clock

\* A tick makes the counter larger; one with a carry tears a load.
LEMMA SleepTick ==
  ASSUME SleepInv, on_tick
  PROVE  SleepInv'
<1> USE DEF on_tick
<1>1. ClockTyped'
  BY DEF SleepInv, ClockTyped
<1>2. counter_ms \in Nat /\ counter_ms' \in Nat /\ counter_ms <= counter_ms'
  BY DEF SleepInv, ClockTyped
<1>3. torn => torn'
  OBVIOUS
<1>4. at \in {"previous2", "counter2"} /\ ~torn' =>
        counter_ms' \div WORD = counter_ms \div WORD
  BY <1>2, NoCarry
<1>5. ASSUME NEW s \in Nat, HalfSince(s), at \in {"previous2", "counter2"}, ~torn'
      PROVE  HalfSince(s)'
  <2>1. PICK c \in Nat : /\ s <= c /\ c <= counter_ms
                         /\ loaded = Half(c, low_first)
                         /\ c \div WORD = counter_ms \div WORD
    BY <1>5 DEF HalfSince
  <2>2. c <= counter_ms' /\ c \div WORD = counter_ms' \div WORD
    BY <1>2, <1>4, <1>5, <2>1
  <2>3. loaded' = Half(c, low_first')
    BY <2>1 DEF Half
  <2>4. QED
    BY <2>1, <2>2, <2>3 DEF HalfSince
<1>6. began \in Nat /\ ms \in Nat /\ UNCHANGED <<at, ms, previous, began>>
  BY DEF SleepInv, ClockTyped
<1>7. (at = "previous2" => torn \/ HalfSince(began))'
  BY <1>3, <1>5, <1>6 DEF SleepInv, HalfSince
<1>8. (at = "counter2" => torn \/ HalfSince(0))'
  BY <1>3, <1>5, <1>6 DEF SleepInv
<1>9. SleepsLongEnough'
  <2>1. ASSUME NEW a \in Nat, NEW b \in Nat, NEW c \in Nat, NEW d \in Nat,
               a <= b, a - c >= d
        PROVE  b - c >= d
    BY <2>1
  <2>2. counter_ms - began >= ms => counter_ms' - began >= ms
    BY <1>2, <1>6, <2>1
  <2>3. QED
    BY <1>3, <1>6, <2>2 DEF SleepInv, SleepsLongEnough
<1>10. QED
  BY <1>1, <1>2, <1>3, <1>6, <1>7, <1>8, <1>9 DEF SleepInv

\* A load of the first half.
LEMMA SleepLoadFirst ==
  ASSUME SleepInv,
         \/ LoadFirst("previous1", "previous2")
         \/ LoadFirst("counter1", "counter2")
  PROVE  SleepInv'
<1> USE DEF LoadFirst
<1>1. ClockTyped /\ began <= counter_ms
  BY DEF SleepInv
<1>2. loaded' = Half(counter_ms, low_first) /\ loaded' \in Nat
  BY <1>1, HalfType DEF ClockTyped
<1>3. ClockTyped'
  BY <1>1, <1>2 DEF ClockTyped, Places
<1>4. ASSUME NEW s \in Nat, s <= counter_ms
      PROVE  HalfSince(s)'
  <2>1. loaded' = Half(counter_ms, low_first')
    BY <1>2 DEF Half
  <2>2. UNCHANGED counter_ms /\ counter_ms \in Nat
    BY <1>1 DEF ClockTyped
  <2>3. QED
    BY <1>4, <2>1, <2>2 DEF HalfSince
<1>5. began \in Nat /\ 0 <= counter_ms /\ UNCHANGED <<began, counter_ms, previous, torn>>
  BY <1>1 DEF ClockTyped
<1>6. (at = "previous2" => torn \/ HalfSince(began))'
  BY <1>1, <1>4, <1>5 DEF HalfSince
<1>7. (at = "counter2" => torn \/ HalfSince(0))'
  BY <1>4, <1>5
<1>8. (at \in {"counter1", "counter2"} => torn \/ previous >= began)'
  BY <1>5 DEF SleepInv
<1>9. QED
  BY <1>1, <1>3, <1>5, <1>6, <1>7, <1>8 DEF SleepInv, SleepsLongEnough

\* What is joined of two halves with no carry in between.
LEMMA JoinSince ==
  ASSUME ClockTyped, NEW s \in Nat, HalfSince(s)
  PROVE  Join(loaded, Half(counter_ms, ~low_first)) \in s .. counter_ms
<1>1. PICK c \in Nat : /\ s <= c /\ c <= counter_ms
                       /\ loaded = Half(c, low_first)
                       /\ c \div WORD = counter_ms \div WORD
  BY DEF HalfSince
<1>2. Join(loaded, Half(counter_ms, ~low_first)) \in c .. counter_ms
  BY <1>1, JoinedHalves DEF ClockTyped
<1>3. counter_ms \in Nat
  BY DEF ClockTyped
<1>4. QED
  BY <1>1, <1>2, <1>3

\* The sleep's own steps.
LEMMA SleepSleeping ==
  ASSUME SleepInv, LoadPrevious \/ LoadCounter \/ Wake
  PROVE  SleepInv'
<1> DEFINE joined == Join(loaded, Half(counter_ms, ~low_first))
<1>1. ClockTyped
  BY DEF SleepInv
<1>2. joined \in Nat
  BY <1>1, HalfType, JoinType DEF ClockTyped
<1> HIDE DEF joined
<1>3. CASE LoadFirst("previous1", "previous2") \/ LoadFirst("counter1", "counter2")
  BY <1>3, SleepLoadFirst
<1>4. CASE /\ at = "previous2" /\ at' = "counter1" /\ previous' = joined
           /\ UNCHANGED <<counter_ms, listener, low_first, ms, loaded, began, torn>>
  <2>1. torn \/ joined >= began
    BY <1>1, <1>4, JoinSince DEF SleepInv, ClockTyped, joined
  <2>2. ClockTyped'
    BY <1>1, <1>2, <1>4 DEF ClockTyped, Places
  <2>3. QED
    BY <1>4, <2>1, <2>2 DEF SleepInv, SleepsLongEnough
<1>5. CASE /\ at = "counter2"
           /\ at' = IF Elapsed(joined) THEN "slept" ELSE "counter1"
           /\ UNCHANGED <<counter_ms, listener, low_first, ms, previous, loaded, began, torn>>
  <2>1. ClockTyped'
    BY <1>1, <1>5 DEF ClockTyped, Places
  <2>2. torn \/ (joined <= counter_ms /\ previous >= began)
    BY <1>1, <1>5, JoinSince DEF SleepInv, ClockTyped, joined
  <2>3. Elapsed(joined) => counter_ms - began >= ms \/ torn
    BY <1>1, <1>2, <2>2 DEF Elapsed, ClockTyped
  <2>4. QED
    BY <1>5, <2>1, <2>2, <2>3 DEF SleepInv, SleepsLongEnough
<1>6. CASE Wake
  BY <1>1, <1>6 DEF Wake, SleepInv, ClockTyped, Places, SleepsLongEnough
<1>7. QED
  BY <1>3, <1>4, <1>5, <1>6 DEF LoadPrevious, LoadCounter, joined

LEMMA SleepKernelMain ==
  ASSUME SleepInv, kernel_main
  PROVE  SleepInv'
<1>1. CASE Time_initialize
  BY <1>1 DEF Time_initialize, set_on_tick_listener, SleepInv, ClockTyped, HalfSince,
              SleepsLongEnough
<1>2. CASE setup_storage
  <2>1. ASSUME NEW time \in Times, sleep(time)
        PROVE  SleepInv'
    <3>1. time \in Nat /\ counter_ms \in Nat
      BY WordAssumption DEF SleepInv, ClockTyped
    <3>2. at' = "previous1" /\ began' <= counter_ms'
      BY <2>1, <3>1 DEF sleep
    <3>3. ClockTyped'
      BY <2>1, <3>1 DEF sleep, SleepInv, ClockTyped, Places
    <3>4. QED
      BY <3>2, <3>3 DEF SleepInv, SleepsLongEnough
  <2>2. QED
    BY <1>2, <2>1, SleepUntouched DEF setup_storage
<1>3. CASE Sleeping
  BY <1>3, SleepSleeping DEF Sleeping
<1>4. CASE setup_interrupts
  BY <1>4, SleepUntouched DEF setup_interrupts
<1>5. CASE setup_exceptions_handlers
  BY <1>5, SleepUntouched DEF setup_exceptions_handlers
<1>6. CASE DriversManager_initialize
  BY <1>6, SleepUntouched DEF DriversManager_initialize
<1>7. CASE setup_pic
  BY <1>7, SleepUntouched DEF setup_pic
<1>8. CASE sti
  BY <1>8, SleepUntouched DEF sti
<1>9. CASE configure_pit
  BY <1>9, SleepUntouched DEF configure_pit
<1>10. CASE setup_clock
  BY <1>10, SleepUntouched DEF setup_clock
<1>11. CASE setup_keyboard
  BY <1>11, SleepUntouched DEF setup_keyboard
<1>12. QED
  BY <1>1, <1>2, <1>3, <1>4, <1>5, <1>6, <1>7, <1>8, <1>9, <1>10, <1>11 DEF kernel_main

LEMMA SleepNext ==
  ASSUME SleepInv, [Next]_vars
  PROVE  SleepInv'
<1>1. CASE kernel_main
  BY <1>1, SleepKernelMain
<1>2. CASE Handling
  BY <1>2, SleepTick, SleepUntouched
     DEF Handling, CallOnTick, CallOnKeData, CallNothing
<1>3. CASE Listen \/ ClockRequests \/ KeyboardSends \/ Strikes
  BY <1>3, SleepUntouched DEF Listen, ClockRequests, KeyboardSends, Strikes
<1>4. CASE UNCHANGED vars
  BY <1>4, SleepUntouched DEF vars
<1>5. QED
  BY <1>1, <1>2, <1>3, <1>4 DEF Next

\* Time::sleep lasts at least as long as it was asked to, unless a carry into the
\* upper half falls between its loads of the counter's halves, for every width of
\* the halves, either order of the loads and every number of sleeps.
THEOREM SleepsAreLongEnough == Spec => []SleepsLongEnough
<1>1. SleepInv => SleepsLongEnough
  BY DEF SleepInv
<1>2. QED
  BY <1>1, SleepInit, SleepNext, PTL DEF Spec

-----------------------------------------------------------------------------
(* Strokes are heard as they were typed *)

Clean == [second |-> FALSE, third |-> FALSE]
Second == [second |-> TRUE, third |-> FALSE]
Third == [second |-> FALSE, third |-> TRUE]
Prefixes == [second : BOOLEAN, third : BOOLEAN]

\* Byte d, if any, is the code of the key, all others only change the prefix,
\* which is tr[n] before the n-th byte.
Follows(tr, bytes, d) ==
    /\ tr[1] = Clean
    /\ \A n \in 1 .. Len(bytes) : /\ tr[n + 1] = PrefixAfter(tr[n], bytes[n])
                                  /\ IsCode(tr[n], bytes[n]) <=> n = d

Means(bytes, kind, name, tr, d) ==
    /\ d = 0 => name = NoKey
    /\ d # 0 => name # NoKey /\ KindOf(bytes[d]) = kind /\ NameOf(tr[d], bytes[d]) = name

Traced(bytes, kind, name, tr, d) ==
    /\ bytes \in Seq(Nat)
    /\ d \in 0 .. Len(bytes)
    /\ Follows(tr, bytes, d)
    /\ Means(bytes, kind, name, tr, d)
    /\ tr[Len(bytes) + 1].second => KeepsPrefix(bytes)
    /\ ~tr[Len(bytes) + 1].third

\* What is skipped behind a prefix.
LEMMA SkippedBytes ==
  ASSUME NEW b
  PROVE  /\ ~ignore(Clean, b)
         /\ ignore(Second, b) <=> b \in {42, 183, 55, 170}
         /\ ignore(Third, b) <=> b \in {29, 157, 69, 197}
BY DEF ignore, Skipped, SkippedLast, SkippedOfThree, SkippedLastOfThree, Clean, Second, Third

\* A prefix byte and a byte that is skipped are no key's codes.
LEMMA NoCodes ==
  ASSUME NEW p, NEW b, ignore(p, b) \/ b \in {224, 225}
  PROVE  ~IsCode(p, b)
BY DEF IsCode, SCAN_CODE_WAIT_FOR_SECOND, SCAN_CODE_WAIT_FOR_SECOND_AND_THIRD

\* Prefixes are told apart by their fields.
LEMMA PrefixFields ==
  /\ \A x, y \in BOOLEAN : /\ [second |-> x, third |-> y] \in Prefixes
                           /\ [second |-> x, third |-> y].second = x
                           /\ [second |-> x, third |-> y].third = y
  /\ \A p \in Prefixes : /\ p.second \in BOOLEAN /\ p.third \in BOOLEAN
                         /\ p = [second |-> p.second, third |-> p.third]
BY DEF Prefixes

LEMMA SimplePrefixes ==
  /\ Clean \in Prefixes /\ ~Clean.second /\ ~Clean.third
  /\ Second \in Prefixes /\ Second.second /\ ~Second.third
  /\ Third \in Prefixes /\ ~Third.second /\ Third.third
  /\ \A p \in Prefixes : /\ ~p.second /\ ~p.third => p = Clean
                         /\ p.second /\ ~p.third => p = Second
                         /\ ~p.second /\ p.third => p = Third
BY DEF Clean, Second, Third, Prefixes

LEMMA PrefixStep ==
  ASSUME NEW p \in Prefixes, NEW b
  PROVE  /\ PrefixAfter(p, b) \in Prefixes
         /\ PrefixAfter(p, b).second <=>
              b = 224 \/ (p.second /\ b \notin {55, 170} /\ ~IsCode(p, b))
         /\ PrefixAfter(p, b).third <=> b = 225 \/ (p.third /\ b \notin {69, 197})
<1> DEFINE x == \/ b = SCAN_CODE_WAIT_FOR_SECOND
                \/ p.second /\ b \notin SkippedLast(p) /\ ~IsCode(p, b)
           y == \/ b = SCAN_CODE_WAIT_FOR_SECOND_AND_THIRD
                \/ p.third /\ b \notin SkippedLastOfThree(p)
<1>1. PrefixAfter(p, b) = [second |-> x, third |-> y]
  BY Zenon DEF PrefixAfter
<1>2. x \in BOOLEAN /\ y \in BOOLEAN
  BY Zenon
<1>3. x <=> b = 224 \/ (p.second /\ b \notin {55, 170} /\ ~IsCode(p, b))
  BY DEF SkippedLast, SCAN_CODE_WAIT_FOR_SECOND
<1>4. y <=> b = 225 \/ (p.third /\ b \notin {69, 197})
  BY DEF SkippedLastOfThree, SCAN_CODE_WAIT_FOR_SECOND_AND_THIRD
<1> HIDE DEF x, y
<1>5. /\ [second |-> x, third |-> y] \in Prefixes
      /\ [second |-> x, third |-> y].second = x
      /\ [second |-> x, third |-> y].third = y
  BY <1>2, PrefixFields, Zenon
<1>6. /\ PrefixAfter(p, b) \in Prefixes
      /\ PrefixAfter(p, b).second = x /\ PrefixAfter(p, b).third = y
  BY <1>1, <1>5
<1>7. QED
  BY <1>2, <1>3, <1>4, <1>6

\* What the bytes in front of and behind the code of a key do.
LEMMA PrefixBytes ==
  /\ ~IsCode(Clean, 224) /\ PrefixAfter(Clean, 224) = Second
  /\ ~IsCode(Second, 224) /\ PrefixAfter(Second, 224) = Second
  /\ \A b \in {42, 183} : ~IsCode(Second, b) /\ PrefixAfter(Second, b) = Second
  /\ \A b \in {55, 170} : ~IsCode(Second, b) /\ PrefixAfter(Second, b) = Clean
<1>1. Clean \in Prefixes /\ Second \in Prefixes
  BY SimplePrefixes
<1>2. /\ ~IsCode(Clean, 224) /\ ~IsCode(Second, 224)
      /\ \A b \in {42, 183, 55, 170} : ~IsCode(Second, b)
  BY NoCodes, SkippedBytes
<1>3. PrefixAfter(Clean, 224) = Second /\ PrefixAfter(Second, 224) = Second
  BY <1>1, <1>2, PrefixStep, SimplePrefixes
<1>4. ASSUME NEW b \in {42, 183, 55, 170}
      PROVE  PrefixAfter(Second, b) = IF b \in {55, 170} THEN Clean ELSE Second
  BY <1>1, <1>2, PrefixStep, SimplePrefixes
<1>5. QED
  BY <1>2, <1>3, <1>4

LEMMA PauseBytes ==
  /\ ~IsCode(Clean, 225) /\ PrefixAfter(Clean, 225) = Third
  /\ \A b \in {29, 157} : ~IsCode(Third, b) /\ PrefixAfter(Third, b) = Third
  /\ \A b \in {69, 197} : ~IsCode(Third, b) /\ PrefixAfter(Third, b) = Clean
<1>1. Clean \in Prefixes /\ Third \in Prefixes
  BY SimplePrefixes
<1>2. ~IsCode(Clean, 225) /\ \A b \in {29, 157, 69, 197} : ~IsCode(Third, b)
  BY NoCodes, SkippedBytes
<1>3. PrefixAfter(Clean, 225) = Third
  BY <1>1, <1>2, PrefixStep, SimplePrefixes
<1>4. ASSUME NEW b \in {29, 157, 69, 197}
      PROVE  PrefixAfter(Third, b) = IF b \in {69, 197} THEN Clean ELSE Third
  BY <1>1, <1>2, PrefixStep, SimplePrefixes
<1>5. QED
  BY <1>2, <1>3, <1>4

\* The code of a key that the driver knows.
LEMMA CodeBytes ==
  ASSUME NEW kind \in Kinds, NEW c \in MakeCodes
  PROVE  /\ Sent(kind, c) \in Nat
         /\ KindOf(Sent(kind, c)) = kind
         /\ IsCode(Clean, Sent(kind, c)) /\ PrefixAfter(Clean, Sent(kind, c)) = Clean
         /\ NameOf(Clean, Sent(kind, c)) = one_scan_code_to_avi_charcode_arr[c + 1]
         /\ c \notin {42, 55} =>
              /\ IsCode(Second, Sent(kind, c)) /\ PrefixAfter(Second, Sent(kind, c)) = Clean
              /\ NameOf(Second, Sent(kind, c)) = two_scan_codes_to_avi_charcode_arr[c]
<1> DEFINE s == Sent(kind, c)
<1>1. c \in 1 .. 88
  BY DEF MakeCodes, MAKE_SCAN_CODES_START, MAKE_SCAN_CODES_END
<1>2. BreakCodes = 129 .. 216 /\ MakeCodes = 1 .. 88
  BY DEF BreakCodes, MakeCodes, MAKE_SCAN_CODES_START, MAKE_SCAN_CODES_END, BREAK
<1>3. s = IF kind = "press" THEN c ELSE c + 128
  BY DEF Sent, BREAK
<1>4. kind = "press" \/ kind = "release"
  BY DEF Kinds
<1>5. s \in Nat /\ s \in MakeCodes \cup BreakCodes /\ s \notin {224, 225}
  BY <1>1, <1>2, <1>3
<1>6. s \in BreakCodes <=> kind = "release"
  BY <1>1, <1>2, <1>3, <1>4
<1>7. c = IF s \in BreakCodes THEN s - BREAK ELSE s
  BY <1>1, <1>3, <1>4, <1>6 DEF BREAK
<1>8. KindOf(s) = kind
  BY <1>4, <1>6 DEF KindOf
<1>9. ~ignore(Clean, s)
  BY SkippedBytes
<1>10. c \notin {42, 55} => ~ignore(Second, s)
  BY <1>1, <1>3, SkippedBytes
<1>11. Clean \in Prefixes /\ Second \in Prefixes
  BY SimplePrefixes
<1> HIDE DEF s
<1>12. ASSUME NEW p \in {Clean, Second}, ~ignore(p, s)
       PROVE  IsCode(p, s) /\ PrefixAfter(p, s) = Clean
  <2>1. IsCode(p, s)
    BY <1>5, <1>12 DEF IsCode, SCAN_CODE_WAIT_FOR_SECOND, SCAN_CODE_WAIT_FOR_SECOND_AND_THIRD
  <2>2. PrefixAfter(p, s) = Clean
    BY <1>5, <1>11, <2>1, PrefixStep, SimplePrefixes
  <2>3. QED
    BY <2>1, <2>2
<1>13. /\ NameOf(Clean, s) = one_scan_code_to_avi_charcode_arr[c + 1]
       /\ NameOf(Second, s) = two_scan_codes_to_avi_charcode_arr[c]
  <2>1. ASSUME NEW p
        PROVE  NameOf(p, s) = ExtendedChar(p.second, c)
    BY <1>7 DEF NameOf
  <2>2. Clean.second = FALSE /\ Second.second = TRUE
    BY DEF Clean, Second
  <2>3. QED
    BY <2>1, <2>2 DEF ExtendedChar
<1>14. QED
  BY <1>5, <1>8, <1>9, <1>10, <1>12, <1>13 DEF s

\* The code of a key that it does not know.
LEMMA LaterBytes ==
  ASSUME NEW kind \in Kinds, NEW c \in LaterCodes, NEW p \in {Clean, Second}
  PROVE  /\ Sent(kind, c) \in Nat
         /\ ~IsCode(p, Sent(kind, c)) /\ PrefixAfter(p, Sent(kind, c)) = p
         /\ Sent(kind, c) \notin MakeCodes \cup BreakCodes
<1> DEFINE s == Sent(kind, c)
<1>1. c \in 89 .. 127 /\ c # 96 /\ c # 97
  BY DEF LaterCodes, MAKE_SCAN_CODES_END, BREAK
<1>2. BreakCodes = 129 .. 216 /\ MakeCodes = 1 .. 88
  BY DEF BreakCodes, MakeCodes, MAKE_SCAN_CODES_START, MAKE_SCAN_CODES_END, BREAK
<1>3. s = IF kind = "press" THEN c ELSE c + 128
  BY DEF Sent, BREAK
<1>4. s \in Nat /\ s \notin MakeCodes \cup BreakCodes /\ s \notin {224, 225}
  BY <1>1, <1>2, <1>3
<1>5. ~ignore(p, s)
  BY <1>1, <1>3, SkippedBytes
<1> HIDE DEF s
<1>6. ~IsCode(p, s)
  BY <1>4 DEF IsCode
<1>7. PrefixAfter(p, s) = p
  <2>1. p \in Prefixes /\ s \notin {55, 170}
    BY <1>1, <1>3, SimplePrefixes
  <2>2. QED
    BY <1>4, <1>6, <2>1, PrefixStep, SimplePrefixes
<1>8. QED
  BY <1>4, <1>6, <1>7 DEF s
-----------------------------------------------------------------------------

\* A sequence of bytes has a trace.
HasTrace(bytes, kind, name) == \E tr, d : Traced(bytes, kind, name, tr, d)

\* The trace of at most four bytes.
LEMMA TraceOfOne ==
  ASSUME NEW kind, NEW name, NEW a \in Nat, NEW q \in Prefixes, NEW d \in 0 .. 1,
         PrefixAfter(Clean, a) = q, IsCode(Clean, a) <=> d = 1,
         Means(<<a>>, kind, name, <<Clean, q>>, d),
         q.second => KeepsPrefix(<<a>>), ~q.third
  PROVE  HasTrace(<<a>>, kind, name)
<1> DEFINE bytes == <<a>>
           tr == <<Clean, q>>
<1>1. bytes \in Seq(Nat) /\ Len(bytes) = 1 /\ bytes[1] = a
  OBVIOUS
<1>2. tr[1] = Clean /\ tr[2] = q
  OBVIOUS
<1> HIDE DEF bytes, tr
<1>3. Follows(tr, bytes, d)
  BY <1>1, <1>2 DEF Follows
<1>4. Traced(bytes, kind, name, tr, d)
  BY <1>1, <1>2, <1>3 DEF Traced, bytes, tr
<1>5. QED
  BY <1>4 DEF HasTrace, bytes

LEMMA TraceOfTwo ==
  ASSUME NEW kind, NEW name, NEW a \in Nat, NEW b \in Nat,
         NEW p \in Prefixes, NEW q \in Prefixes, NEW d \in 0 .. 2,
         PrefixAfter(Clean, a) = p, IsCode(Clean, a) <=> d = 1,
         PrefixAfter(p, b) = q, IsCode(p, b) <=> d = 2,
         Means(<<a, b>>, kind, name, <<Clean, p, q>>, d),
         q.second => KeepsPrefix(<<a, b>>), ~q.third
  PROVE  HasTrace(<<a, b>>, kind, name)
<1> DEFINE bytes == <<a, b>>
           tr == <<Clean, p, q>>
<1>1. bytes \in Seq(Nat) /\ Len(bytes) = 2 /\ bytes[1] = a /\ bytes[2] = b
  OBVIOUS
<1>2. tr[1] = Clean /\ tr[2] = p /\ tr[3] = q
  OBVIOUS
<1> HIDE DEF bytes, tr
<1>3. Follows(tr, bytes, d)
  BY <1>1, <1>2 DEF Follows
<1>4. Traced(bytes, kind, name, tr, d)
  BY <1>1, <1>2, <1>3 DEF Traced, bytes, tr
<1>5. QED
  BY <1>4 DEF HasTrace, bytes

LEMMA TraceOfFour ==
  ASSUME NEW kind, NEW name, NEW a \in Nat, NEW b \in Nat, NEW c \in Nat, NEW e \in Nat,
         NEW p \in Prefixes, NEW q \in Prefixes, NEW r \in Prefixes, NEW t \in Prefixes,
         NEW d \in 0 .. 4,
         PrefixAfter(Clean, a) = p, IsCode(Clean, a) <=> d = 1,
         PrefixAfter(p, b) = q, IsCode(p, b) <=> d = 2,
         PrefixAfter(q, c) = r, IsCode(q, c) <=> d = 3,
         PrefixAfter(r, e) = t, IsCode(r, e) <=> d = 4,
         Means(<<a, b, c, e>>, kind, name, <<Clean, p, q, r, t>>, d),
         t.second => KeepsPrefix(<<a, b, c, e>>), ~t.third
  PROVE  HasTrace(<<a, b, c, e>>, kind, name)
<1> DEFINE bytes == <<a, b, c, e>>
           tr == <<Clean, p, q, r, t>>
<1>1. /\ bytes \in Seq(Nat) /\ Len(bytes) = 4
      /\ bytes[1] = a /\ bytes[2] = b /\ bytes[3] = c /\ bytes[4] = e
  OBVIOUS
<1>2. tr[1] = Clean /\ tr[2] = p /\ tr[3] = q /\ tr[4] = r /\ tr[5] = t
  OBVIOUS
<1> HIDE DEF bytes, tr
<1>3. Follows(tr, bytes, d)
  <2>1. 1 .. Len(bytes) = {1, 2, 3, 4}
    BY <1>1
  <2>2. QED
    BY <1>1, <1>2, <2>1 DEF Follows
<1>4. Traced(bytes, kind, name, tr, d)
  BY <1>1, <1>2, <1>3 DEF Traced, bytes, tr
<1>5. QED
  BY <1>4 DEF HasTrace, bytes
\* Keys whose strokes are the code alone.
LEMMA TracePlain ==
  ASSUME NEW kind \in Kinds, NEW c \in MakeCodes, NEW name,
         name = one_scan_code_to_avi_charcode_arr[c + 1], name # NoKey
  PROVE  HasTrace(<<Sent(kind, c)>>, kind, name)
<1> DEFINE s == Sent(kind, c)
<1>1. /\ s \in Nat /\ KindOf(s) = kind /\ IsCode(Clean, s) /\ PrefixAfter(Clean, s) = Clean
      /\ NameOf(Clean, s) = name
  BY CodeBytes
<1> HIDE DEF s
<1>2. Means(<<s>>, kind, name, <<Clean, Clean>>, 1)
  BY <1>1 DEF Means
<1>3. HasTrace(<<s>>, kind, name)
  BY <1>1, <1>2, SimplePrefixes, TraceOfOne
<1>4. QED
  BY <1>3 DEF s

\* Keys whose codes have a prefix, and the shift codes around them.
LEMMA TraceExtended ==
  ASSUME NEW kind \in Kinds, NEW c \in MakeCodes \ {42, 55}, NEW name,
         name = two_scan_codes_to_avi_charcode_arr[c], name # NoKey,
         NEW bytes \in Extended(kind, c)
  PROVE  HasTrace(bytes, kind, name)
<1> DEFINE s == Sent(kind, c)
<1>1. /\ s \in Nat /\ KindOf(s) = kind /\ IsCode(Second, s) /\ PrefixAfter(Second, s) = Clean
      /\ NameOf(Second, s) = name
  BY CodeBytes
<1>2. \/ bytes = <<224, s>>
      \/ bytes \in {<<224, 42, 224, s>>, <<224, 170, 224, s>>}
      \/ bytes \in {<<224, s, 224, 170>>, <<224, s, 224, 42>>}
  BY DEF Extended
<1> HIDE DEF s
<1>3. CASE bytes = <<224, s>>
  <2>1. Means(<<224, s>>, kind, name, <<Clean, Second, Clean>>, 2)
    BY <1>1 DEF Means
  <2>2. QED
    BY <1>1, <1>3, <2>1, PrefixBytes, SimplePrefixes, TraceOfTwo
<1>4. CASE bytes = <<224, 42, 224, s>>
  <2>1. Means(<<224, 42, 224, s>>, kind, name, <<Clean, Second, Second, Second, Clean>>, 4)
    BY <1>1 DEF Means
  <2>2. QED
    BY <1>1, <1>4, <2>1, PrefixBytes, SimplePrefixes, TraceOfFour
<1>5. CASE bytes = <<224, 170, 224, s>>
  <2>1. Means(<<224, 170, 224, s>>, kind, name, <<Clean, Second, Clean, Second, Clean>>, 4)
    BY <1>1 DEF Means
  <2>2. QED
    BY <1>1, <1>5, <2>1, PrefixBytes, SimplePrefixes, TraceOfFour
<1>6. CASE bytes = <<224, s, 224, 170>>
  <2>1. Means(<<224, s, 224, 170>>, kind, name, <<Clean, Second, Clean, Second, Clean>>, 2)
    BY <1>1 DEF Means
  <2>2. QED
    BY <1>1, <1>6, <2>1, PrefixBytes, SimplePrefixes, TraceOfFour
<1>7. CASE bytes = <<224, s, 224, 42>>
  <2>1. Means(<<224, s, 224, 42>>, kind, name, <<Clean, Second, Clean, Second, Second>>, 2)
    BY <1>1 DEF Means
  <2>2. KeepsPrefix(<<224, s, 224, 42>>)
    BY DEF KeepsPrefix, SCAN_CODE_WAIT_FOR_SECOND
  <2>3. QED
    BY <1>1, <1>7, <2>1, <2>2, PrefixBytes, SimplePrefixes, TraceOfFour
<1>8. QED
  BY <1>2, <1>3, <1>4, <1>5, <1>6, <1>7

\* Keys that the driver does not know, with or without a prefix.
LEMMA TraceLater ==
  ASSUME NEW kind \in Kinds, NEW c \in LaterCodes,
         NEW bytes \in Extended(kind, c) \cup {<<Sent(kind, c)>>}
  PROVE  HasTrace(bytes, kind, NoKey)
<1> DEFINE s == Sent(kind, c)
<1>1. /\ s \in Nat /\ s \notin MakeCodes \cup BreakCodes
      /\ ~IsCode(Clean, s) /\ PrefixAfter(Clean, s) = Clean
      /\ ~IsCode(Second, s) /\ PrefixAfter(Second, s) = Second
  BY LaterBytes
<1>2. \/ bytes = <<s>> \/ bytes = <<224, s>>
      \/ bytes \in {<<224, 42, 224, s>>, <<224, 170, 224, s>>}
      \/ bytes \in {<<224, s, 224, 170>>, <<224, s, 224, 42>>}
  BY DEF Extended
<1> HIDE DEF s
<1>3. CASE bytes = <<s>>
  <2>1. Means(<<s>>, kind, NoKey, <<Clean, Clean>>, 0)
    BY DEF Means
  <2>2. QED
    BY <1>1, <1>3, <2>1, SimplePrefixes, TraceOfOne
<1>4. CASE bytes = <<224, s>>
  <2>1. Means(<<224, s>>, kind, NoKey, <<Clean, Second, Second>>, 0)
    BY DEF Means
  <2>2. KeepsPrefix(<<224, s>>)
    BY <1>1 DEF KeepsPrefix, SCAN_CODE_WAIT_FOR_SECOND
  <2>3. QED
    BY <1>1, <1>4, <2>1, <2>2, PrefixBytes, SimplePrefixes, TraceOfTwo
<1>5. CASE bytes = <<224, 42, 224, s>>
  <2>1. Means(<<224, 42, 224, s>>, kind, NoKey, <<Clean, Second, Second, Second, Second>>, 0)
    BY DEF Means
  <2>2. KeepsPrefix(<<224, 42, 224, s>>)
    BY <1>1 DEF KeepsPrefix, SCAN_CODE_WAIT_FOR_SECOND
  <2>3. QED
    BY <1>1, <1>5, <2>1, <2>2, PrefixBytes, SimplePrefixes, TraceOfFour
<1>6. CASE bytes = <<224, 170, 224, s>>
  <2>1. Means(<<224, 170, 224, s>>, kind, NoKey, <<Clean, Second, Clean, Second, Second>>, 0)
    BY DEF Means
  <2>2. KeepsPrefix(<<224, 170, 224, s>>)
    BY <1>1 DEF KeepsPrefix, SCAN_CODE_WAIT_FOR_SECOND
  <2>3. QED
    BY <1>1, <1>6, <2>1, <2>2, PrefixBytes, SimplePrefixes, TraceOfFour
<1>7. CASE bytes = <<224, s, 224, 170>>
  <2>1. Means(<<224, s, 224, 170>>, kind, NoKey, <<Clean, Second, Second, Second, Clean>>, 0)
    BY DEF Means
  <2>2. QED
    BY <1>1, <1>7, <2>1, PrefixBytes, SimplePrefixes, TraceOfFour
<1>8. CASE bytes = <<224, s, 224, 42>>
  <2>1. Means(<<224, s, 224, 42>>, kind, NoKey, <<Clean, Second, Second, Second, Second>>, 0)
    BY DEF Means
  <2>2. KeepsPrefix(<<224, s, 224, 42>>)
    BY DEF KeepsPrefix, SCAN_CODE_WAIT_FOR_SECOND
  <2>3. QED
    BY <1>1, <1>8, <2>1, <2>2, PrefixBytes, SimplePrefixes, TraceOfFour
<1>9. QED
  BY <1>2, <1>3, <1>4, <1>5, <1>6, <1>7, <1>8
\* Print Screen, with or without the shift codes around it.
LEMMA TracePrintScreen ==
  ASSUME NEW kind \in Kinds, NEW bytes \in PrintScreen(kind)
  PROVE  HasTrace(bytes, kind, NoKey)
<1>1. \/ bytes \in {<<224, 42, 224, 55>>, <<224, 55>>}
      \/ bytes \in {<<224, 183, 224, 170>>, <<224, 183>>}
  BY DEF PrintScreen
<1>2. CASE bytes = <<224, 42, 224, 55>>
  <2>1. Means(<<224, 42, 224, 55>>, kind, NoKey, <<Clean, Second, Second, Second, Clean>>, 0)
    BY DEF Means
  <2>2. QED
    BY <1>2, <2>1, PrefixBytes, SimplePrefixes, TraceOfFour
<1>3. CASE bytes = <<224, 55>>
  <2>1. Means(<<224, 55>>, kind, NoKey, <<Clean, Second, Clean>>, 0)
    BY DEF Means
  <2>2. QED
    BY <1>3, <2>1, PrefixBytes, SimplePrefixes, TraceOfTwo
<1>4. CASE bytes = <<224, 183, 224, 170>>
  <2>1. Means(<<224, 183, 224, 170>>, kind, NoKey, <<Clean, Second, Second, Second, Clean>>, 0)
    BY DEF Means
  <2>2. QED
    BY <1>4, <2>1, PrefixBytes, SimplePrefixes, TraceOfFour
<1>5. CASE bytes = <<224, 183>>
  <2>1. Means(<<224, 183>>, kind, NoKey, <<Clean, Second, Second>>, 0)
    BY DEF Means
  <2>2. KeepsPrefix(<<224, 183>>)
    BY DEF KeepsPrefix, SCAN_CODE_WAIT_FOR_SECOND
  <2>3. QED
    BY <1>5, <2>1, <2>2, PrefixBytes, SimplePrefixes, TraceOfTwo
<1>6. QED
  BY <1>1, <1>2, <1>3, <1>4, <1>5

\* Pause, which sends nothing when it is let go.
LEMMA TracePause ==
  ASSUME NEW kind \in Kinds
  PROVE  HasTrace(Pause(kind), kind, NoKey)
<1>1. CASE Pause(kind) = <<225, 29, 69, 225, 157, 197>>
  <2> DEFINE bytes == <<225, 29, 69, 225, 157, 197>>
             tr == <<Clean, Third, Third, Clean, Third, Third, Clean>>
  <2>1. /\ bytes \in Seq(Nat) /\ 1 .. Len(bytes) = 1 .. 6 /\ Len(bytes) = 6
        /\ bytes[1] = 225 /\ bytes[2] = 29 /\ bytes[3] = 69
        /\ bytes[4] = 225 /\ bytes[5] = 157 /\ bytes[6] = 197
    OBVIOUS
  <2>2. /\ tr[1] = Clean /\ tr[2] = Third /\ tr[3] = Third /\ tr[4] = Clean
        /\ tr[5] = Third /\ tr[6] = Third /\ tr[7] = Clean
    OBVIOUS
  <2> HIDE DEF bytes, tr
  <2>3. \A n \in 1 .. 6 : tr[n + 1] = PrefixAfter(tr[n], bytes[n]) /\ ~IsCode(tr[n], bytes[n])
    <3>1. tr[2] = PrefixAfter(tr[1], bytes[1]) /\ ~IsCode(tr[1], bytes[1])
      BY <2>1, <2>2, PauseBytes
    <3>2. tr[3] = PrefixAfter(tr[2], bytes[2]) /\ ~IsCode(tr[2], bytes[2])
      BY <2>1, <2>2, PauseBytes
    <3>3. tr[4] = PrefixAfter(tr[3], bytes[3]) /\ ~IsCode(tr[3], bytes[3])
      BY <2>1, <2>2, PauseBytes
    <3>4. tr[5] = PrefixAfter(tr[4], bytes[4]) /\ ~IsCode(tr[4], bytes[4])
      BY <2>1, <2>2, PauseBytes
    <3>5. tr[6] = PrefixAfter(tr[5], bytes[5]) /\ ~IsCode(tr[5], bytes[5])
      BY <2>1, <2>2, PauseBytes
    <3>6. tr[7] = PrefixAfter(tr[6], bytes[6]) /\ ~IsCode(tr[6], bytes[6])
      BY <2>1, <2>2, PauseBytes
    <3>7. QED
      BY <3>1, <3>2, <3>3, <3>4, <3>5, <3>6
  <2>4. Follows(tr, bytes, 0) /\ Means(bytes, kind, NoKey, tr, 0)
    BY <2>1, <2>2, <2>3 DEF Follows, Means
  <2>5. Traced(bytes, kind, NoKey, tr, 0)
    BY <2>1, <2>2, <2>4, SimplePrefixes DEF Traced
  <2>6. QED
    BY <1>1, <2>5 DEF HasTrace, bytes
<1>2. CASE Pause(kind) = <<>>
  <2>1. <<>> \in Seq(Nat) /\ Len(<<>>) = 0 /\ <<Clean>>[1] = Clean
    OBVIOUS
  <2>2. Follows(<<Clean>>, <<>>, 0) /\ Means(<<>>, kind, NoKey, <<Clean>>, 0)
    BY <2>1 DEF Follows, Means
  <2>3. Traced(<<>>, kind, NoKey, <<Clean>>, 0)
    BY <2>1, <2>2, SimplePrefixes DEF Traced
  <2>4. QED
    BY <1>2, <2>3 DEF HasTrace
<1>3. QED
  BY <1>1, <1>2 DEF Pause

\* Every stroke of a keyboard has a trace.
LEMMA Traces ==
  ASSUME NEW key \in Keys, NEW kind \in Kinds
  PROVE  HasTrace(Codes[key][kind], kind, Named[key])
<1>1. CASE /\ Named[key] # NoKey
           /\ \E c \in MakeCodes :
                /\ Named[key] = one_scan_code_to_avi_charcode_arr[c + 1]
                /\ \A k \in Kinds : Codes[key][k] = <<Sent(k, c)>>
  BY <1>1, TracePlain
<1>2. CASE /\ Named[key] # NoKey
           /\ \E c \in MakeCodes \ {42, 55} :
                /\ Named[key] = two_scan_codes_to_avi_charcode_arr[c]
                /\ \A k \in Kinds : Codes[key][k] \in Extended(k, c)
  BY <1>2, TraceExtended
<1>3. CASE /\ Named[key] = NoKey
           /\ \E c \in LaterCodes : \A k \in Kinds :
                Codes[key][k] \in Extended(k, c) \cup {<<Sent(k, c)>>}
  BY <1>3, TraceLater
<1>4. CASE /\ Named[key] = NoKey
           /\ \A k \in Kinds : Codes[key][k] \in PrintScreen(k)
  BY <1>4, TracePrintScreen
<1>5. CASE /\ Named[key] = NoKey
           /\ \A k \in Kinds : Codes[key][k] = Pause(k)
  BY <1>5, TracePause
<1>6. QED
  BY <1>1, <1>2, <1>3, <1>4, <1>5, KeyTable
-----------------------------------------------------------------------------

ListenersTyped ==
    listeners.ps2 = [press |-> listeners.ps2.press, release |-> listeners.ps2.release]

\* The listener of the stroke, once set, stays.
Listened ==
    /\ stroke.kind \in Kinds
    /\ stroke.listener = nullptr \/ listeners.ps2[stroke.kind] = stroke.listener

\* The bytes from the n-th on are still to be decoded.
ToCome(bytes, n) ==
    \/ /\ output = Empty
       /\ wire = SubSeq(bytes, n, Len(bytes))
    \/ /\ n <= Len(bytes) /\ output = bytes[n]
       /\ wire = SubSeq(bytes, n + 1, Len(bytes))

\* What has been heard of the stroke when the bytes before the n-th are decoded.
HeardUpTo(n, d) ==
    \/ heard = <<>> /\ (d = 0 \/ n <= d \/ stroke.listener = nullptr)
    \/ /\ d # 0 /\ d < n /\ listeners.ps2[stroke.kind] # nullptr
       /\ heard = << <<listeners.ps2[stroke.kind], Named[stroke.key]>> >>

Decoding(bytes, tr, d, n) ==
    /\ Traced(bytes, stroke.kind, Named[stroke.key], tr, d)
    /\ n \in 1 .. Len(bytes) + 1
    /\ prefix = tr[n]
    /\ ToCome(bytes, n)
    /\ HeardUpTo(n, d)

\* Why strokes are heard as typed: the prefix is the one that the bytes read so
\* far leave, and the code of the key is read behind its own prefix.
StrokeInv ==
    /\ prefix \in Prefixes
    /\ ListenersTyped
    /\ stroke.key # NoKey =>
         /\ Listened
         /\ stroke.clean => \E tr, d, n : Decoding(Codes[stroke.key][stroke.kind], tr, d, n)

LEMMA StrokeHeard == StrokeInv => HeardAsTyped
<1> SUFFICES ASSUME StrokeInv, stroke.key # NoKey, stroke.clean, wire = <<>>, output = Empty
             PROVE  /\ \/ heard = ExpectedOf(listeners.ps2[stroke.kind])
                       \/ stroke.listener = nullptr /\ heard = <<>>
                    /\ prefix.second => KeepsPrefix(Codes[stroke.key][stroke.kind])
                    /\ ~prefix.third
  BY DEF HeardAsTyped
<1> DEFINE bytes == Codes[stroke.key][stroke.kind]
<1>1. PICK tr, d, n : Decoding(bytes, tr, d, n)
  BY DEF StrokeInv
<1> HIDE DEF bytes
<1>2. bytes \in Seq(Nat) /\ n \in 1 .. Len(bytes) + 1 /\ Len(bytes) \in Nat
  BY <1>1 DEF Decoding, Traced
<1>3. n = Len(bytes) + 1
  <2>1. \A m \in 1 .. Len(bytes) : bytes[m] # Empty
    BY <1>2 DEF Empty
  <2>2. wire = SubSeq(bytes, n, Len(bytes))
    BY <1>1, <1>2, <2>1 DEF Decoding, ToCome
  <2>3. Len(SubSeq(bytes, n, Len(bytes))) = Len(bytes) - n + 1
    BY <1>2
  <2>4. Len(wire) = 0
    OBVIOUS
  <2>5. Len(bytes) - n + 1 = 0
    BY <2>2, <2>3, <2>4
  <2>6. QED
    BY <1>2, <2>5
<1>4. (prefix.second => KeepsPrefix(bytes)) /\ ~prefix.third
  BY <1>1, <1>3 DEF Decoding, Traced
<1>5. d \in 0 .. Len(bytes) /\ d < n
  BY <1>1, <1>2, <1>3 DEF Decoding, Traced
<1>6. /\ d = 0 => Named[stroke.key] = NoKey
      /\ d # 0 => Named[stroke.key] # NoKey
  BY <1>1 DEF Decoding, Traced, Means
<1>7. \/ heard = ExpectedOf(listeners.ps2[stroke.kind])
      \/ stroke.listener = nullptr /\ heard = <<>>
  BY <1>1, <1>2, <1>5, <1>6 DEF Decoding, HeardUpTo, ExpectedOf
<1>8. QED
  BY <1>4, <1>7 DEF bytes

LEMMA StrokeInit == Init => StrokeInv
<1> SUFFICES ASSUME Init PROVE StrokeInv
  OBVIOUS
<1>1. stroke.key = NoKey
  BY DEF Init, KeyboardInit
<1>2. prefix = Clean
  BY DEF Init, KeyboardInit, Clean
<1>3. ListenersTyped
  BY DEF Init, KeyboardInit, ListenersTyped
<1>4. QED
  BY <1>1, <1>2, <1>3, SimplePrefixes DEF StrokeInv

LEMMA StrokeUntouched ==
  ASSUME StrokeInv, UNCHANGED keyboard
  PROVE  StrokeInv'
BY DEF StrokeInv, ListenersTyped, Listened, Decoding, ToCome, HeardUpTo, keyboard

\* A listener set while a stroke is being decoded had been missing.
LEMMA StrokeListen ==
  ASSUME StrokeInv, Listen
  PROVE  StrokeInv'
<1>1. UNCHANGED <<output, wire, stroke, prefix, heard>>
  BY DEF Listen, set_on_press_listener, set_on_release_listener
<1>2. /\ ListenersTyped'
      /\ \A kind \in Kinds : listeners.ps2[kind] # nullptr =>
           listeners'.ps2[kind] = listeners.ps2[kind]
  <2>1. listeners.ps2 = [press |-> listeners.ps2.press, release |-> listeners.ps2.release]
    BY DEF StrokeInv, ListenersTyped
  <2>2. CASE listeners.ps2.press = nullptr /\ set_on_press_listener("on_press")
    <3>1. listeners'.ps2 = [listeners.ps2 EXCEPT !.press = "on_press"]
      BY <2>2 DEF set_on_press_listener
    <3>2. listeners'.ps2 = [press |-> "on_press", release |-> listeners.ps2.release]
      BY <2>1, <3>1
    <3>3. QED
      BY <2>1, <2>2, <3>2 DEF Kinds, ListenersTyped
  <2>3. CASE listeners.ps2.release = nullptr /\ set_on_release_listener("on_release")
    <3>1. listeners'.ps2 = [listeners.ps2 EXCEPT !.release = "on_release"]
      BY <2>3 DEF set_on_release_listener
    <3>2. listeners'.ps2 = [press |-> listeners.ps2.press, release |-> "on_release"]
      BY <2>1, <3>1
    <3>3. QED
      BY <2>1, <2>3, <3>2 DEF Kinds, ListenersTyped
  <2>4. QED
    BY <2>2, <2>3 DEF Listen
<1>3. Listened => Listened'
  BY <1>1, <1>2 DEF Listened
<1>4. ASSUME NEW bytes, NEW tr, NEW d, NEW n, Listened, Decoding(bytes, tr, d, n)
      PROVE  Decoding(bytes, tr, d, n)'
  <2>1. HeardUpTo(n, d)'
    BY <1>1, <1>2, <1>4 DEF Decoding, HeardUpTo, Listened
  <2>2. QED
    BY <1>1, <1>4, <2>1 DEF Decoding, ToCome
<1>5. QED
  BY <1>1, <1>2, <1>3, <1>4 DEF StrokeInv
\* A stroke starts at its first byte.
LEMMA StrokeStrike ==
  ASSUME StrokeInv, NEW key \in Keys, NEW kind \in Kinds, Strike(key, kind)
  PROVE  StrokeInv'
<1> DEFINE bytes == Codes[key][kind]
<1>1. PICK tr, d : Traced(bytes, kind, Named[key], tr, d)
  BY Traces DEF HasTrace
<1>2. /\ UNCHANGED <<output, prefix, listeners>>
      /\ output = Empty /\ wire' = bytes /\ heard' = <<>>
      /\ stroke'.key = key /\ stroke'.kind = kind
      /\ stroke'.listener = listeners.ps2[kind]
      /\ stroke'.clean = (~prefix.second /\ ~prefix.third)
  BY DEF Strike
<1>3. bytes \in Seq(Nat) /\ tr[1] = Clean /\ d \in 0 .. Len(bytes) /\ Len(bytes) \in Nat
  BY <1>1 DEF Traced, Follows
<1>4. Codes'[stroke'.key][stroke'.kind] = bytes
  BY <1>2
<1> HIDE DEF bytes
<1>5. SubSeq(bytes, 1, Len(bytes)) = bytes
  BY <1>3
<1>6. ASSUME stroke'.clean
      PROVE  Decoding(bytes, tr, d, 1)'
  <2>1. prefix' = tr[1]
    BY <1>2, <1>3, <1>6, SimplePrefixes DEF StrokeInv
  <2>2. Traced(bytes, stroke'.kind, Named[stroke'.key], tr, d)
    BY <1>1, <1>2
  <2>3. ToCome(bytes, 1)'
    BY <1>2, <1>5 DEF ToCome
  <2>4. HeardUpTo(1, d)'
    BY <1>2, <1>3 DEF HeardUpTo
  <2>5. QED
    BY <1>3, <2>1, <2>2, <2>3, <2>4 DEF Decoding
<1>7. Listened'
  BY <1>2 DEF Listened
<1>8. prefix' \in Prefixes /\ ListenersTyped'
  BY <1>2 DEF StrokeInv, ListenersTyped
<1>9. QED
  BY <1>4, <1>6, <1>7, <1>8 DEF StrokeInv
\* The next byte is sent when the last has been read.
LEMMA StrokeSend ==
  ASSUME StrokeInv, Send
  PROVE  StrokeInv'
<1>1. /\ wire # <<>> /\ output = Empty
      /\ output' = Head(wire) /\ wire' = Tail(wire)
      /\ UNCHANGED <<stroke, prefix, listeners, heard>>
  BY DEF Send
<1>2. ASSUME NEW bytes, NEW tr, NEW d, NEW n, Decoding(bytes, tr, d, n)
      PROVE  Decoding(bytes, tr, d, n)'
  <2>1. bytes \in Seq(Nat) /\ Len(bytes) \in Nat /\ n \in 1 .. Len(bytes) + 1
    BY <1>2 DEF Decoding, Traced
  <2>2. wire = SubSeq(bytes, n, Len(bytes))
    <3>1. \A m \in 1 .. Len(bytes) : bytes[m] # Empty
      BY <2>1 DEF Empty
    <3>2. QED
      BY <1>1, <1>2, <2>1, <3>1 DEF Decoding, ToCome
  <2>3. n <= Len(bytes)
    <3>1. n = Len(bytes) + 1 => SubSeq(bytes, n, Len(bytes)) = <<>>
      BY <2>1
    <3>2. QED
      BY <1>1, <2>1, <2>2, <3>1
  <2>4. /\ Head(SubSeq(bytes, n, Len(bytes))) = bytes[n]
        /\ Tail(SubSeq(bytes, n, Len(bytes))) = SubSeq(bytes, n + 1, Len(bytes))
    BY <2>1, <2>3
  <2>5. ToCome(bytes, n)'
    BY <1>1, <2>2, <2>3, <2>4 DEF ToCome
  <2>6. QED
    BY <1>1, <1>2, <2>5 DEF Decoding, HeardUpTo
<1>3. QED
  BY <1>1, <1>2 DEF StrokeInv, ListenersTyped, Listened

\* What a handled byte adds to what has been heard.
LEMMA StrokeByte ==
  ASSUME ListenersTyped, prefix \in Prefixes, Listened, on_ke_data, output # Empty,
         NEW bytes, NEW tr, NEW d, NEW n, Decoding(bytes, tr, d, n)
  PROVE  Decoding(bytes, tr, d, n + 1)'
<1>1. /\ heard' = heard \o Delivered(prefix, output)
      /\ prefix' = PrefixAfter(prefix, output) /\ output' = Empty
      /\ UNCHANGED <<wire, stroke, listeners>>
  BY DEF on_ke_data
<1>2. /\ bytes \in Seq(Nat) /\ Len(bytes) \in Nat /\ d \in 0 .. Len(bytes)
      /\ n \in 1 .. Len(bytes) /\ output = bytes[n]
      /\ wire = SubSeq(bytes, n + 1, Len(bytes))
      /\ prefix = tr[n]
  BY DEF Decoding, ToCome, Traced
<1>3. prefix' = tr[n + 1] /\ (IsCode(prefix, output) <=> n = d)
  BY <1>1, <1>2 DEF Decoding, Traced, Follows
<1>4. ToCome(bytes, n + 1)'
  BY <1>1, <1>2 DEF ToCome
<1>5. n + 1 \in 1 .. Len(bytes) + 1
  BY <1>2
<1>6. HeardUpTo(n + 1, d)'
  <2>1. CASE n # d
    <3>1. Delivered(prefix, output) = <<>>
      BY <1>3, <2>1 DEF Delivered
    <3>2. heard' = heard
      BY <1>1, <3>1 DEF Decoding, HeardUpTo
    <3>3. (n <= d => n + 1 <= d) /\ (d < n => d < n + 1)
      BY <1>2, <2>1
    <3>4. UNCHANGED <<heard, stroke, listeners>>
      BY <1>1, <3>2
    <3>5. HeardUpTo(n, d)
      BY DEF Decoding
    <3>6. QED
      BY <3>3, <3>4, <3>5 DEF HeardUpTo
  <2>2. CASE n = d
    <3>1. KindOf(output) = stroke.kind /\ NameOf(prefix, output) = Named[stroke.key]
      BY <1>2, <2>2 DEF Decoding, Traced, Means
    <3>2. heard = <<>>
      BY <1>2, <2>2 DEF Decoding, HeardUpTo
    <3>3. CASE listeners.ps2[stroke.kind] = nullptr
      <4>1. Delivered(prefix, output) = <<>>
        BY <3>1, <3>3 DEF Delivered
      <4>2. heard' = <<>>
        BY <1>1, <3>2, <4>1
      <4>3. stroke'.listener = nullptr
        BY <1>1, <3>3 DEF Listened
      <4>4. QED
        BY <4>2, <4>3 DEF HeardUpTo
    <3>4. CASE listeners.ps2[stroke.kind] # nullptr
      <4>1. Delivered(prefix, output) = << <<listeners.ps2[stroke.kind], Named[stroke.key]>> >>
        BY <1>3, <2>2, <3>1, <3>4 DEF Delivered
      <4>2. heard' = << <<listeners.ps2[stroke.kind], Named[stroke.key]>> >>
        BY <1>1, <3>2, <4>1
      <4>3. d # 0 /\ d < n + 1
        BY <1>2, <2>2
      <4>4. UNCHANGED <<stroke, listeners>>
        BY <1>1
      <4>5. QED
        BY <3>4, <4>2, <4>3, <4>4 DEF HeardUpTo
    <3>5. QED
      BY <3>3, <3>4
  <2>3. QED
    BY <2>1, <2>2
<1>7. QED
  BY <1>1, <1>3, <1>4, <1>5, <1>6 DEF Decoding

LEMMA StrokeData ==
  ASSUME StrokeInv, on_ke_data
  PROVE  StrokeInv'
<1>1. /\ heard' = heard \o Delivered(prefix, output)
      /\ prefix' = PrefixAfter(prefix, output) /\ output' = Empty
      /\ UNCHANGED <<wire, stroke, listeners>>
  BY DEF on_ke_data
<1>2. prefix \in Prefixes /\ prefix' \in Prefixes /\ ListenersTyped /\ ListenersTyped'
  BY <1>1, PrefixStep DEF StrokeInv, ListenersTyped
<1>3. Listened => Listened'
  BY <1>1 DEF Listened
<1>4. ASSUME output = Empty, NEW bytes, NEW tr, NEW d, NEW n, Decoding(bytes, tr, d, n)
      PROVE  Decoding(bytes, tr, d, n)'
  <2>1. ~IsCode(prefix, output)
    <3>1. Empty \notin MakeCodes \cup BreakCodes
      BY DEF Empty, MakeCodes, BreakCodes, MAKE_SCAN_CODES_START, MAKE_SCAN_CODES_END, BREAK
    <3>2. QED
      BY <1>4, <3>1 DEF IsCode
  <2>2. prefix' = prefix
    <3>1. /\ prefix'.second <=> prefix.second
          /\ prefix'.third <=> prefix.third
      BY <1>1, <1>2, <1>4, <2>1, PrefixStep DEF Empty
    <3>2. QED
      BY <1>2, <3>1, PrefixFields
  <2>3. heard' = heard
    <3>1. Delivered(prefix, output) = <<>>
      BY <2>1 DEF Delivered
    <3>2. QED
      BY <1>1, <1>4, <3>1 DEF Decoding, HeardUpTo
  <2>4. QED
    BY <1>1, <1>4, <2>2, <2>3 DEF Decoding, ToCome, HeardUpTo
<1>5. ASSUME NEW bytes, NEW tr, NEW d, NEW n, Listened, Decoding(bytes, tr, d, n)
      PROVE  \E m : Decoding(bytes, tr, d, m)'
  <2>1. CASE output = Empty
    BY <1>4, <1>5, <2>1
  <2>2. CASE output # Empty
    BY <1>2, <1>5, <2>2, StrokeByte
  <2>3. QED
    BY <2>1, <2>2
<1>6. ASSUME stroke.key # NoKey, stroke.clean
      PROVE  \E tr, d, n : Decoding(Codes[stroke.key][stroke.kind], tr, d, n)'
  <2>1. PICK tr, d, n : Decoding(Codes[stroke.key][stroke.kind], tr, d, n)
    BY <1>6 DEF StrokeInv
  <2>2. Listened
    BY <1>6 DEF StrokeInv
  <2>3. \E m : Decoding(Codes[stroke.key][stroke.kind], tr, d, m)'
    <3>1. ASSUME NEW bytes, bytes = Codes[stroke.key][stroke.kind]
          PROVE  \E m : Decoding(bytes, tr, d, m)'
      BY <1>5, <2>1, <2>2, <3>1
    <3>2. UNCHANGED stroke
      BY <1>1
    <3>3. QED
      BY <3>1, <3>2
  <2>4. QED
    BY <2>3
<1>7. QED
  BY <1>1, <1>2, <1>3, <1>6 DEF StrokeInv

LEMMA StrokeNext ==
  ASSUME StrokeInv, [Next]_vars
  PROVE  StrokeInv'
<1>1. CASE kernel_main
  <2>1. UNCHANGED keyboard
    BY <1>1 DEF kernel_main, setup_interrupts, setup_exceptions_handlers,
       DriversManager_initialize, setup_pic, sti, configure_pit, setup_clock,
       Time_initialize, setup_storage, Sleeping, setup_keyboard
  <2>2. QED
    BY <2>1, StrokeUntouched
<1>2. CASE Handling
  BY <1>2, StrokeData, StrokeUntouched DEF Handling, CallOnTick, CallOnKeData, CallNothing
<1>3. CASE Listen
  BY <1>3, StrokeListen
<1>4. CASE ClockRequests
  BY <1>4, StrokeUntouched DEF ClockRequests
<1>5. CASE KeyboardSends
  BY <1>5, StrokeSend DEF KeyboardSends
<1>6. CASE Strikes
  BY <1>6, StrokeStrike DEF Strikes
<1>7. CASE UNCHANGED vars
  BY <1>7, StrokeUntouched DEF vars
<1>8. QED
  BY <1>1, <1>2, <1>3, <1>4, <1>5, <1>6, <1>7 DEF Next

\* A stroke is heard once, under the name of its key and by the listener for its
\* kind, or not at all when its key is to be skipped, whichever keys of the scan
\* code set the keyboard has, wherever interrupts and the setting of listeners
\* fall between its bytes; and its prefix is forgotten but where it is stated.
THEOREM StrokesAreHeardAsTyped == Spec => []HeardAsTyped
BY StrokeInit, StrokeNext, StrokeHeard, PTL DEF Spec
=============================================================================
