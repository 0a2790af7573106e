----------------------------- MODULE Interrupts -----------------------------
(***************************************************************************)
(* How an interrupt request becomes a call of a handler: the two PICs      *)
(* (external, driven by src/drivers_manager/drivers/pic), the gates of the *)
(* IDT (src/kernel/interrupts/idt.cpp), the stubs of isr_manager.asm and   *)
(* general_isr_handler with its table isrs.  A request that is raised      *)
(* while it is pending is lost; one that is raised while its handler runs  *)
(* is not.                                                                 *)
(***************************************************************************)
EXTENDS Integers, Sequences

CONSTANT Lines   \* the request lines in use

ASSUME LinesAssumption == Lines \subseteq 0 .. 15

None == "none"

IRQ_START == 32
IRQ_END == 47
Exceptions == 0 .. 18      \* those that setup_exceptions_handlers handles

VARIABLES
    IF_flag,      \* the processor's interrupt flag
    idt,          \* vector -> the kind of its gate, once the IDT is installed
    base,         \* PIC -> the vector of its first line
    irr,          \* the lines with a pending request
    in_service,   \* PIC -> its lines in service
    isrs,         \* vector -> the handler registered for it
    frames        \* the interrupts being handled, the innermost first

cpu == <<IF_flag, frames>>
pic == <<base, irr, in_service>>
tables == <<idt, isrs>>
interrupts == <<cpu, pic, tables>>

Master == 0
Slave == 1
Cascade == 2               \* the master's line the slave is wired to

Vectors == Exceptions \cup {IRQ_START + l : l \in Lines}

-----------------------------------------------------------------------------
(* The PICs *)

PicOf(line) == IF line >= 8 THEN Slave ELSE Master
AtMaster(line) == IF line >= 8 THEN Cascade ELSE line

Raise(line) == irr' = irr \cup {line}

\* Fully nested mode: only a line of higher priority interrupts one in service.
Deliverable(line) ==
    /\ line \in irr
    /\ \A l \in in_service[Master] : AtMaster(line) < l
    /\ line >= 8 => \A l \in in_service[Slave] : line < l

Acknowledged(line) ==
    [p \in {Master, Slave} |->
       in_service[p] \cup (IF p = Master THEN {AtMaster(line)} ELSE {})
                     \cup (IF p = Slave /\ line >= 8 THEN {line} ELSE {})]

\* setup_driver_and_device: ICW2 moves the lines to vectors 32 to 47; a PIC that
\* is initialised forgets its requests and what is in service.
MASTER_INTERRUPTS_OFFSET == 32
SLAVE_INTERRUPTS_OFFSET == 40

Remap ==
    /\ base' = [p \in {Master, Slave} |->
                 IF p = Master THEN MASTER_INTERRUPTS_OFFSET ELSE SLAVE_INTERRUPTS_OFFSET]
    /\ irr' = {} /\ in_service' = [p \in {Master, Slave} |-> {}]

\* A non-specific end of interrupt is for the line with the highest priority.
Ended(lines) == {l \in lines : \E k \in lines : k < l}

send_end_of_interrupt(irq) ==
    in_service' = [in_service EXCEPT
                     ![Slave] = IF irq >= 8 THEN Ended(@) ELSE @,
                     ![Master] = Ended(@)]

-----------------------------------------------------------------------------
(* The IDT and the stubs *)

\* Mutant: flag bits 1111 make it a trap gate, which leaves interrupts enabled.
put_descriptor_Trap == "trap"

\* put_descriptor ors the flags with 1110, an interrupt gate.
put_descriptor == "interrupt"

put_descriptors == [v \in Vectors |-> put_descriptor]

\* The operand of "push byte" is sign-extended: right up to vector 127.
PushedNumber(v) == IF v < 128 THEN v ELSE v - 256

set_isr(interrupt_number, handler) ==
    isrs' = [isrs EXCEPT ![interrupt_number] = handler]

\* The processor enters the stub of the vector through its gate; the stub's own
\* "cli" comes with the gate's effect, before another interrupt can be taken.
Enter ==
    /\ IF_flag
    /\ \E line \in Lines :
         /\ Deliverable(line)
         /\ irr' = irr \ {line}
         /\ in_service' = Acknowledged(line)
         /\ LET v == base[PicOf(line)] + (line % 8)
            IN  /\ frames' = <<[number |-> PushedNumber(v), at |-> "eoi"]>> \o frames
                /\ IF_flag' = (idt[v] = "trap")
    /\ UNCHANGED <<base, tables>>

Top == Head(frames)

\* Mutant: the first request line is left out.
SendEoi_NotTheFirst ==
    /\ frames # <<>> /\ Top.at = "eoi"
    /\ IF Top.number > IRQ_START /\ Top.number <= IRQ_END
       THEN send_end_of_interrupt(Top.number - IRQ_START)
       ELSE UNCHANGED in_service
    /\ frames' = [frames EXCEPT ![1].at = "call"]
    /\ UNCHANGED <<IF_flag, base, irr, tables>>

\* general_isr_handler: first the end of interrupt ...
SendEoi ==
    /\ frames # <<>> /\ Top.at = "eoi"
    /\ IF Top.number \in IRQ_START .. IRQ_END
       THEN send_end_of_interrupt(Top.number - IRQ_START)
       ELSE UNCHANGED in_service
    /\ frames' = [frames EXCEPT ![1].at = "call"]
    /\ UNCHANGED <<IF_flag, base, irr, tables>>

\* ... then the handler, if there is one, ...
Calls(handler) ==
    /\ frames # <<>> /\ Top.at = "call"
    /\ isrs[Top.number] = handler
    /\ frames' = [frames EXCEPT ![1].at = "iret"]
    /\ UNCHANGED <<IF_flag, pic, tables>>

\* ... and back to where interrupts were enabled.
Iret ==
    /\ frames # <<>> /\ Top.at = "iret"
    /\ frames' = Tail(frames)
    /\ IF_flag' = TRUE
    /\ UNCHANGED <<pic, tables>>

InterruptsInit ==
    /\ IF_flag = FALSE /\ frames = <<>>
    /\ idt = [v \in Vectors |-> None]
    /\ isrs = [v \in Vectors |-> None]
    /\ base = [p \in {Master, Slave} |-> IF p = Master THEN 8 ELSE 112]
    /\ irr = {} /\ in_service = [p \in {Master, Slave} |-> {}]
=============================================================================
