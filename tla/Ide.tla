-------------------------------- MODULE Ide ---------------------------------
(***************************************************************************)
(* The IDE driver, src/drivers_manager/drivers/storage/ide, against the    *)
(* drives it talks to: the search for the controller on the PCI bus, the   *)
(* detection of the drives, and the reads and writes by programmed I/O.    *)
(* The two drives of a channel share its registers and only the selected   *)
(* one obeys a command; a drive works at its own pace, may fail, and needs *)
(* a moment before its status shows that it has taken a command.           *)
(***************************************************************************)
EXTENDS Pci

CONSTANTS
    BYTE,         \* values of an address register, 256
    NIBBLE,       \* values of the address bits in the drive/head register, 16
    Machines,     \* the machines to run on: [config, functions, drives, floating]
    Lbas,         \* bound: where calls start
    COUNTS,       \* values of the sector count register, 256
    Contents,     \* bound: what is written, and with its length how much is read
    Garbage       \* what the data register reads without a drive behind it

Primary == 0
Secondary == 1
Positions == {Primary, Secondary} \X {0, 1}
NoDrive == [lba |-> FALSE]
NoDevice == <<-1, -1, -1>>

\* Mass storage controller, IDE.
IdeClass == <<1, 1>>

\* What three address registers tell apart, and a 28-bit and a 48-bit address.
Reach3 == BYTE * BYTE * BYTE
Reach28 == Reach3 * NIBBLE
Reach48 == Reach3 * Reach3

ASSUME RegisterAssumption ==
    /\ {BYTE, NIBBLE, COUNTS} \subseteq Nat \ {0, 1} /\ BYTE % NIBBLE = 0
    /\ Lbas \subseteq Nat
    /\ \A buffer \in Contents :
         buffer \in Seq({buffer[i] : i \in DOMAIN buffer}) /\ Len(buffer) < COUNTS

ASSUME MachineAssumption ==
    \A m \in Machines, p \in Positions :
       m.drives[p] # NoDrive => {m.drives[p].lba, m.drives[p].lba48} \subseteq BOOLEAN

\* What answers on a bus: the functions of its devices, each of which has a function 0
\* and tells there whether it has more; if not, it may repeat it under other numbers.
ASSUME BusAssumption ==
    \A m \in Machines :
       /\ m.functions \subseteq PCIDevice
       /\ m.config = [d \in PCIDevice |-> m.config[d]]
       /\ \A d \in PCIDevice :
            LET first == <<d[1], d[2], 0>>
                answers == m.config[d].vendor # PCI_VENDOR_ID_DEVICE_DOES_NOT_EXIST
            IN  IF d \in m.functions
                THEN answers /\ first \in m.functions /\ (d = first \/ m.config[first].multi)
                ELSE answers => first \in m.functions /\ ~m.config[first].multi

VARIABLES
    machine,      \* the machine the kernel has been started on
    config,       \* the configuration space of its PCI bus
    devices,      \* PCIDriver::devices
    drives,       \* StorageDriver::drives
    pc, slot,     \* the driver's progress, and the position it looks at
    task,         \* channel -> its address, count and drive/head registers
    unit,         \* position -> what the drive is doing
    media,        \* position -> sector -> its content
    call, done,   \* the call in progress, and its sectors done with
    trouble,      \* the drive has failed in this call, or was asked too early
    hasty         \* the driver has once turned away from a drive at work

hardware == <<machine, config, devices>>
transfer == <<media, call, done, trouble, hasty>>
ideVars == <<hardware, drives, pc, slot, task, unit, transfer>>

-----------------------------------------------------------------------------
(* The registers and the drives *)

\* A register remembers the value before the last, which 48-bit commands use.
Push(r, v) == <<v, r[1]>>
WriteTwice(r, low, high) == Push(Push(r, high), low)

Selected(ch) == <<ch, task[ch].head.drive>>

IsController(d) == device_exists(config, d) /\ get_class(config, d) = IdeClass

\* A channel answers at its legacy ports only in compatibility mode.
Answers(ch) ==
    /\ ~machine.floating[ch]
    /\ \A d \in DOMAIN config :
         IsController(d) => ~get_prog_if(config, d).native[ch]

BSY == "BSY"
DRQ == "DRQ"
ERR == "ERR"
RDY == "RDY"

read_alternate_status_register(ch) ==
    LET st == unit[Selected(ch)].st
    IN  CASE ~Answers(ch)                    -> {BSY, RDY, DRQ, ERR}
          [] Answers(ch) /\ st = "absent"    -> {}
          [] Answers(ch) /\ st = "busy"      -> {BSY}
          [] Answers(ch) /\ st = "drq"       -> {RDY, DRQ}
          [] Answers(ch) /\ st = "failed"    -> {RDY, ERR}
          [] OTHER                           -> {RDY}

\* A 28-bit command takes the last values written, a 48-bit one the last two.
Address28(t) == t.lo[1] + BYTE * (t.mid[1] + BYTE * (t.hi[1] + BYTE * t.head.low))
Address48(t) ==
    t.lo[1] + BYTE * (t.mid[1] + BYTE * (t.hi[1]
      + BYTE * (t.lo[2] + BYTE * (t.mid[2] + BYTE * t.hi[2]))))

Command(name, at, count) == [st |-> "taken", name |-> name, at |-> at, left |-> count]

AtRest == [Command("none", 0, 0) EXCEPT !.st = "idle"]

\* A drive that is at work does not see a command.
Obeys(p, command) ==
    IF unit[p].st \in {"absent", "busy", "taken"} THEN unit ELSE [unit EXCEPT ![p] = command]

\* The drive raises BSY ...
TakeCommand(p) ==
    /\ unit[p].st = "taken"
    /\ unit' = [unit EXCEPT ![p].st = "busy"]
    /\ UNCHANGED <<hardware, drives, pc, slot, task, transfer>>

\* What a drive can carry out: an ATA drive identifies itself, and a sector is read
\* or written that exists.
Possible(p) ==
    CASE unit[p].left = 0 -> TRUE
      [] unit[p].left # 0 /\ unit[p].name = "identify" -> machine.drives[p].ata
      [] OTHER -> unit[p].at \in DOMAIN media[p]

\* ... and is done with a command, ready for a sector of data, ...
Work(p) ==
    /\ unit[p].st = "busy" /\ Possible(p)
    /\ unit' = [unit EXCEPT ![p] =
                IF unit[p].left = 0 THEN AtRest ELSE [unit[p] EXCEPT !.st = "drq"]]
    /\ UNCHANGED <<hardware, drives, pc, slot, task, transfer>>

\* ... or fails, like a drive that is not ATA when it is to identify itself, and at
\* the latest at a sector beyond its end.
Fail(p) ==
    /\ unit[p].st = "busy"
    /\ unit[p].name = "identify" => ~machine.drives[p].ata
    /\ unit' = [unit EXCEPT ![p] = [AtRest EXCEPT !.st = "failed"]]
    /\ trouble' = (trouble \/ call.op # "none")
    /\ UNCHANGED <<hardware, drives, pc, slot, task, media, call, done, hasty>>

\* After a sector of data the drive works on; the last one to be read ends it.
SectorDone(p) ==
    LET d == unit[p]
    IN  unit' = [unit EXCEPT ![p] =
                  IF d.left = 1 /\ d.name # "write" THEN AtRest
                  ELSE [d EXCEPT !.st = "busy", !.at = @ + 1, !.left = @ - 1]]

-----------------------------------------------------------------------------
(* The controller *)

\* The first one found, and an uninitialised device when there is none.
get_pci_ide_controller(found) ==
    LET c == SelectSeq(found, IsController) IN IF c = <<>> THEN NoDevice ELSE c[1]

\* The mask for the primary channel is 0: it always seems to be in this mode.
channel_in_compatibility_mode(c, ch) ==
    ch = Primary \/ ~get_prog_if(config, c).native[Secondary]

channel_supports_switch(c, ch) == get_prog_if(config, c).switch[ch]

channel_supports_compatibility_mode(c, ch) ==
    channel_supports_switch(c, ch) \/ channel_in_compatibility_mode(c, ch)

exist(c) ==
    /\ c # NoDevice
    /\ \A ch \in {Primary, Secondary} : channel_supports_compatibility_mode(c, ch)

\* Mutant: a channel is left in the mode it is in.
switched_Never(c) == config

\* The channels that are not in compatibility mode are switched to it.
switched(c) ==
    LET mode == get_prog_if(config, c)
        wanted == {ch \in {Primary, Secondary} : ~channel_in_compatibility_mode(c, ch)}
    IN  set_prog_if(config, c,
          [mode EXCEPT !.native = [ch \in DOMAIN @ |-> @[ch] /\ ch \notin wanted]])

Setup ==
    /\ pc = "off"
    /\ devices' = enumerate_devices(config)
    /\ LET c == get_pci_ide_controller(devices')
       IN  IF exist(c) THEN pc' = "identify" /\ config' = switched(c)
                       ELSE pc' = "none" /\ UNCHANGED config
    /\ UNCHANGED <<machine, drives, slot, task, unit, transfer>>

-----------------------------------------------------------------------------
(* detect_drives *)

channel == slot \div 2
drive == slot % 2

ide_select_drive(ch, d, lba) ==
    [task EXCEPT ![ch].head = [lba |-> lba, drive |-> d, low |-> 0]]

\* Select, wait a tick, and ask; the drives are all idle.
SendIdentify ==
    /\ pc = "identify" /\ slot < 4
    /\ task' = ide_select_drive(channel, drive, FALSE)
    /\ unit' = Obeys(<<channel, drive>>, Command("identify", 0, 1))
    /\ pc' = "exists?"
    /\ UNCHANGED <<hardware, drives, slot, transfer>>

NextSlot == slot' = slot + 1 /\ pc' = "identify"

CheckPresent ==
    /\ pc = "exists?"
    /\ IF read_alternate_status_register(channel) = {}
       THEN NextSlot
       ELSE pc' = "busy?" /\ UNCHANGED slot
    /\ UNCHANGED <<hardware, drives, task, unit, transfer>>

WaitNotBusy ==
    /\ pc = "busy?"
    /\ BSY \notin read_alternate_status_register(channel)
    /\ pc' = "ata?"
    /\ UNCHANGED <<hardware, drives, slot, task, unit, transfer>>

NotAta ==
    /\ pc = "ata?"
    /\ ERR \in read_alternate_status_register(channel)
    /\ NextSlot
    /\ UNCHANGED <<hardware, drives, task, unit, transfer>>

\* Word 83 bit 10 makes a drive one of 48 bits, if it has LBA at all.
add_drive(p, ident) ==
    LET big == ident.lba /\ ident.lba48
    IN  Append(drives, [at |-> p, lba |-> ident.lba, big |-> big,
                        sectors |-> IF big THEN ident.sectors48 ELSE ident.sectors28])

AddDrive ==
    /\ pc = "ata?"
    /\ ERR \notin read_alternate_status_register(channel)
    /\ DRQ \in read_alternate_status_register(channel)
    /\ SectorDone(<<channel, drive>>)
    /\ drives' = add_drive(<<channel, drive>>, machine.drives[<<channel, drive>>])
    /\ NextSlot
    /\ UNCHANGED <<hardware, task, transfer>>

Detected ==
    /\ pc = "identify" /\ slot = 4
    /\ pc' = "ready"
    /\ UNCHANGED <<hardware, drives, slot, task, unit, transfer>>

-----------------------------------------------------------------------------
(* read_sectors and write_sectors *)

\* The bytes of an address, the lowest first.
Digits(n) ==
    LET n1 == n \div BYTE  n2 == n1 \div BYTE  n3 == n2 \div BYTE
        n4 == n3 \div BYTE  n5 == n4 \div BYTE
    IN  << n % BYTE, n1 % BYTE, n2 % BYTE, n3 % BYTE, n4 % BYTE, n5 % BYTE >>
Digit(n, k) == Digits(n)[k + 1]

\* Mutant: the low half is written to the registers first.
fill_address_48_bits_LowFirst(t, lba) ==
    [t EXCEPT !.lo  = WriteTwice(@, Digit(lba, 3), Digit(lba, 0)),
              !.mid = WriteTwice(@, Digit(lba, 4), Digit(lba, 1)),
              !.hi  = WriteTwice(@, Digit(lba, 5), Digit(lba, 2))]

fill_address_48_bits(t, lba) ==
    [t EXCEPT !.lo  = WriteTwice(@, Digit(lba, 0), Digit(lba, 3)),
              !.mid = WriteTwice(@, Digit(lba, 1), Digit(lba, 4)),
              !.hi  = WriteTwice(@, Digit(lba, 2), Digit(lba, 5))]

fill_address_28_bits(t, lba) ==
    [t EXCEPT !.lo  = Push(@, Digit(lba, 0)),
              !.mid = Push(@, Digit(lba, 1)),
              !.hi  = Push(@, Digit(lba, 2)),
              !.head.low = Digit(lba, 3) % NIBBLE]

\* The registers of the drive's channel when the command is written.
setup_rw_48_bits(d, lba, count) ==
    LET ch == d.at[1]
        t  == ide_select_drive(ch, d.at[2], d.lba)[ch]
    IN  IF d.big
        THEN [fill_address_48_bits(t, lba) EXCEPT !.count = WriteTwice(@, count, 0)]
        ELSE [fill_address_28_bits(t, lba) EXCEPT !.count = Push(@, count)]

\* A count of 0 stands for one more than the largest.
CountOf(n, values) == IF n = 0 THEN values ELSE n
Count28(t) == CountOf(t.count[1], COUNTS)
Count48(t) == CountOf(t.count[1] + COUNTS * t.count[2], COUNTS * COUNTS)

\* A read uses the 28-bit command on every drive.
rw_command(op, d, t) ==
    IF d.big /\ op = "write" THEN Command(op, Address48(t), Count48(t))
    ELSE Command(op, Address28(t), Count28(t))

\* A call for no sectors returns at once.
CallForNothing ==
    /\ pc = "ready"
    /\ UNCHANGED ideVars

\* Nothing compares the sectors of a call with those of the drive.
Call(op, d, lba, buffer) ==
    /\ pc = "ready" /\ ~hasty
    /\ d.lba
    /\ call' = [op |-> op, drive |-> d.at, lba |-> lba,
                buffer |-> IF op = "write" THEN buffer ELSE [i \in DOMAIN buffer |-> Garbage]]
    /\ LET ch == d.at[1]
           t  == setup_rw_48_bits(d, lba, Len(buffer))
       IN  /\ task' = [task EXCEPT ![ch] = t]
           /\ unit' = Obeys(<<ch, t.head.drive>>, rw_command(op, d, t))
    /\ pc' = "wait"
    /\ UNCHANGED <<hardware, drives, slot, media, done, trouble, hasty>>

\* fill_address_chs panics: a drive without LBA cannot be used.
CallWithoutLba(d) ==
    /\ pc = "ready" /\ ~d.lba
    /\ pc' = "panic"
    /\ UNCHANGED <<hardware, drives, slot, task, unit, transfer>>

Channel == call.drive[1]

Asked(p) == hasty' = (hasty \/ unit[p].st = "taken")

\* The wait after the command ends with the next tick, however soon that is.
Sleep ==
    /\ pc = "wait"
    /\ Asked(call.drive)
    /\ trouble' = (trouble \/ hasty')
    /\ pc' = "transfer"
    /\ UNCHANGED <<hardware, drives, slot, task, unit, media, call, done>>

MayTransfer ==
    LET status == read_alternate_status_register(Channel)
    IN  DRQ \in status \/ BSY \notin status

ReadSector ==
    /\ pc = "transfer" /\ call.op = "read" /\ done < Len(call.buffer)
    /\ MayTransfer
    /\ LET p == Selected(Channel)
       IN  IF unit[p].st = "drq" /\ unit[p].name = "read"
           THEN /\ call' = [call EXCEPT !.buffer[done + 1] = media[p][unit[p].at]]
                /\ SectorDone(p)
           ELSE UNCHANGED <<call, unit>>
    /\ done' = done + 1
    /\ UNCHANGED <<hardware, drives, pc, slot, task, media, trouble, hasty>>

WriteSector ==
    /\ pc = "transfer" /\ call.op = "write" /\ done < Len(call.buffer)
    /\ MayTransfer
    /\ LET p == Selected(Channel)
       IN  IF unit[p].st = "drq" /\ unit[p].name = "write"
           THEN /\ media' = [media EXCEPT ![p][unit[p].at] = call.buffer[done + 1]]
                /\ SectorDone(p)
           ELSE UNCHANGED <<media, unit>>
    /\ done' = done + 1
    /\ UNCHANGED <<hardware, drives, pc, slot, task, call, trouble, hasty>>

Transferred == pc = "transfer" /\ done = Len(call.buffer)

Return ==
    /\ call' = [op |-> "none"] /\ pc' = "ready"
    /\ done' = 0 /\ trouble' = FALSE

ReadReturns ==
    /\ Transferred /\ call.op = "read"
    /\ Return
    /\ UNCHANGED <<hardware, drives, slot, task, unit, media, hasty>>

\* The drive may still be at work on the last sector, and then misses this.
FlushCache ==
    /\ Transferred /\ call.op = "write"
    /\ unit' = Obeys(Selected(Channel), Command("flush", 0, 0))
    /\ pc' = "flush"
    /\ UNCHANGED <<hardware, drives, slot, task, transfer>>

\* Mutant: write_sectors returns as soon as the flush is sent.
FlushDone_AtOnce == TRUE

FlushDone == BSY \notin read_alternate_status_register(Channel)

WriteReturns ==
    /\ pc = "flush"
    /\ FlushDone
    /\ Asked(Selected(Channel))
    /\ Return
    /\ UNCHANGED <<hardware, drives, slot, task, unit, media>>

-----------------------------------------------------------------------------

IdeInit ==
    /\ machine \in Machines
    /\ config = machine.config
    /\ devices = <<>> /\ drives = <<>>
    /\ pc = "off" /\ slot = 0
    /\ task = [ch \in {Primary, Secondary} |->
                [lo |-> <<0, 0>>, mid |-> <<0, 0>>, hi |-> <<0, 0>>, count |-> <<0, 0>>,
                 head |-> [lba |-> FALSE, drive |-> 0, low |-> 0]]]
    /\ unit = [p \in Positions |->
                IF machine.drives[p] = NoDrive THEN [AtRest EXCEPT !.st = "absent"] ELSE AtRest]
    /\ media = [p \in Positions |->
                 IF machine.drives[p] = NoDrive THEN <<>>
                 ELSE [s \in 0 .. machine.drives[p].size - 1 |-> s]]
    /\ call = [op |-> "none"] /\ done = 0
    /\ trouble = FALSE /\ hasty = FALSE

Driver ==
    \/ Setup
    \/ SendIdentify \/ CheckPresent \/ WaitNotBusy \/ NotAta \/ AddDrive \/ Detected
    \/ Sleep \/ ReadSector \/ ReadReturns \/ WriteSector \/ FlushCache \/ WriteReturns

Drive == \E p \in Positions : TakeCommand(p) \/ Work(p) \/ Fail(p)

\* DevFS reads no sectors behind a whole number of groups, and asks for the sector
\* behind the last one when a range ends there.
Caller ==
    \E i \in DOMAIN drives, op \in {"read", "write"}, lba \in Lbas, buffer \in Contents :
       \/ buffer = <<>> /\ CallForNothing
       \/ buffer # <<>> /\ Call(op, drives[i], lba, buffer)
       \/ buffer # <<>> /\ CallWithoutLba(drives[i])

IdeNext == Driver \/ Drive \/ Caller

\* The driver polls without end, and the drives answer in the end.
IdeSpec == IdeInit /\ [][IdeNext]_ideVars /\ WF_ideVars(Driver) /\ WF_ideVars(Drive)

-----------------------------------------------------------------------------
(* Properties *)

\* The scan finds every function of the machine once, and no function of a
\* device that only repeats its function 0.
FunctionsFoundOnce ==
    pc # "off" =>
      /\ {devices[i] : i \in DOMAIN devices} = machine.functions
      /\ \A i, j \in DOMAIN devices : devices[i] = devices[j] => i = j

\* Between two calls every drive waits for a command, so that the next one is
\* not missed, unless the status was looked at before the drive had taken one.
IdleBetweenCalls ==
    pc = "ready" /\ ~hasty => \A p \in Positions : unit[p].st \in {"absent", "idle", "failed"}

\* Whatever the two drives of a channel leave in its registers, a call reaches
\* the sectors it names, in order, on its own drive, as far as the command can name
\* them.  A read of a 48-bit drive falls short: it takes the last three digits of
\* the address.  Beyond its end a drive fails, and the call goes on without a word.
Reach(op, p) ==
    CASE machine.drives[p] = NoDrive \/ ~machine.drives[p].lba48 -> Reach28
      [] OTHER -> IF op = "write" THEN Reach48 ELSE Reach3

Starts == [op \in {"read", "write"} |-> [p \in Positions |-> [s \in Lbas |-> s % Reach(op, p)]]]

Sectors == INSTANCE Disk WITH seen <- Starts
ImplementsDisk == Sectors!Spec

\* The detection ends if both channels answer at their ports, those that the
\* driver switches included, and a call ends even if the drive fails.
Answering ==
    /\ \A ch \in {Primary, Secondary} : ~machine.floating[ch]
    /\ \A d \in DOMAIN config :
         IsController(d) => ~get_prog_if(config, d).native[Primary]

Settles ==
    /\ (pc = "off" /\ Answering) ~> pc \in {"ready", "none", "panic"}
    /\ call.op # "none" ~> call.op = "none"
=============================================================================
