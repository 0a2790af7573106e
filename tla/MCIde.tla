------------------------------- MODULE MCIde --------------------------------
(* Address registers of one bit: a 28-bit command reaches 16 sectors, three *)
(* registers reach 8, so that sector 8 of the 48-bit drive has a digit in   *)
(* the registers that a 28-bit command does not look at.                    *)
EXTENDS Ide

Missing == [vendor |-> PCI_VENDOR_ID_DEVICE_DOES_NOT_EXIST, multi |-> FALSE]
Mode(native, switchable) ==
    [native |-> [ch \in {Primary, Secondary} |-> ch \in native],
     switch |-> [ch \in {Primary, Secondary} |-> ch \in switchable]]
Function(class, subclass, mode, multi) ==
    [vendor |-> "some", multi |-> multi, class |-> class, subclass |-> subclass,
     prog_if |-> mode]
Bridge == Function(6, 0, Mode({}, {}), FALSE)
Controller(mode) == Function(1, 1, mode, TRUE)

\* Bus 0: a bridge that repeats its function 0, and a device whose function 1
\* is the controller; bus 1: a device with a function 0 only.
Space(mode) ==
    [d \in PCIDevice |->
       CASE d \in {<<0, 0, 0>>, <<0, 0, 1>>} -> Bridge
         [] d = <<0, 1, 0>> -> [Bridge EXCEPT !.multi = TRUE]
         [] d = <<0, 1, 1>> -> Controller(mode)
         [] d = <<1, 1, 0>> -> [Bridge EXCEPT !.multi = TRUE]
         [] OTHER -> Missing]
Real == {<<0, 0, 0>>, <<0, 1, 0>>, <<0, 1, 1>>, <<1, 1, 0>>}

NoController(mode) == [Space(mode) EXCEPT ![<<0, 1, 1>>] = Missing]

Drive28 == [ata |-> TRUE, lba |-> TRUE, lba48 |-> FALSE, sectors28 |-> 3, sectors48 |-> 0, size |-> 3]
Drive48 == [ata |-> TRUE, lba |-> TRUE, lba48 |-> TRUE, sectors28 |-> 4, sectors48 |-> 10, size |-> 10]
DriveChs == [Drive28 EXCEPT !.lba = FALSE, !.lba48 = TRUE]
CdRom == [Drive28 EXCEPT !.ata = FALSE]

Machine(space, real, attached, floats) ==
    [config |-> space, functions |-> real,
     drives |-> [p \in Positions |-> IF p \in DOMAIN attached THEN attached[p] ELSE NoDrive],
     floating |-> [ch \in {Primary, Secondary} |-> ch \in floats]]

At(p, d) == [q \in {p} |-> d]
Two(p, d, q, e) == [r \in {p, q} |-> IF r = p THEN d ELSE e]

MCMachines ==
    { Machine(Space(Mode({}, {})), Real, Two(<<0, 0>>, Drive28, <<0, 1>>, Drive48), {}),
      Machine(Space(Mode({1}, {1})), Real, Two(<<1, 0>>, CdRom, <<1, 1>>, Drive48), {}),
      Machine(Space(Mode({1}, {})), Real, At(<<0, 0>>, Drive28), {}),
      Machine(Space(Mode({0}, {0})), Real, At(<<0, 0>>, Drive28), {}),
      Machine(Space(Mode({}, {})), Real, At(<<0, 1>>, DriveChs), {}),
      Machine(Space(Mode({}, {})), Real, At(<<0, 0>>, Drive28), {1}),
      Machine(NoController(Mode({}, {})), Real \ {<<0, 1, 1>>}, At(<<0, 0>>, Drive28), {}) }
MCContents == {<<>>, <<-1>>, <<-1, -2>>}
=============================================================================
