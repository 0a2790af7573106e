-------------------------------- MODULE Pci ---------------------------------
(***************************************************************************)
(* The PCI driver, src/drivers_manager/drivers/pci: the address of a       *)
(* configuration register, the scan of the buses, and the fields of a      *)
(* function.  A configuration space maps a function <<bus, device, number>>*)
(* to the fields the kernel reads; what no function answers reads as all   *)
(* ones, and a device that does not decode the function number answers     *)
(* with its function 0.                                                    *)
(***************************************************************************)
EXTENDS Integers, Sequences

CONSTANTS
    Buses, Devices, Functions    \* how many there are of each

\* No more than an address has bits for.
ASSUME CountsAssumption ==
    Buses \in 1 .. 256 /\ Devices \in 1 .. 32 /\ Functions \in 1 .. 8

PCI_VENDOR_ID_DEVICE_DOES_NOT_EXIST == "all ones"

PCIDevice == (0 .. Buses - 1) \X (0 .. Devices - 1) \X (0 .. Functions - 1)

\* The order of the three loops: bus, then device, then function.
Turns == Buses * Devices * Functions
Nth(i) == << (i \div Functions) \div Devices, (i \div Functions) % Devices, i % Functions >>

\* The value written to the address port, without the enable bit that is the same
\* in all of them: 8 bits of bus, 5 of device, 3 of function and 8 of offset.
generate_pci_config_address(d, offset) ==
    d[1] * 65536 + d[2] * 2048 + d[3] * 256 + offset

\* The host bridge finds the function in the address again.
Addressed(address) ==
    << address \div 65536, (address \div 2048) % 32, (address \div 256) % 8 >>

pci_config_read_32_bits(config, d) == config[Addressed(generate_pci_config_address(d, 0))]

pci_config_write_32_bits(config, d, fields) ==
    [config EXCEPT ![Addressed(generate_pci_config_address(d, 0))] = fields]

device_exists(config, d) ==
    pci_config_read_32_bits(config, d).vendor # PCI_VENDOR_ID_DEVICE_DOES_NOT_EXIST

has_multiple_functions(config, d) == pci_config_read_32_bits(config, d).multi

\* Mutant: every function number of a device is asked for.
Reported_AllFunctions(config, d) ==
    device_exists(config, <<d[1], d[2], 0>>) /\ device_exists(config, d)

\* add_device is called for a device whose function 0 exists.
Reported(config, d) ==
    LET first == <<d[1], d[2], 0>>
    IN  /\ device_exists(config, first)
        /\ d = first \/ has_multiple_functions(config, first)
        /\ device_exists(config, d)

\* PCIDriver::devices after each turn of the loops.
scanned(config) ==
    LET list[n \in 0 .. Turns] ==
          IF n = 0 THEN <<>>
          ELSE IF Reported(config, Nth(n - 1)) THEN Append(list[n - 1], Nth(n - 1))
                                               ELSE list[n - 1]
    IN  list

enumerate_devices(config) == scanned(config)[Turns]

\* The class codes and the mode bits of one bundle of fields.
get_class(config, d) ==
    LET f == pci_config_read_32_bits(config, d) IN <<f.class, f.subclass>>
get_prog_if(config, d) == pci_config_read_32_bits(config, d).prog_if
set_prog_if(config, d, prog_if) ==
    pci_config_write_32_bits(config, d,
      [pci_config_read_32_bits(config, d) EXCEPT !.prog_if = prog_if])

=============================================================================
