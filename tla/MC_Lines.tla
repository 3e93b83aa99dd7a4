------------------------------ MODULE MC_Lines ------------------------------
(***************************************************************************)
(* Two ways of device lines to the 8259s, each on a bench of its own: the  *)
(* PCI pins, and the UARTs of the super I/O chip.                          *)
(*                                                                         *)
(* Three PCI sources share two pins: the GD5440 and a second slot have pin *)
(* 1, the third has pin 2 from its own interrupt pin.  The guest routes    *)
(* them to an IRQ of the master, to one of the slave (writing a byte with  *)
(* stray bits), to the cascade input, or nowhere.  Two UARTs may be put on *)
(* the same IRQ; one byte value is enough, what travels does not matter.   *)
(***************************************************************************)
EXTENDS PciInterrupts, UartInterrupts

CONSTANTS com1, com2

MCGd      == <<12, 1>>
MCSources == { MCGd, <<9, 2>>, <<7, 2>> }
MCSwizzle == [ s \in MCSources |-> CASE s = MCGd    -> 1
                                     [] s = <<9, 2>> -> 1
                                     [] s = <<7, 2>> -> 0 ]
MCPirqs   == { 2, 5, 27, 128 }

MCProgram == [ op : {"icw1"}, chip : Chip, sngl : {1}, ic4 : {0} ]
             \cup [ op : {"eoi"}, chip : Chip ]

MCEnables   == { {}, {"rx", "tx"} }
UartProgram == { i \in MCProgram : i.chip = "master" /\ i.op = "eoi" }

ASSUME UartAssumption

VARIABLE bench  \* "pci" or "uart": the other stays as it was switched on

MCInit ==
    /\ bench \in { "pci", "uart" } /\ Init /\ UartInit
    /\ bench = "pci" => uart[com1].irq = 4 /\ uart[com2].irq = 3

MCNext ==
    \/ bench = "pci" /\ Next /\ UNCHANGED <<bench, serial>>
    \/ bench = "uart" /\ UartNext /\ UNCHANGED <<bench, vars>>

MCSpec == MCInit /\ [][MCNext]_<<bench, vars, serial>>
=============================================================================
