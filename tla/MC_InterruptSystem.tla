------------------------- MODULE MC_InterruptSystem -------------------------
(***************************************************************************)
(* A line on the master competing with the cascade and two lines on the    *)
(* slave, under a guest that initialises, masks, ends and acknowledges in  *)
(* any order, traps, halts and faults; and, for the rollback of a halted   *)
(* instruction, one line and a guest without controller writes.            *)
(***************************************************************************)
EXTENDS InterruptSystem

MCDeviceLines == { <<"master", 0>>, <<"slave", 0>>, <<"slave", 3>> }

MCProgram ==
    [ op : {"cli", "sti", "other", "hlt", "fault"} ]
    \cup [ op : {"flags"}, ifl : {TRUE}, tf : BOOLEAN ]
    \cup { [op |-> "icw1", chip |-> "master", sngl |-> 0, ic4 |-> 1],
           [op |-> "icw1", chip |-> "slave", sngl |-> 0, ic4 |-> 0] }
    \cup [ op : {"port1"}, chip : {"master"}, offset : {8}, mask : {{}, {0}, {Cascade}} ]
    \cup [ op : {"port1"}, chip : {"slave"}, offset : {112}, mask : {{}, {0}, {3}} ]
    \cup Eoi
    \cup [ op : {"eoiN"}, chip : {"master"}, line : {Cascade} ]
    \cup [ op : {"eoiN"}, chip : {"slave"}, line : {0, 3} ]

MCCpuLines   == { <<"master", 0>> }
MCCpuProgram == Simple \cup Flags
=============================================================================
