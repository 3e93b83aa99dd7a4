------------------------------- MODULE MC_Ata -------------------------------
(***************************************************************************)
(* An ATA channel with a disk and a CD-ROM drive on two benches: under a   *)
(* guest that accesses its ports in any order ("ports"), and under one     *)
(* that keeps to the protocol ("driver").                                  *)
(***************************************************************************)
EXTENDS AtaPorts

File(sectors, lba, lbamode) ==
    [ sectors |-> sectors, lba |-> lba, lbamode |-> lbamode, dma |-> 0 ]

\* Transfers: two sectors, the second of them the last of the disk in CHS
\* mode or beyond it in LBA mode; packets with chunks of 3 bytes.
Transfers ==
    [ files       |-> { File(2, 1, 0), File(2, 3 * 256 + 1, 1) },
      commands    |-> { CmdRead, CmdWrite, CmdPacket, CmdIdentifyPkt, CmdInitParams },
      words       |-> { <<Tur, 0>>, <<Read, 2>> },
      maxCommands |-> 2,
      maxHost     |-> 1 ]

\* The other packets, and the sense they leave.
Packets == [ Transfers EXCEPT
               !.commands = { CmdPacket, CmdIdentifyPkt, CmdRead },
               !.words = { <<Tur, 0>>, <<Sense, 0>>, <<StartStop, 2>>, <<Read, 2>> } ]

\* Resets, and what they meet: delayed aborts and transfers
Resets ==
    [ files       |-> { File(1, 1, 0) },
      commands    |-> { CmdIdentify, CmdDiagnostic, CmdDeviceReset, CmdRead },
      words       |-> { <<Tur, 0>> },
      maxCommands |-> 5,
      maxHost     |-> 2 ]

MCGuests  == { Transfers, Packets, Resets }
-----------------------------------------------------------------------------
(* The driver's bench: another disk, discs and geometry.                   *)

MCTracks == [ spt |-> 2, heads |-> 2 ]

On(op, at, n, lbamode) ==
    [ op |-> op, at |-> at, n |-> n, lbamode |-> lbamode, mark |-> 10 * at ]

\* In CHS mode across the end of a track and of a cylinder (sectors 1 and
\* 3 are the last of theirs), and beyond the end of the disk.
DiskJobs == { On("write", 1, 2, 0), On("write", 3, 2, 1), On("read", 0, 3, 1),
              On("read", 1, 4, 0), On("read", 4, 2, 0) }
DiscJobs == { On("disc", 0, 2, 0), On("disc", 0, 1, 0) }
Others   == { On("probe", 0, 1, 0), On("reset", 0, 1, 0) }

\* A disc is changed under the polling driver only: a change withdraws the
\* request of the channel, so that a driver that waits for the interrupt
\* of a transfer to either drive waits forever.
MCDrivers ==
    { [ jobs |-> DiskJobs \cup Others, polled |-> FALSE, maxChanges |-> 0 ],
      [ jobs |-> DiscJobs \cup Others \cup { On("read", 0, 2, 1) },
        polled |-> TRUE, maxChanges |-> 2 ] }

VARIABLES
  bench,  \* "ports" or "driver": the other stays as it was switched on
  mode, channel, job, phase, sent, want, got, result, torn, jobs, changes

D == INSTANCE AtaDriver WITH
       c <- channel, Discs <- {1, 2}, BlockBytes <- 4, SectorBytes <- 4,
       DiskSize <- 5, Tracks <- MCTracks, Limit <- 6, Drivers <- MCDrivers,
       MaxJobs <- 3

ASSUME D!DriverAssumption

driver == <<mode, channel, job, phase, sent, want, got, result, torn, jobs, changes>>

InPorts  == bench = "ports" /\ UNCHANGED <<bench, driver>>
InDriver == bench = "driver" /\ UNCHANGED <<bench, vars>>

\* The guest and the mode that an unused bench starts with make no difference.
MCInit ==
    /\ bench \in {"ports", "driver"} /\ Init /\ D!Init
    /\ bench = "ports" => mode.polled
    /\ bench = "driver" => guest = Resets

MCNext == (InPorts /\ Next) \/ (InDriver /\ D!Next)

\* The guest goes on, and timing_loop ends the delays.
Goes == InDriver /\ D!GuestStep
Ends == InDriver /\ D!TimerFires
all  == <<bench, vars, driver>>

MCSpec == MCInit /\ [][MCNext]_all /\ WF_all(Goes) /\ WF_all(Ends)

-----------------------------------------------------------------------------

\* Every request of the careful guest ends, with data, an error or no disc,
\* and a complete read holds the disc that is in the drive.
RequestsEndRight ==
    /\ bench = "driver" /\ phase # "idle" ~> phase = "idle"
    /\ []D!CurrentDisc

\* Multi-sector reads and writes, in LBA and CHS mode, are those of the block
\* device (BlockDevice).
ImplementsBlockDevice == D!ImplementsBlockDevice
=============================================================================
