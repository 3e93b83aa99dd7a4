----------------------------- MODULE MC_Storage -----------------------------
(***************************************************************************)
(* Two storage controllers with the drivers that use them, each on a bench *)
(* of its own: the SCSI host adapter with a disk and a CD-ROM drive, and   *)
(* the floppy controller.                                                  *)
(*                                                                         *)
(* The floppy bench has a writable disk of two cylinders with two sides of *)
(* two sectors of 256 bytes, and a read-only one of the same geometry      *)
(* whose file is too short for its last sector.  The guest is one that     *)
(* writes what it likes, a driver that uses DMA and interrupts, or one     *)
(* that polls.                                                             *)
(***************************************************************************)
EXTENDS BusLogic, FloppySystem, TLC

On(op, target, at, n) ==
    [ NoCommand EXCEPT !.target = target, !.len = n, !.auto = TRUE,
                       !.cdb = [ op |-> op, at |-> at, n |-> n ] ]

MCTargets == 0 :> Target("disk", <<"a", "b">>, FALSE)
          @@ 1 :> Target("cdrom", <<"c">>, FALSE)

Job(block, bytes) == [ block |-> block, data |-> bytes ]

\* Two writes and two reads that overlap, one of them past the end
Overlap  == Job(On("write", 0, 0, 2), <<"w", "x">>)
Jobs == { Overlap, Job(On("write", 0, 1, 1), <<"w">>),
          Job(On("read", 0, 0, 2), <<>>), Job(On("read", 0, 1, 2), <<>>) }

\* A write, a command the disk does not know and a target that is not there
OddJobs == { Job(On("write", 0, 0, 1), <<"x">>), Job(On("other", 0, 0, 0), <<>>),
             Job(On("read", 3, 0, 1), <<>>) }

Asking  == << <<"out", INQUIRY>>, <<"in">>, <<"in">>, <<"in">>, <<"in">>, <<"done">> >>
Quietly == << <<"out", EMBOI>>, <<"out", 1>> >>

DriverWith(some, mostJobs, mostCommands, mostResets, search) ==
    [ scripts |-> {}, codes |-> {}, ccbs |-> {}, blocks |-> {}, forges |-> FALSE,
      jobs |-> some, commands |-> {Asking, Quietly}, robin |-> search, maxJobs |-> mostJobs,
      maxCommands |-> mostCommands, maxResets |-> mostResets ]

FreeBlocks == { [ On("write", 0, 1, 2) EXCEPT !.opcode = "scsi_res" ],
                [ On("sense", 1, 0, 1) EXCEPT !.ctrl = 3 ],
                On("read", 1, 0, 1), On("inquiry", 0, 0, 1),
                [ On("tur", 0, 0, 0) EXCEPT !.opcode = "reset" ],
                [ On("tur", 0, 0, 0) EXCEPT !.opcode = "invalid" ] }

SetUp == << MBINIT, Boxes, 0, 0, 0 >>

FreeGuestWith(scripts, blocks, codes, forges, mostJobs, mostResets) ==
    [ scripts |-> scripts, codes |-> codes, ccbs |-> 1 .. mostJobs, blocks |-> blocks,
      forges |-> forges, jobs |-> {}, commands |-> {}, robin |-> 1,
      maxJobs |-> mostJobs, maxCommands |-> 2, maxResets |-> mostResets ]

BiosWrite == << BIOSCMD, 1, 0, 0, 0, 0, 0, 0, 0, 0, 0 >>

\* Drivers: overlapping requests with a reset, and with commands between
\* them, and odd requests found by looking only at the next box.  Free
\* guests: every kind of block, aborts, and every kind of command.
MCGuests ==
    { DriverWith(Jobs, 2, 0, 1, 1), DriverWith({ Overlap }, 2, 1, 1, 1),
      DriverWith(OddJobs, 3, 0, 0, 0),
      FreeGuestWith({ SetUp \o <<START>> }, FreeBlocks, {"start"}, FALSE, 1, 1),
      FreeGuestWith({ SetUp \o <<START>> }, { On("read", 1, 0, 1) }, {"start", "abort"},
                    FALSE, 2, 0),
      FreeGuestWith({ SetUp, << RESET >>, << SETIRQ, 0 >>, << EMBOI, 2 >>,
                      << OPTIONS, 1, 0 >>, << ROBIN, 0 >>, << NOP, START >>, BiosWrite },
                    { On("write", 0, 0, 1) }, {"start"}, TRUE, 1, 1) }

MCDiscs == { <<>>, <<"d">> }

MCBios == << [ target |-> 0, op |-> "write", at |-> 0, n |-> 1, data |-> <<"b">> ] >>
-----------------------------------------------------------------------------
(* The floppy bench                                                        *)

Disk(id, mark, size, readOnly) ==
    [ id |-> id, mark |-> mark, size |-> size, readOnly |-> readOnly, bpbOk |-> TRUE,
      total |-> 8, sectors |-> 2, sides |-> 2, code |-> 1 ]

Good  == Disk("good", 0, 16, FALSE)
Short == Disk("short", 100, 15, TRUE)

MCImages == { Good, Short }

Rw1(code, cyl, h, r, eot) == << code, 4 * h, cyl, h, r, 1, eot, 27, 255 >>

\* Commands of the free guests: transfers that start with a seek and cross
\* the heads, and all the others.
FloppyTransfers ==
    { Rw1(CmdReadData + MultiTrack, 1, 0, 2, 2),
      Rw1(CmdWriteData + MultiTrack, 1, 0, 2, 2),
      << CmdFormat, 4, 1, 2, 27, 99 >>, << CmdSpecify, 160, 3 >> }

FloppyOthers ==
    { << CmdSeek, 0, 1 >>, << CmdRecalibrate, 1 >>, << CmdSense >>,
      << CmdSpecify, 160, 3 >>,
      << CmdReadId, 0 >>, << CmdSenseDrive, 4 >>, << 31 >> }

FloppyJob(op, at, n) == [ op |-> op, at |-> at, n |-> n ]

FreeFloppyGuest ==
    [ scripts |-> FloppyTransfers, jobs |-> {}, pio |-> FALSE, images |-> {Good},
      maxJobs |-> 2, maxChanges |-> 0, maxTimeouts |-> 0 ]

\* The host changes the disk around one transfer, and under one that seeks.
HastyGuest   == [ FreeFloppyGuest EXCEPT !.maxJobs = 1, !.maxChanges = 1 ]
SeekingGuest == [ HastyGuest EXCEPT !.maxJobs = 2, !.scripts = FloppyOthers ]

\* Requests that cross the heads or the cylinders; one that ends in the
\* sector that Short lacks.
DmaGuest ==
    [ SeekingGuest EXCEPT
        !.scripts = {}, !.images = MCImages, !.maxJobs = 2, !.maxTimeouts = 1,
        !.jobs = { FloppyJob("read", 3, 2), FloppyJob("write", 5, 2) } ]

PollingGuest ==
    [ DmaGuest EXCEPT
        !.pio = TRUE, !.jobs = { FloppyJob("read", 6, 2), FloppyJob("write", 4, 2) } ]

MCFloppyGuests ==
    { FreeFloppyGuest, HastyGuest, SeekingGuest, DmaGuest, PollingGuest }

VARIABLE bench  \* "scsi" or "floppy": the other stays as it was switched on

InScsi   == bench = "scsi" /\ UNCHANGED <<bench, floppyVars>>
InFloppy == bench = "floppy" /\ UNCHANGED <<bench, vars>>

\* The guest that an unused bench starts with makes no difference.
MCInit ==
    /\ bench \in {"scsi", "floppy"} /\ Init /\ FloppyInit
    /\ bench = "scsi" => floppyGuest = SeekingGuest
    /\ bench = "floppy" => guest = DriverWith(OddJobs, 3, 0, 0, 0)

MCNext == (InScsi /\ Next) \/ (InFloppy /\ FloppyNext)

all == <<bench, vars, floppyVars>>

\* Free guests ask for nothing that could end.
Timed == bench = "floppy" /\ ~FreeFloppy

\* The main loop calls the timers that are due, and the drivers go on with
\* what they have begun (see FloppySystem for the form of its fairness).
MCSpec ==
    /\ MCInit /\ [][MCNext]_all
    /\ WF_all(InScsi /\ Step) /\ WF_all(InScsi /\ Handler)
    /\ WF_all(InScsi /\ MailTimerFires) /\ WF_all(InScsi /\ ResetTimerFires)
    /\ \/ []<>(~Timed \/ ~CanStep)
       \/ []<><<Timed /\ InFloppy /\ DriverStep>>_all
    /\ \/ []<>(~Timed \/ ~Running)
       \/ []<><<Timed /\ InFloppy /\ TimerFires>>_all

-----------------------------------------------------------------------------

\* Registers stay in range, positions within mailboxes, buffers and media.
StorageTypeOK == TypeOK /\ FloppyTypeOK

\* A floppy request that ends well moved exactly its sectors, of the disk now
\* in the drive; only WRITE and FORMAT change an image, on their track.
FloppyExact == DataExact /\ OnlyWritesWrite

\* Once a driver asks for nothing more, all it asked of buslogic.c or fdc.c
\* has been answered.
RequestsEnd ==
    <>[](IF bench = "scsi" THEN used = {} /\ todo = <<>>
         ELSE job = NoJob \/ result # "none")
=============================================================================
