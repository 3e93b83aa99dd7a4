------------------------------ MODULE AtaPorts ------------------------------
(***************************************************************************)
(* An ATA channel with a hard disk as master and a CD-ROM drive as slave,  *)
(* under a guest that accesses its ports in any order, the host's changes  *)
(* of disc, the timers, and warm resets of the machine.                    *)
(***************************************************************************)
EXTENDS Ata

CONSTANTS
  DiskSectors,  \* size of the disk at the start
  FirstDisc,    \* disc in the drive at the start
  Guests        \* the guests: what each writes to the registers before a
                \* command (files), the commands it gives, the words it
                \* writes to the data port, the bound on its commands and
                \* writes of the control register, and the bound on host
                \* actions and warm resets

Flag == {0, 1}

ASSUME PortsAssumption ==
    /\ DiskSectors \in Nat /\ FirstDisc \in Discs \cup {NoDisc}
    /\ \A g \in Guests :
          /\ g.files \subseteq [ sectors : 0 .. 255, lba : Nat, lbamode : Flag,
                                dma : Flag ]
          /\ g.words \subseteq (0 .. 255) \X (0 .. 255)
          /\ g.commands \subseteq 0 .. 255

Hdd == 1
Cd  == 2

VARIABLES
  guest,     \* the guest of this behaviour
  c,         \* the channel
  told,      \* has the guest been told of the disc that is in the drive?
  stray,     \* has it read the data port while it was to write?
  orphan,    \* is there a request in the 8259 from before a warm reset?
  commands, hosts  \* counts for the bounds

vars == << guest, c, told, stray, orphan, commands, hosts >>

Init ==
    /\ guest \in Guests
    /\ c = ChannelAtStart(AttachedDrive("hdd", DiskSectors, NoDisc),
                          AttachedDrive("cdrom", 0, FirstDisc))
    /\ told = FALSE /\ stray = FALSE /\ orphan = FALSE
    /\ commands = 0 /\ hosts = 0

Become(d) ==
    /\ c' = d
    /\ orphan' = (orphan /\ d.irr = 1 /\ d.pending = 0)

-----------------------------------------------------------------------------
(* The guest                                                               *)

ReadData ==
    /\ Readable(Cur(c))
    /\ \E d \in {ReadByte(c), ReadWord(c)} : Become(d)
    /\ stray' = (stray \/ Cur(c).xfer = "write")
    /\ UNCHANGED << guest, told, commands, hosts >>

\* What the answer to a packet tells of the disc
Announces(s) ==
    \/ s.error \div 16 \in {NotReady, UnitAttention}
    \/ /\ s.xfer = "dataIn" /\ s.cdb[1] = Sense
       /\ s.buf[1] \in {NotReady, UnitAttention}

WriteData ==
    /\ Cur(c).xfer \in {"write", "packet"}
    /\ \E w \in guest.words, hostOk \in BOOLEAN : Become(WriteWord(c, w, hostOk))
    /\ told' = /\ c'.slot[Cd].cdrom.media = c.slot[Cd].cdrom.media
               /\ told \/ (Cur(c).xfer = "packet" /\ Announces(c'.slot[Cd]))
    /\ UNCHANGED << guest, stray, commands, hosts >>

\* The guest selects a drive and writes its registers; no step in between
\* can matter, as each write goes to the drive alone.
SetUp ==
    /\ \E drive \in {0, 1}, t \in guest.files :
          LET d == WriteDrive(c, drive, t.lbamode, 0)
          IN  Become(WriteFeatures(WriteTaskFile(d, t.sectors, t.lba), t.dma))
    /\ UNCHANGED << guest, told, stray, commands, hosts >>

GiveCommand ==
    /\ commands < guest.maxCommands /\ commands' = commands + 1
    /\ \E v \in guest.commands : Become(Command(c, v))
    /\ stray' = (stray /\ c.select + 1 # Hdd)
    /\ UNCHANGED << guest, told, hosts >>

Control ==
    /\ commands < guest.maxCommands /\ commands' = commands + 1
    /\ \E srst, nien \in {0, 1} : Become(WriteControl(c, srst, nien))
    /\ UNCHANGED << guest, told, stray, hosts >>

StatusRead ==
    /\ Become(ReadStatus(c))
    /\ UNCHANGED << guest, told, stray, commands, hosts >>

\* The CPU takes the interrupt: the 8259 clears the request.
Acknowledge ==
    /\ c.irr = 1
    /\ Become([ c EXCEPT !.irr = 0 ])
    /\ UNCHANGED << guest, told, stray, commands, hosts >>

-----------------------------------------------------------------------------
(* Timers, and the host                                                    *)

TimerFires ==
    /\ \/ c.resetTimer = 1 /\ Become(ResetDone(c))
       \/ c.cmdTimer = 1   /\ Become(CommandDone(c))
    /\ UNCHANGED << guest, told, stray, commands, hosts >>

HostDisc ==
    /\ hosts < guest.maxHost /\ hosts' = hosts + 1
    /\ \/ \E disc \in Discs \cup {NoDisc}, opened \in BOOLEAN :
              /\ Become(ChangeDisc(c, Cd, disc, opened))
              /\ told' = (told /\ ~opened)
       \/ Become(EjectDisc(c, Cd)) /\ told' = FALSE
    /\ UNCHANGED << guest, stray, commands >>

\* machine_platform_reset; it leaves the 8259s alone.
Warm ==
    /\ hosts < guest.maxHost /\ hosts' = hosts + 1
    /\ c' = WarmReset(c)
    /\ orphan' = (c.irr = 1)
    /\ UNCHANGED << guest, told, stray, commands >>

Next == \/ ReadData \/ WriteData \/ SetUp \/ GiveCommand \/ Control
        \/ StatusRead \/ Acknowledge \/ TimerFires \/ HostDisc \/ Warm

Spec == Init /\ [][Next]_vars

-----------------------------------------------------------------------------
(* Properties                                                              *)

\* The numbers of 28 bits
Lba == { n \in Nat : n < 268435456 }

\* The fields of the channel and of its drives stay in their ranges.
TypeOK ==
    /\ { c.select, c.inreset, c.srst, c.intOn, c.pending, c.irr, c.resetTimer,
         c.cmdTimer } \subseteq Flag
    /\ \A i \in Slots :
          /\ c.slot[i].cdrom \in CdromState
          /\ c.slot[i].override \in {"none", "zero", "busy"}
          /\ c.slot[i].pos <= Len(c.slot[i].buf) \/ c.slot[i].xfer = "packet"
          /\ c.slot[i].error \in 0 .. 255 /\ c.slot[i].sectors \in 0 .. 255
          /\ c.slot[i].lba \in Lba
          /\ Len(c.slot[i].cdb) = CdbBytes

\* While a reset is under way or the guest has disabled the interrupt, the
\* channel asks for none, and a request it made can always be withdrawn by
\* a read of the status; only one from before a warm reset is forgotten.
QuietWhenOff ==
    /\ c.pending = 1 => c.intOn = 1 /\ c.inreset = 0
    /\ c.irr = 1 => c.pending = 1 \/ orphan

\* BSY is shown only while something will end it: a reset that the guest
\* holds or whose timer runs, or a delayed abort whose timer runs.
BusyEnds ==
    /\ c.inreset = 1 => c.srst = 1 \/ c.resetTimer = 1
    /\ \A i \in Slots : c.slot[i].override = "busy" =>
          c.inreset = 1 \/ (c.cmdTimer = 1 /\ c.slot[i].abortDue = 1)

\* A drive that asks for data makes progress with each access: what is left
\* of the chunk lies in the buffer and is not empty, and no more sectors
\* than ordered are under way.
DrqMovesOn ==
    \A i \in Slots :
       LET s == c.slot[i]
       IN  CASE s.xfer = "none"   -> TRUE
             [] s.xfer = "read"   -> s.pos < Len(s.buf) /\ s.cur <= s.target
             [] s.xfer = "write"  -> (stray \/ s.pos < Len(s.buf)) /\ s.cur < s.target
             [] s.xfer = "packet" -> s.pos < CdbBytes
             [] s.xfer = "dataIn" ->
                  s.chunkPos < s.chunk /\ s.pos + s.chunk - s.chunkPos <= Len(s.buf)

\* Neither BSY nor DRQ, whichever the guest polls, holds it for ever.
NeverStuck == BusyEnds /\ DrqMovesOn

\* The channel's fields keep their ranges; no guest leaves it with a transfer
\* stuck or overrun, a BSY that nothing ends, or a request that cannot be
\* withdrawn (ata_irq, ata_write_port, ata_command_cb).
PortsSound == TypeOK /\ NeverStuck /\ QuietWhenOff

\* No block of a disc reaches a guest that has not been told, by an error
\* or by its request for the sense, that the disc changed.
NoSilentSwap ==
    LET s == c.slot[Cd]
    IN  s.xfer = "dataIn" /\ s.cdb[1] = Read => told

\* While a failed packet shows in the error register, the drive holds the
\* sense key that goes with it.
SenseAgrees ==
    LET s == c.slot[Cd]
    IN  s.error \div 16 # 0 => s.cdrom.sense = s.error \div 16

\* A warm reset leaves a channel that asks for nothing (ata.c:414).
FreshAfterWarmReset == [][Warm => c'.irr = 0]_vars
=============================================================================
