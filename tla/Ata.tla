--------------------------------- MODULE Ata ----------------------------------
(***************************************************************************)
(* An ATA channel with the drives on it. First the ATAPI CD-ROM drive,     *)
(* then the channel and the hard disk.                                     *)
(*                                                                         *)
(* The ATAPI CD-ROM drive (disk/atapi_cdrom.c): the disc, the tray and the *)
(* unit attention that tells the guest of a change of disc, as operators   *)
(* on the drive.  A packet is <<opcode, argument>>; of the responses only  *)
(* what tells discs and sense keys apart is kept.                          *)
(***************************************************************************)
EXTENDS Integers, Sequences

CONSTANTS
  Discs,      \* the images the host may insert, as bytes
  BlockBytes, \* bytes of a block of a disc (2048)
  Blocks      \* blocks of a disc

ASSUME CdromAssumption ==
    /\ Discs \subseteq 1 .. 255
    /\ BlockBytes \in Nat \ {0} /\ Blocks \in Nat

NoDisc == 0

Tur       == 0    \* TEST UNIT READY
Sense     == 3    \* REQUEST SENSE
Inquiry   == 18
StartStop == 27   \* argument: bit 0 start, bit 1 load or eject
Removal   == 30   \* PREVENT REMOVAL: argument 0 or 1
Read      == 40   \* READ (10) of block 0: argument is the number of blocks
Config    == 70   \* GET CONFIGURATION
EventStat == 74   \* GET EVENT STATUS
ModeSense == 90

NoSense        == 0
NotReady       == 2
IllegalRequest == 5
UnitAttention  == 6

CdromState ==
    [ media : Discs \cup {NoDisc}, path : Discs \cup {NoDisc}, tray : {0, 1},
      ua : 0 .. 2, sense : {NoSense, NotReady, IllegalRequest, UnitAttention},
      prevent : {0, 1} ]

-----------------------------------------------------------------------------

\* Mutant of CdAttach: an attention that is under way is not renewed.
CdAttachQuiet(cd, disc) ==
    [ cd EXCEPT !.media = disc, !.path = disc, !.tray = 0,
                !.ua = IF @ = 0 THEN 1 ELSE @, !.sense = NoSense ]

\* atapi_cdrom_attach, of an image or of none
CdAttach(cd, disc) ==
    [ cd EXCEPT !.media = disc, !.path = disc, !.tray = 0, !.ua = 1,
                !.sense = NoSense ]

\* The path stays, so that the guest can load the disc again.
CdEject(cd) ==
    [ cd EXCEPT !.media = NoDisc, !.tray = 1, !.ua = 1, !.sense = NoSense ]

CdReset(cd) == [ cd EXCEPT !.sense = NoSense, !.prevent = 0 ]

\* atapi_cdrom_init, then attached
CdAtStart(disc) ==
    [ media |-> disc, path |-> disc, tray |-> 0, ua |-> 1, sense |-> NoSense,
      prevent |-> 0 ]

NeedsMedia       == {Tur, Read}
AllowsAttention  == {Sense, Inquiry, Config, EventStat}

-----------------------------------------------------------------------------
(* Results of atapi_cdrom_command                                          *)

Ok(cd)         == [ cd |-> cd, result |-> "ok", data |-> <<>> ]
Error(cd, key) == [ cd |-> [ cd EXCEPT !.sense = key ], result |-> "error",
                    data |-> <<>> ]
DataIn(cd, d)  == [ cd |-> cd, result |-> "data", data |-> d ]

Repeat(byte, n) == [ i \in 1 .. n |-> byte ]

\* atapi_cdrom_prepare_request_sense
ReportSense(cd) ==
    LET key == IF cd.sense = NoSense /\ cd.ua # 0 THEN UnitAttention ELSE cd.sense
    IN  DataIn([ cd EXCEPT !.sense = NoSense,
                           !.ua = IF key = UnitAttention THEN 0 ELSE @ ],
               Repeat(key, 2))

\* atapi_cdrom_prepare_read
ReadBlocks(cd, n) ==
    IF n > Blocks THEN Error(cd, IllegalRequest)
    ELSE IF n = 0 THEN Ok(cd)
    ELSE DataIn(cd, Repeat(cd.media, n * BlockBytes))

Load(cd) ==
    IF cd.path = NoDisc THEN Error(cd, NotReady) ELSE Ok(CdAttach(cd, cd.path))

StartStopUnit(cd, arg) ==
    CASE arg = 3 -> Load(cd)
      [] arg = 2 -> IF cd.prevent = 1 THEN Error(cd, IllegalRequest)
                    ELSE Ok(CdEject(cd))
      [] arg = 1 -> IF cd.tray = 1 THEN Load(cd) ELSE Ok(cd)
      [] OTHER   -> Ok(cd)

\* The switch of atapi_cdrom_command
Perform(cd, op, arg) ==
    CASE op = Tur       -> Ok(cd)
      [] op = Sense     -> ReportSense(cd)
      [] op = Read      -> ReadBlocks(cd, arg)
      [] op = StartStop -> StartStopUnit(cd, arg % 4)
      [] op = Removal   -> Ok([ cd EXCEPT !.prevent = arg % 2 ])
      [] op \in {Inquiry, Config, EventStat, ModeSense} -> DataIn(cd, Repeat(0, 2))
      [] OTHER          -> Error(cd, IllegalRequest)

\* An attention without a disc is dropped.
Present(cd) ==
    IF cd.media = NoDisc THEN [ cd EXCEPT !.ua = 0 ] ELSE cd

\* Once announced, any command withdraws the attention, so that a guest that
\* never asks for the sense makes progress.
Attended(cd, op) ==
    IF op = Sense THEN cd
    ELSE [ cd EXCEPT !.sense = NoSense, !.ua = IF @ = 2 THEN 0 ELSE @ ]

\* atapi_cdrom_command
CdCommand(cd, op, arg) ==
    LET p == Present(cd)
        a == Attended(p, op)
    IN  IF p.ua = 1 /\ op \notin AllowsAttention
        THEN Error([ p EXCEPT !.ua = 2 ], UnitAttention)
        ELSE IF a.media = NoDisc /\ op \in NeedsMedia THEN Error(a, NotReady)
        ELSE Perform(a, op, arg)

-----------------------------------------------------------------------------
(***************************************************************************)
(* An ATA channel with its two drives (disk/ata.c), as operators on its    *)
(* state c; c.slot[1] is the master.                                       *)
(*                                                                         *)
(* irr is the request that the channel has latched in the 8259; pending is *)
(* what the channel believes of it.  A drive's buffer holds buffer_len     *)
(* bytes; pos, chunk and chunkPos are the positions in it.  The service    *)
(* bit of the status and registers that nothing reads are left out.        *)
(***************************************************************************)

CONSTANTS
  SectorBytes,  \* bytes of a sector (512)
  CdbBytes,     \* bytes of a packet (12)
  LastLba       \* what a sector number wraps to below zero (2^32 - 1)

ASSUME AtaAssumption ==
    /\ SectorBytes \in Nat \ {0} /\ CdbBytes \in Nat /\ CdbBytes >= 2
    /\ LastLba \in Nat

Slots == 1 .. 2

CmdDeviceReset   == 8      \* 08
CmdRecalibrate   == 16     \* 10
CmdRead          == 32     \* 20
CmdWrite         == 48     \* 30
CmdDiagnostic    == 144    \* 90
CmdInitParams    == 145    \* 91
CmdPacket        == 160    \* A0
CmdIdentifyPkt   == 161    \* A1
CmdIdle          == 225    \* E1, and others that do nothing
CmdIdentify      == 236    \* EC

AbortBit == 4

Cur(c)          == c.slot[c.select + 1]
Put(c, s)       == [ c EXCEPT !.slot[c.select + 1] = s ]
High(lba)       == (lba \div 16777216) % 16
Mid(lba)        == (lba \div 256) % 65536

\* Mutant of ClearTransfer: the position in the buffer stays.
ClearTransferKeeps(s) ==
    [ s EXCEPT !.xfer = "none", !.buf = <<>>, !.chunk = 0, !.chunkPos = 0,
               !.limit = 0 ]

ClearTransfer(s) ==
    [ s EXCEPT !.xfer = "none", !.buf = <<>>, !.pos = 0, !.chunk = 0,
               !.chunkPos = 0, !.limit = 0 ]

-----------------------------------------------------------------------------
(* The interrupt request                                                   *)

LowerIrq(c) ==
    [ c EXCEPT !.irr = IF c.pending = 1 THEN 0 ELSE @, !.pending = 0 ]

\* ata_irq and ata_delayed_irq
Irq(c) ==
    IF c.inreset = 1 \/ c.intOn = 0 THEN c
    ELSE [ c EXCEPT !.irr = 1, !.pending = 1 ]

-----------------------------------------------------------------------------
(* Resets                                                                  *)

Signature(s) ==
    [ s EXCEPT !.sectors = 1,
               !.lba = High(@) * 16777216 + 1
                         + IF s.type = "cdrom" THEN 15405056 ELSE 0 ]  \* EB1400

\* ata_reset_drive
ResetDrive(s) ==
    LET r == [ ClearTransfer(s) EXCEPT
                 !.override = "none", !.abortDue = 0, !.command = 0,
                 !.lbamode = 0, !.cur = 0, !.target = 0, !.sect = 1, !.head = 0,
                 !.cyl = 0, !.dma = 0, !.lba = 0, !.sectors = 1,
                 !.cdb = Repeat(0, CdbBytes) ]
    IN  CASE s.type = "none"  -> [ r EXCEPT !.error = 0 ]
          [] s.type = "hdd"   -> [ Signature(r) EXCEPT !.error = 1 ]
          [] s.type = "cdrom" ->
               [ Signature(r) EXCEPT !.error = 1, !.cdrom = CdReset(@) ]

\* ata_complete_reset: a CD-ROM shows status zero until its next command.
CompleteReset(c) ==
    LET Fresh(s) == IF s.type = "cdrom"
                    THEN [ ResetDrive(s) EXCEPT !.override = "zero" ]
                    ELSE ResetDrive(s)
    IN  LowerIrq([ c EXCEPT !.inreset = 0, !.select = 0,
                            !.slot = [ i \in Slots |-> Fresh(@[i]) ] ])

\* ata_begin_controller_reset
BeginReset(c) ==
    LowerIrq([ c EXCEPT !.inreset = 1, !.cmdTimer = 0, !.resetTimer = 1,
                        !.slot = [ i \in Slots |->
                                     [ ClearTransfer(@[i]) EXCEPT
                                         !.override = "none", !.abortDue = 0 ] ] ])

\* ata_reset_cb
ResetDone(c) == CompleteReset([ c EXCEPT !.resetTimer = 0 ])

SetInterrupts(c, on) ==
    IF on = 1 THEN [ c EXCEPT !.intOn = 1 ] ELSE LowerIrq([ c EXCEPT !.intOn = 0 ])

\* ata_warm_reset: pending is forgotten before the request is lowered.
WarmReset(c) ==
    CompleteReset([ c EXCEPT !.resetTimer = 0, !.cmdTimer = 0, !.srst = 0,
                             !.inreset = 0, !.pending = 0, !.intOn = 1 ])

\* The device control register: SRST and nIEN
WriteControl(c, srst, nien) ==
    LET i == [ SetInterrupts(c, 1 - nien) EXCEPT !.srst = srst ]
    IN  IF c.srst = 0 /\ srst = 1
        THEN LowerIrq([ i EXCEPT !.inreset = 1,
                                 !.slot = [ n \in Slots |-> ClearTransfer(@[n]) ] ])
        ELSE IF c.srst = 1 /\ srst = 0 THEN [ i EXCEPT !.resetTimer = 1 ]
        ELSE i

-----------------------------------------------------------------------------
(* Status                                                                  *)

\* ata_gen_status, the bits that drivers wait for
Status(c) ==
    LET s == Cur(c)
        plain == c.inreset = 0 /\ s.override = "none"
    IN  [ bsy |-> c.inreset = 1 \/ s.override = "busy",
          drq |-> plain /\ s.xfer # "none",
          err |-> plain /\ s.error # 0 ]

\* ata_slot_accepts_taskfile_write
Accepts(c, s) ==
    /\ c.inreset = 0
    /\ \/ s.override = "zero"
       \/ s.override = "none" /\ s.xfer = "none"

\* Mutant of Abort: no interrupt.
AbortQuiet(c, i, key) ==
    [ c EXCEPT !.slot[i] = [ ClearTransfer(@) EXCEPT !.error = AbortBit + 16 * key ] ]

\* ata_abort_command for drive i
Abort(c, i, key) ==
    LET s == c.slot[i]
        packet == s.type = "cdrom"
                  /\ (s.command = CmdPacket \/ s.xfer \in {"packet", "dataIn"})
    IN  Irq([ c EXCEPT !.slot[i] =
                [ ClearTransfer(s) EXCEPT
                    !.error = AbortBit + 16 * key,
                    !.sectors = IF packet THEN 3 ELSE @ ] ])

\* ata_command_cb: the drives' aborts that were delayed, each selecting its
\* drive.
AbortDelayed(c, i) ==
    LET s == Signature([ c.slot[i] EXCEPT !.abortDue = 0, !.override = "none" ])
    IN  IF c.slot[i].abortDue = 0 THEN c
        ELSE Abort([ c EXCEPT !.select = i - 1, !.slot[i] = s ], i, 0)

CommandDone(c) == AbortDelayed(AbortDelayed([ c EXCEPT !.cmdTimer = 0 ], 1), 2)

-----------------------------------------------------------------------------
(* Hard disk                                                               *)

\* disk maps the sectors that were written; the others of its size are zero.
SectorAt(s, at) ==
    IF at \in DOMAIN s.disk THEN s.disk[at] ELSE Repeat(0, SectorBytes)

Stored(s, at) ==
    [ s EXCEPT !.size = IF at >= @ THEN at + 1 ELSE @,
               !.disk = [ n \in DOMAIN @ \cup {at} |->
                            IF n = at THEN s.buf ELSE @[n] ] ]

\* ata_slot_full_lba or ata_hdd_chs_to_lba
Address(s) ==
    IF s.lbamode = 1 THEN s.lba
    ELSE LET at == (s.cyl * s.heads + s.head) * s.spt + s.sect - 1
         IN  IF at < 0 THEN LastLba ELSE at

\* In CHS mode the registers show the sector just done; cyl, head and sect
\* go on to the next.
Advance(s) ==
    IF s.lbamode = 1 THEN [ s EXCEPT !.lba = (@ + 1) % 268435456 ]
    ELSE LET last == s.sect + 1 > s.spt
             turn == last /\ s.head + 1 = s.heads
             low  == ((s.lba % 256) \div 64) * 64 + s.sect
         IN  [ s EXCEPT
                 !.lba  = (s.head % 16) * 16777216 + (s.cyl % 65536) * 256
                             + (low % 256),
                 !.sect = IF last THEN 1 ELSE @ + 1,
                 !.head = IF turn THEN 0 ELSE IF last THEN @ + 1 ELSE @,
                 !.cyl  = IF turn THEN @ + 1 ELSE @ ]

\* ata_prepare_pio_in
PioIn(s, bytes) ==
    [ s EXCEPT !.xfer = "read", !.buf = bytes, !.pos = 0,
               !.chunk = Len(bytes), !.chunkPos = 0 ]

\* Mutant of ReadSector: in CHS mode the next sector is the same.
ReadSectorStays(c) ==
    LET s == Cur(c)
    IN  IF Address(s) >= s.size THEN Abort(c, c.select + 1, 0)
        ELSE Irq(Put(c, [ (IF s.lbamode = 1 THEN Advance(s) ELSE s) EXCEPT
                            !.xfer = "read", !.buf = SectorAt(s, Address(s)),
                            !.pos = 0, !.cur = @ + 1, !.error = 0 ]))

\* ata_hdd_read_sector
ReadSector(c) ==
    LET s == Cur(c)
    IN  IF Address(s) >= s.size THEN Abort(c, c.select + 1, 0)
        ELSE Irq(Put(c, [ Advance(PioIn(s, SectorAt(s, Address(s)))) EXCEPT
                            !.cur = @ + 1, !.error = 0 ]))

\* ata_hdd_write_sector; the host may fail to write.
WriteSector(c, hostOk) ==
    LET s == Cur(c)
    IN  IF ~hostOk THEN Abort(c, c.select + 1, 0)
        ELSE Irq(Put(c, [ Advance(Stored(s, Address(s))) EXCEPT
                            !.pos = 0, !.chunk = SectorBytes, !.chunkPos = 0,
                            !.cur = @ + 1, !.error = 0 ]))

\* The start of a read or write: the count, zero for 256, and in CHS mode
\* the position.
Positioned(s) ==
    LET t == [ s EXCEPT !.error = 0, !.cur = 0,
                        !.target = IF s.sectors = 0 THEN 256 ELSE s.sectors ]
    IN  IF s.lbamode = 1 THEN t
        ELSE [ t EXCEPT !.cyl = Mid(s.lba), !.head = High(s.lba),
                        !.sect = s.lba % 64 ]

\* The buffer keeps whatever was in it, here zeros.
BeginWrite(s) ==
    [ Positioned(s) EXCEPT !.xfer = "write", !.buf = Repeat(0, SectorBytes),
                           !.pos = 0, !.chunk = SectorBytes, !.chunkPos = 0 ]

-----------------------------------------------------------------------------
(* Packets                                                                 *)

\* ata_atapi_complete
Complete(c) ==
    Irq(Put(c, [ ClearTransfer(Cur(c)) EXCEPT !.sectors = 3, !.error = 0 ]))

\* ata_atapi_begin_data_in: the registers take 16 bits of the chunk.
BeginDataIn(c) ==
    LET s == Cur(c)
        left  == Len(s.buf) - s.pos
        chunk == IF s.limit = 0 \/ s.limit > left THEN left ELSE s.limit
        lba   == s.lba - Mid(s.lba) * 256 + (chunk % 65536) * 256
    IN  IF left = 0 THEN Complete(c)
        ELSE Irq(Put(c, [ s EXCEPT !.xfer = "dataIn", !.chunk = chunk,
                                   !.chunkPos = 0, !.sectors = 2, !.lba = lba,
                                   !.error = 0 ]))

\* ata_atapi_execute_packet
ExecutePacket(c) ==
    LET s == Cur(c)
        r == CdCommand(s.cdrom, s.cdb[1], s.cdb[2])
        t == [ s EXCEPT !.cdrom = r.cd, !.buf = r.data, !.pos = 0,
                        !.chunk = 0, !.chunkPos = 0 ]
    IN  CASE r.result = "error" -> Abort(Put(c, t), c.select + 1, r.cd.sense)
          [] r.result = "data"  -> BeginDataIn(Put(c, t))
          [] r.result = "ok"    -> Complete(Put(c, t))

-----------------------------------------------------------------------------
(* The command register                                                    *)

IdentifyBytes == Repeat(0, SectorBytes)

\* Effect of command v on a drive that was prepared for it (see Command).
Dispatch(c, v) ==
    LET s == Cur(c)
        n == c.select + 1
        hdd == s.type = "hdd"
        cd  == s.type = "cdrom"
    IN  CASE v = CmdIdentify /\ hdd ->
               Irq(Put(c, [ PioIn(s, IdentifyBytes) EXCEPT !.cur = 1, !.target = 1 ]))
          [] v = CmdIdentify /\ cd ->
               [ Put(c, [ s EXCEPT !.abortDue = 1, !.override = "busy" ])
                 EXCEPT !.cmdTimer = 1 ]
          [] v = CmdIdentifyPkt /\ cd -> Irq(Put(c, PioIn(s, IdentifyBytes)))
          [] v = CmdPacket /\ cd /\ s.dma = 0 ->
               Put(c, [ s EXCEPT !.xfer = "packet", !.sectors = 1,
                                 !.cdb = Repeat(0, CdbBytes),
                                 !.limit = IF Mid(s.lba) = 0 THEN 65536
                                           ELSE Mid(s.lba) ])
          [] v = CmdDiagnostic -> BeginReset(c)
          [] v = CmdDeviceReset /\ cd ->
               Irq(Put(c, [ ResetDrive(s) EXCEPT !.override = "zero" ]))
          [] v = CmdInitParams /\ hdd ->
               Irq(Put(c, [ s EXCEPT !.spt = s.sectors % 64,
                                     !.heads = High(s.lba) + 1 ]))
          [] v = CmdIdle /\ s.type # "none" -> Irq(c)
          [] v = CmdRecalibrate /\ hdd -> Irq(c)
          [] v = CmdRead /\ hdd -> ReadSector(Put(c, Positioned(s)))
          [] v = CmdWrite /\ hdd -> Put(c, BeginWrite(s))
          [] OTHER -> Abort(c, n, 0)

\* ata_command_process.  Nothing looks at BSY: a delayed abort stays due.
Command(c, v) ==
    Dispatch(Put(c, [ ClearTransfer(Cur(c)) EXCEPT
                        !.error = 0, !.override = "none", !.command = v ]), v)

-----------------------------------------------------------------------------
(* The data register, byte by byte                                         *)

Readable(s) == s.xfer # "none" /\ s.pos < Len(s.buf)

\* What follows a byte read: the next sector or chunk, or the end.
AfterByte(c) ==
    LET s == Cur(c)
    IN  CASE s.xfer = "read" /\ s.pos >= Len(s.buf) ->
               IF s.cur >= s.target THEN Put(c, ClearTransfer(s)) ELSE ReadSector(c)
          [] s.xfer = "dataIn" /\ s.chunkPos + 1 >= s.chunk ->
               IF s.pos >= Len(s.buf) THEN Complete(c) ELSE BeginDataIn(c)
          [] s.xfer = "dataIn" /\ s.chunkPos + 1 < s.chunk ->
               Put(c, [ s EXCEPT !.chunkPos = @ + 1 ])
          [] OTHER -> c

\* ata_data_read_byte; a read in another phase moves the position as well.
DataByte(c) == IF Readable(Cur(c)) THEN Cur(c).buf[Cur(c).pos + 1] ELSE 0

ReadByte(c) ==
    IF ~Readable(Cur(c)) THEN c
    ELSE AfterByte(Put(c, [ Cur(c) EXCEPT !.pos = @ + 1 ]))

\* Two bytes; each is evaluated once.
ReadWord(c) == CHOOSE e \in { ReadByte(d) : d \in {ReadByte(c)} } : TRUE
DataWord(c) == << DataByte(c), DataByte(ReadByte(c)) >>

AfterWrite(c) ==
    LET s == Cur(c)
    IN  IF s.cur >= s.target THEN Put(c, ClearTransfer(s)) ELSE c

\* ata_data_write_byte
WriteByte(c, v, hostOk) ==
    LET s == Cur(c)
        t == IF s.xfer = "write" THEN [ s EXCEPT !.buf[s.pos + 1] = v, !.pos = @ + 1 ]
             ELSE [ s EXCEPT !.cdb[s.pos + 1] = v, !.pos = @ + 1 ]
    IN  CASE s.xfer = "write" /\ s.pos < Len(s.buf) ->
               IF t.pos = Len(s.buf) THEN AfterWrite(WriteSector(Put(c, t), hostOk))
               ELSE Put(c, t)
          [] s.xfer = "packet" /\ s.pos < CdbBytes ->
               IF t.pos = CdbBytes THEN ExecutePacket(Put(c, t)) ELSE Put(c, t)
          [] OTHER -> c

WriteWord(c, w, hostOk) ==
    CHOOSE e \in { WriteByte(d, w[2], hostOk) : d \in {WriteByte(c, w[1], hostOk)} } : TRUE

-----------------------------------------------------------------------------
(* The other registers                                                     *)

ReadStatus(c) == LowerIrq(c)

\* Task file registers of the selected drive, once it accepts them
WriteTaskFile(c, sectors, lba) ==
    IF ~Accepts(c, Cur(c)) THEN c
    ELSE Put(c, [ Cur(c) EXCEPT !.sectors = sectors,
                    !.lba = High(@) * 16777216 + (lba % 16777216) ])

WriteFeatures(c, dma) ==
    IF ~Accepts(c, Cur(c)) THEN c ELSE Put(c, [ Cur(c) EXCEPT !.dma = dma ])

WriteDrive(c, drive, lbamode, head) ==
    LET d == [ c EXCEPT !.select = drive ]
    IN  IF ~Accepts(d, Cur(d)) THEN d
        ELSE Put(d, [ Cur(d) EXCEPT !.lbamode = lbamode,
                        !.lba = head * 16777216 + (@ % 16777216) ])

-----------------------------------------------------------------------------
(* The host                                                                *)

\* Mutant of Prepared: the last packet goes on.
PreparedKeeps(c, i) ==
    LowerIrq([ c EXCEPT !.slot[i].override = "none", !.slot[i].abortDue = 0 ])

\* ata_prepare_cdrom_media_change: what was in flight is dropped.
Prepared(c, i) ==
    LowerIrq([ c EXCEPT !.slot[i] =
                 [ ClearTransfer(@) EXCEPT
                     !.error = 0, !.override = "none", !.abortDue = 0,
                     !.command = 0, !.cdb = Repeat(0, CdbBytes) ] ])

\* ata_change_cdrom; opened says whether the image can be opened.
ChangeDisc(c, i, disc, opened) ==
    LET p == Prepared(c, i)
    IN  IF opened THEN [ p EXCEPT !.slot[i].cdrom = CdAttach(@, disc) ] ELSE p

EjectDisc(c, i) ==
    [ Prepared(c, i) EXCEPT !.slot[i].cdrom = CdEject(@) ]

\* Drives as ata_attach_hdd and ata_attach_cdrom leave them
AttachedDrive(type, size, disc) ==
    ResetDrive(
      [ type |-> type, xfer |-> "none", buf |-> <<>>, pos |-> 0, chunk |-> 0,
        chunkPos |-> 0, limit |-> 0, override |-> "none", abortDue |-> 0,
        error |-> 0, command |-> 0, lbamode |-> 0, cur |-> 0, target |-> 0,
        sect |-> 1, head |-> 0, cyl |-> 0, dma |-> 0, lba |-> 0, sectors |-> 1,
        cdb |-> Repeat(0, CdbBytes), spt |-> 63, heads |-> 16, size |-> size,
        disk |-> <<>>, cdrom |-> CdAtStart(disc) ])

\* ata_init_controller
ChannelAtStart(master, slave) ==
    [ select |-> 0, inreset |-> 0, srst |-> 0, intOn |-> 1, pending |-> 0,
      irr |-> 0, resetTimer |-> 0, cmdTimer |-> 0, slot |-> <<master, slave>> ]
=============================================================================
