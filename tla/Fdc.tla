--------------------------------- MODULE Fdc ----------------------------------
(***************************************************************************)
(* The floppy controller with its drives. First the drives and images,     *)
(* then the controller.                                                    *)
(*                                                                         *)
(* Floppy drives and images (disk/fdd.c, disk/fdd_img.c).                  *)
(*                                                                         *)
(* A byte here stands for 128 bytes of the program, the size of the        *)
(* smallest sector: sizes of images and of sectors are counted in them.    *)
(* An image is a record of Images; byte k of sector i of a file is         *)
(* mark + 4 * i + k until something is written there.                      *)
(***************************************************************************)
EXTENDS Integers, SequencesExt, Dma

CONSTANTS
  Images  \* records with id, mark, size, readOnly and what byte 0 and the
          \* BIOS parameter block say: bpbOk, total, sectors, sides, code

Drives   == 0 .. 3
MaxTrack == 86

\* Drives 0 and 1 are 3.5" high density drives, 2 and 3 are missing.
DrivePresent(d) == d \in {0, 1}

NoImage == [ id |-> "none" ]

KB(n) == 8 * n

\* The geometries that fdd_img_guess_geometry knows, by size of the image:
\* limit, sectors of a track, tracks, sides, size code.
Formats ==
    << << KB(160), 8, 40, 1, 2 >>, << KB(180), 9, 40, 1, 2 >>, << KB(315), 9, 70, 1, 2 >>,
       << KB(320), 8, 40, 2, 2 >>, << KB(360), 9, 40, 2, 2 >>, << KB(400), 10, 80, 1, 2 >>,
       << KB(640), 8, 80, 2, 2 >>, << KB(720), 9, 80, 2, 2 >>, << KB(800), 10, 80, 2, 2 >>,
       << KB(880), 11, 80, 2, 2 >>, << KB(960), 12, 80, 2, 2 >>,
       << KB(1040), 13, 80, 2, 2 >>, << KB(1120), 14, 80, 2, 2 >>,
       << KB(1200), 15, 80, 2, 2 >>, << KB(1232), 8, 77, 2, 3 >>,
       << KB(1440), 18, 80, 2, 2 >>, << KB(1520), 19, 80, 2, 2 >>,
       << KB(1600), 20, 80, 2, 2 >>, << KB(1680), 21, 80, 2, 2 >>,
       << KB(1701), 21, 81, 2, 2 >>, << KB(1722), 21, 82, 2, 2 >>,
       << KB(1760), 22, 80, 2, 2 >>, << KB(2880), 36, 80, 2, 2 >>,
       << KB(3120), 39, 80, 2, 2 >>, << KB(3200), 40, 80, 2, 2 >>,
       << KB(3280), 41, 80, 2, 2 >>, << KB(3360), 42, 80, 2, 2 >>,
       << KB(3520), 22, 80, 2, 3 >>, << KB(3526), 41, 86, 2, 2 >>,
       << KB(3612), 42, 86, 2, 2 >> >>

\* The one size between 1760 and 2880 KB with a geometry of its own
Odd == << KB(1840), 23, 80, 2, 2 >>

Divides(n, total) == total # 0 /\ n # 0 /\ total % n = 0

Trusted(m) == /\ m.bpbOk /\ m.sides \in {1, 2}
              /\ Divides(m.sectors, m.total) /\ Divides(m.sides, m.total)

AsGeometry(f) == [ sectors |-> f[2], tracks |-> f[3], sides |-> f[4], code |-> f[5] ]

NoGeometry == [ sectors |-> 0, tracks |-> 0, sides |-> 0, code |-> 0 ]

Guessed(m) ==
    LET i == SelectInSeq(Formats, LAMBDA f : m.size <= f[1])
    IN  CASE m.size = Odd[1]         -> AsGeometry(Odd)
          [] m.size # Odd[1] /\ i = 0 -> NoGeometry
          [] OTHER                    -> AsGeometry(Formats[i])

\* fdd_img_guess_geometry
Geometry(m) ==
    IF Trusted(m)
    THEN [ sectors |-> m.sectors, sides |-> m.sides, code |-> m.code,
           tracks |-> m.total \div (m.sides * m.sectors) ]
    ELSE Guessed(m)

Loadable(m) == Geometry(m).tracks # 0 /\ Geometry(m).sectors # 0

Bytes(code) == 2 ^ code

-----------------------------------------------------------------------------
(* Sectors                                                                 *)

\* fdd_img_sector_offset, as the number of the sector in the file
Index(m, chs) ==
    (chs.c * Geometry(m).sides + chs.h) * Geometry(m).sectors + chs.r - 1

Original(m, i) == [ k \in 1 .. Bytes(Geometry(m).code) |-> m.mark + 4 * i + k ]

HasSector(m, chs) ==
    LET g == Geometry(m)
    IN  /\ chs.c < g.tracks /\ chs.h < g.sides /\ chs.r \in 1 .. g.sectors
        /\ chs.n = g.code
        /\ (Index(m, chs) + 1) * Bytes(g.code) <= m.size

-----------------------------------------------------------------------------
(* Drives.  x is one of them; its image is NoImage or a member of Images.  *)

DriveAtStart == [ track |-> 0, head |-> 0, motor |-> 0, changed |-> 0, image |-> NoImage ]

Inserted(x) == x.image # NoImage

ReadOnly(x) == Inserted(x) /\ x.image.readOnly

DriveReset(x) == [ x EXCEPT !.track = 0, !.head = 0, !.motor = 0 ]

\* fdd_do_seek, for a drive that is there or not
Seek(x, present, track) ==
    LET t == IF present /\ track >= MaxTrack THEN MaxTrack - 1 ELSE track
    IN  [ x EXCEPT !.track = t, !.changed = IF t # x.track THEN 0 ELSE @ ]

\* fdd_close and fdd_load; an image that cannot be opened or used leaves
\* the drive empty.
Close(x) == [ x EXCEPT !.image = NoImage, !.changed = 1 ]

Load(x, m) == [ Close(x) EXCEPT !.image = IF Loadable(m) THEN m ELSE NoImage ]

\* The drive has read or written: it knows its disk.
Used(x) == [ x EXCEPT !.changed = 0 ]

\* What keeps a sector from being read, or written
ReadFault(x, chs) ==
    CASE ~Inserted(x)                                -> "no media"
      [] Inserted(x) /\ ~HasSector(x.image, chs)     -> "no sector"
      [] Inserted(x) /\ HasSector(x.image, chs)      -> "none"

WriteFault(x, chs) ==
    IF ReadOnly(x) THEN "write protected" ELSE ReadFault(x, chs)

\* fdd_read_address finds the sectors in order, by its own counter.
AddressFault(x, c, h) ==
    CASE ~Inserted(x) -> "no media"
      [] Inserted(x) /\ (c >= Geometry(x.image).tracks \/ h >= Geometry(x.image).sides)
                      -> "no sector"
      [] OTHER        -> "none"

AddressAt(x, c, h, i) ==
    [ c |-> c, h |-> h, r |-> (i % Geometry(x.image).sectors) + 1, n |-> Geometry(x.image).code ]

-----------------------------------------------------------------------------
(***************************************************************************)
(* The floppy disk controller (disk/fdc.c), as operators on the state c of *)
(* the controller with its drives, its DMA channel, the memory and the     *)
(* files of the images.                                                    *)
(*                                                                         *)
(* irr is the request that the controller has latched in the 8259.  The    *)
(* main status register follows from phase: it asks for a byte in the      *)
(* phases in which Asks, in the direction Sends.  What is left in the      *)
(* transfer buffer is forgotten when a command ends: only a command with   *)
(* sectors of 128 bytes and a data length of its own could look at it, and *)
(* those are not modelled.                                                 *)
(***************************************************************************)

CONSTANTS
  BufferBytes  \* size of the transfer buffer

DmaChannel == 2

CmdSpecify      == 3
CmdSenseDrive   == 4
CmdWriteData    == 5
CmdReadData     == 6
CmdRecalibrate  == 7
CmdSense        == 8
CmdWriteDeleted == 9
CmdReadId       == 10
CmdReadDeleted  == 12
CmdFormat       == 13
CmdSeek         == 15
MultiTrack      == 128

Commands == { CmdSpecify, CmdSenseDrive, CmdWriteData, CmdReadData, CmdRecalibrate, CmdSense,
              CmdWriteDeleted, CmdReadId, CmdReadDeleted, CmdFormat, CmdSeek }

\* Their parameters
Params == [ n \in Commands |->
              CASE n \in {CmdSpecify, CmdSeek} -> 2
                [] n \in {CmdSenseDrive, CmdRecalibrate, CmdReadId} -> 1
                [] n = CmdSense  -> 0
                [] n = CmdFormat -> 5
                [] OTHER -> 8 ]

Code(c) == c.command % 32

\* The main status register: RQM, DIO, and that the byte is one of a sector
Asks(c)  == c.phase # "busy"
Sends(c) == c.phase \in {"result", "pioRead"}
Moves(c) == c.phase \in {"pioRead", "pioWrite"}

\* fdc_bytes_for_size
SectorBytes(n) == IF n > 7 THEN 0 ELSE Bytes(n)

Raise(c) == [ c EXCEPT !.irr = 1 ]

EnterCommand(c) ==
    [ c EXCEPT !.command = 0, !.params = <<>>, !.len = 0, !.pos = 0, !.buf = <<>>,
               !.result = <<>>, !.phase = IF c.enabled THEN "command" ELSE "busy" ]

Result(c, bytes) == [ c EXCEPT !.result = bytes, !.phase = "result" ]

IdBytes(id) == << id.c, id.h, id.r, id.n >>

\* fdc_queue_result7
Result7(c, st0, st1) == Raise(Result(c, << st0, st1, 0 >> \o IdBytes(c.lastId)))

\* fdc_abort: nobody is told.
Abort(c) ==
    EnterCommand([ c EXCEPT !.seekTimer = 0, !.rwTimer = 0, !.op = "none",
                            !.seekPending = 0 ])

\* fdc_finish_seek_interrupt
SeekInterrupt(c, d, st0) ==
    EnterCommand(Raise([ c EXCEPT !.selected = d, !.st0 = st0, !.fintr = 1 ]))

Motor(c, d) == IF d \in c.motors THEN 1 ELSE 0

\* fdc_soft_reset
SoftReset(c) ==
    Raise(EnterCommand(
        [ c EXCEPT !.seekTimer = 0, !.rwTimer = 0, !.op = "none", !.seekPending = 0,
                   !.seekReason = "none", !.fintr = 0, !.st0 = 0, !.resetSense = 4,
                   !.selected = c.dorDrive, !.rwDrive = c.dorDrive, !.useDma = 1,
                   !.drive = [ d \in Drives |->
                                 [ DriveReset(@[d]) EXCEPT !.motor = Motor(c, d) ] ],
                   !.readId = [ d \in Drives |-> 0 ],
                   !.pcn = [ d \in Drives |-> 0 ] ]))

-----------------------------------------------------------------------------
(* The end of a command that reads or writes                               *)

\* fdc_error_rw
ErrorRw(c, fault) ==
    Result7([ c EXCEPT !.rwTimer = 0, !.op = "none",
                       !.lastId = [ c |-> c.cur.c, h |-> c.cur.h, r |-> c.cur.r, n |-> c.cur.n ] ],
            64 + c.rwDrive + 4 * c.cur.h + IF fault = "no media" THEN 8 ELSE 0,
            CASE fault = "no media"        -> 0
              [] fault = "write protected" -> 2
              [] fault = "no sector"       -> 4)

\* fdc_success_rw, and the end of READ ID and FORMAT
SuccessRw(c) ==
    Result7([ c EXCEPT !.rwTimer = 0, !.op = "none" ],
            c.rwDrive + 4 * (c.lastId.h % 2), 0)

\* fdc_advance_rw, where it goes on
NextSector(c) ==
    LET d == c.rwDrive
        track == (c.cur.c + 1) % 256
    IN  CASE c.cur.eot = 0 \/ c.cur.r < c.cur.eot ->
               [ c EXCEPT !.cur.r = (@ + 1) % 256 ]
          [] c.cur.eot # 0 /\ c.cur.r >= c.cur.eot /\ c.cur.h = 0 ->
               [ c EXCEPT !.cur.h = 1, !.cur.r = 1, !.drive[d].head = 1 ]
          [] OTHER ->
               [ c EXCEPT !.cur.h = 0, !.cur.r = 1, !.cur.c = track, !.pcn[d] = track,
                          !.drive[d] = Seek([ @ EXCEPT !.head = 0 ], DrivePresent(d), track) ]

HasNext(c) ==
    \/ c.cur.eot = 0 \/ c.cur.r < c.cur.eot
    \/ c.cur.mt = 1 /\ DrivePresent(c.rwDrive)

\* fdc_continue_after_sector
AfterSector(c) ==
    IF (c.useDma = 1 /\ Remaining(c.dma, DmaChannel) = 0) \/ ~HasNext(c)
    THEN SuccessRw(c)
    ELSE [ NextSector(c) EXCEPT !.phase = "busy", !.rwTimer = 1 ]

-----------------------------------------------------------------------------
(* Sectors                                                                 *)

Here(c) == [ c |-> c.cur.c, h |-> c.cur.h, r |-> c.cur.r, n |-> c.cur.n ]

Rw(c) == c.drive[c.rwDrive]

\* file maps the sectors that were written; the others are as they came.
Sector(c, m, chs) ==
    LET i == Index(m, chs)
    IN  IF i \in DOMAIN c.file[m.id] THEN c.file[m.id][i] ELSE Original(m, i)

\* fdd_read_sector without a fault: c has the bytes in its buffer.
ReadSector(c) ==
    [ c EXCEPT !.buf = Sector(c, Rw(c).image, Here(c)), !.lastId = Here(c),
               !.drive[c.rwDrive] = Used(@) ]

\* fdd_write_sector without a fault
Put(c, chs, bytes) ==
    LET at == Index(Rw(c).image, chs)
    IN  [ c EXCEPT !.file[Rw(c).image.id] =
            [ i \in DOMAIN @ \cup {at} |-> IF i = at THEN bytes ELSE @[i] ], !.lastId = chs ]

WriteSector(c) ==
    LET fault == WriteFault(Rw(c), Here(c))
    IN  IF fault # "none" THEN ErrorRw(c, fault)
        ELSE AfterSector([ Put(c, Here(c), c.buf) EXCEPT !.drive[c.rwDrive] = Used(@) ])

\* The ids that FORMAT takes, four bytes each
IdAt(buf, i) == [ c |-> buf[4 * i - 3], h |-> buf[4 * i - 2],
                  r |-> buf[4 * i - 1], n |-> buf[4 * i] ]

Fits(c, id) ==
    /\ SectorBytes(c.cur.n) \in 1 .. BufferBytes
    /\ id.n = c.cur.n /\ id.c = c.cur.c /\ id.h = c.cur.h
    /\ WriteFault(Rw(c), id) = "none"

Formatted(c, ids) ==
    LET at == { Index(Rw(c).image, id) : id \in ids }
    IN  [ c EXCEPT !.file[Rw(c).image.id] = [ i \in DOMAIN @ \cup at |->
            IF i \in at THEN [ k \in 1 .. Bytes(c.cur.n) |-> c.fmt.fill ] ELSE @[i] ] ]

\* fdd_format_track: the sectors before a bad id stay formatted.
FormatTrack(c) ==
    LET fault == IF Inserted(Rw(c)) THEN IF ReadOnly(Rw(c)) THEN "write protected" ELSE "none"
                 ELSE IF c.useDma = 1 THEN "no media" ELSE "no sector"
        n   == c.fmt.count
        bad == { i \in 1 .. n : ~Fits(c, IdAt(c.buf, i)) }
        ids == { IdAt(c.buf, i) : i \in { k \in 1 .. n : \A b \in bad : k < b } }
    IN  CASE fault # "none" -> ErrorRw(c, fault)
          [] fault = "none" /\ bad # {} -> ErrorRw(Formatted(c, ids), "no sector")
          [] fault = "none" /\ bad = {} ->
               SuccessRw([ Formatted(c, ids) EXCEPT !.lastId = IdAt(c.buf, n),
                                                    !.drive[c.rwDrive] = Used(@) ])

\* fdc_finish_pio_write
FinishPioWrite(c) ==
    CASE c.op = "write"  -> WriteSector(c)
      [] c.op = "format" -> FormatTrack(c)
      [] OTHER           -> c

-----------------------------------------------------------------------------
(* Timers                                                                  *)

\* The bytes of a command that takes n of them: from memory, or one by one
\* through the port
FromDma(c, n) ==
    LET x == ReadMemory(c.dma, c.mem, DmaChannel, n)
    IN  [ c EXCEPT !.buf = x.taken, !.dma = x.dma ]

FromPort(c, n) == [ c EXCEPT !.len = n, !.pos = 0, !.buf = <<>>, !.phase = "pioWrite" ]

RwRead(c) ==
    LET fault == ReadFault(Rw(c), Here(c))
        r == ReadSector(c)
        x == WriteMemory(c.dma, c.mem, DmaChannel, r.buf)
    IN  CASE fault # "none" -> ErrorRw(c, fault)
          [] fault = "none" /\ c.useDma = 1 ->
               AfterSector([ r EXCEPT !.dma = x.dma, !.mem = x.mem ])
          [] OTHER ->
               Raise([ r EXCEPT !.len = Len(r.buf), !.pos = 0, !.phase = "pioRead" ])

RwWrite(c) ==
    IF c.useDma = 1 THEN WriteSector(FromDma(c, SectorBytes(c.cur.n)))
    ELSE FromPort(c, SectorBytes(c.cur.n))

RwFormat(c) ==
    CASE c.fmt.count = 0 -> ErrorRw(c, "no sector")
      [] c.fmt.count # 0 /\ c.useDma = 1 -> FormatTrack(FromDma(c, 4 * c.fmt.count))
      [] OTHER -> FromPort(c, 4 * c.fmt.count)

RwReadId(c) ==
    LET d == c.rwDrive
        fault == AddressFault(Rw(c), c.pcn[d], c.cur.h)
    IN  IF fault # "none" THEN ErrorRw(c, fault)
        ELSE SuccessRw([ c EXCEPT
               !.lastId = AddressAt(Rw(c), c.pcn[d], c.cur.h, c.readId[d]),
               !.readId[d] = (@ + 1) % 256, !.drive[d] = Used(@) ])

\* fdc_rw_callback
RwTimer(c) ==
    LET t == [ c EXCEPT !.rwTimer = 0 ]
    IN  CASE c.op = "read"   -> RwRead(t)
          [] c.op = "write"  -> RwWrite(t)
          [] c.op = "readId" -> RwReadId(t)
          [] c.op = "format" -> RwFormat(t)
          [] c.op = "none"   -> t

\* Mutant of SeekTimer: the step is not counted.
SeekTimerUncounted(c) ==
    LET d == c.seekDrive
        at == c.drive[d].track
        t == IF at < c.seekTarget THEN at + 1 ELSE IF at > c.seekTarget THEN at - 1 ELSE at
        s == [ c EXCEPT !.drive[d] = Seek(@, DrivePresent(d), t) ]
    IN  IF t # c.seekTarget THEN s
        ELSE IF c.seekReason = "rw"
             THEN [ s EXCEPT !.seekPending = 0, !.seekTimer = 0, !.rwTimer = 1 ]
             ELSE SeekInterrupt([ s EXCEPT !.seekPending = 0, !.seekTimer = 0 ], d, 32 + d)

\* fdc_seek_callback: one track closer
SeekTimer(c) ==
    LET d == c.seekDrive
        at == c.drive[d].track
        t == CASE at < c.seekTarget -> at + 1
               [] at > c.seekTarget -> at - 1
               [] at = c.seekTarget -> at
        s == [ c EXCEPT !.drive[d] = Seek(@, DrivePresent(d), t), !.pcn[d] = t ]
        e == [ s EXCEPT !.seekPending = 0, !.seekTimer = 0, !.seekReason = "none" ]
    IN  CASE c.seekPending = 0 -> c
          [] c.seekPending = 1 /\ t # c.seekTarget -> s
          [] c.seekPending = 1 /\ t = c.seekTarget ->
               CASE c.seekReason = "rw" -> [ e EXCEPT !.phase = "busy", !.rwTimer = 1 ]
                 [] c.seekReason = "recalibrate" -> SeekInterrupt(e, d, 32 + d)
                 [] OTHER -> SeekInterrupt(e, d, 32 + d + 4 * e.drive[d].head)

-----------------------------------------------------------------------------
(* Commands                                                                *)

Ready(c, d) == DrivePresent(d) /\ c.drive[d].motor = 1

BeginSeek(c, d, target, reason) ==
    [ c EXCEPT !.seekPending = 1, !.seekDrive = d, !.seekTarget = target,
               !.seekReason = reason, !.phase = "busy", !.seekTimer = 1 ]

BeginOp(c, op) == [ c EXCEPT !.op = op, !.phase = "busy", !.rwTimer = 1 ]

\* fdc_start_rw
StartRw(c, op) ==
    LET p == c.params
        d == p[1] % 4
        s == [ c EXCEPT !.rwDrive = d, !.op = op,
                        !.cur = [ c |-> p[2], h |-> p[3] % 2, r |-> p[4], n |-> p[5],
                                  eot |-> p[6], mt |-> c.command \div MultiTrack ],
                        !.lastId = [ c |-> p[2], h |-> p[3] % 2, r |-> p[4], n |-> p[5] ] ]
        h == [ s EXCEPT !.drive[d].head = s.cur.h ]
    IN  CASE SectorBytes(s.cur.n) \notin 1 .. BufferBytes -> ErrorRw(s, "no sector")
          [] SectorBytes(s.cur.n) \in 1 .. BufferBytes /\ ~Ready(c, d) -> ErrorRw(s, "no media")
          [] SectorBytes(s.cur.n) \in 1 .. BufferBytes /\ Ready(c, d) ->
               IF c.drive[d].track # s.cur.c THEN BeginSeek(h, d, s.cur.c, "rw")
               ELSE BeginOp(h, op)

Status3(c, d) ==
    d + 4 * c.drive[d].head + (IF DrivePresent(d) THEN 8 ELSE 0)
      + (IF c.drive[d].track = 0 THEN 16 ELSE 0)
      + (IF Inserted(c.drive[d]) THEN 32 ELSE 0)
      + (IF ReadOnly(c.drive[d]) THEN 64 ELSE 0)

\* SENSE INTERRUPT: the drives after a reset, then the last seek
Sense(c) ==
    CASE c.resetSense # 0 ->
           Result([ c EXCEPT !.resetSense = @ - 1 ],
                  << 196 - c.resetSense, c.pcn[4 - c.resetSense] >>)
      [] c.resetSense = 0 /\ c.fintr = 1 ->
           Result([ c EXCEPT !.fintr = 0 ], << c.st0, c.pcn[c.selected] >>)
      [] c.resetSense = 0 /\ c.fintr = 0 -> Result(c, << 128 >>)

\* What SEEK, READ ID and FORMAT TRACK do with their first byte
WithHead(c, p) == [ c EXCEPT !.rwDrive = p % 4, !.drive[p % 4].head = (p \div 4) % 2 ]

OnTrack(c, op, p) ==
    LET s == [ WithHead(c, p) EXCEPT !.cur.h = (p \div 4) % 2 ]
    IN  IF Ready(c, p % 4) THEN BeginOp(s, op) ELSE ErrorRw(s, "no media")

\* fdc_handle_command
Handle(c) ==
    LET p == c.params
        d == p[1] % 4
    IN  CASE Code(c) = CmdSpecify ->
               EnterCommand([ c EXCEPT !.useDma = 1 - (p[2] % 2) ])
          [] Code(c) = CmdSenseDrive ->
               LET s == [ c EXCEPT !.drive[d].head = (p[1] \div 4) % 2 ]
               IN  Result(s, << Status3(s, d) >>)
          [] Code(c) = CmdRecalibrate ->
               LET s == [ c EXCEPT !.rwDrive = d ]
               IN  IF Ready(c, d) THEN BeginSeek(s, d, 0, "recalibrate")
                   ELSE SeekInterrupt(s, d, 112 + d)
          [] Code(c) = CmdSense -> Sense(c)
          [] Code(c) = CmdSeek ->
               IF Ready(c, d) THEN BeginSeek(WithHead(c, p[1]), d, p[2], "command")
               ELSE SeekInterrupt(WithHead(c, p[1]), d, 32 + d)
          [] Code(c) \in {CmdReadData, CmdReadDeleted} -> StartRw(c, "read")
          [] Code(c) \in {CmdWriteData, CmdWriteDeleted} -> StartRw(c, "write")
          [] Code(c) = CmdReadId -> OnTrack(c, "readId", p[1])
          [] Code(c) = CmdFormat ->
               OnTrack([ c EXCEPT !.cur.c = c.pcn[d], !.cur.n = p[2],
                                  !.fmt = [ count |-> p[3], fill |-> p[5] ] ],
                       "format", p[1])

-----------------------------------------------------------------------------
(* Ports                                                                   *)

\* The digital output register: reset, motors and drive
WriteDor(c, enabled, motors, d) ==
    LET s == [ c EXCEPT !.enabled = enabled, !.motors = motors, !.dorDrive = d, !.selected = d,
                        !.drive = [ x \in Drives |->
                          [ @[x] EXCEPT !.motor = IF x \in motors THEN 1 ELSE 0 ] ] ]
    IN  CASE ~enabled -> [ s EXCEPT !.seekTimer = 0, !.rwTimer = 0, !.phase = "busy" ]
          [] enabled /\ ~c.enabled -> SoftReset(s)
          [] enabled /\ c.enabled  -> s

\* The data rate register: its high bit, clear, resets.
WriteDsr(c, bit7) == IF bit7 = 0 THEN SoftReset(c) ELSE c

PioByte(c, byte) ==
    LET s == [ c EXCEPT !.buf = Append(@, byte), !.pos = @ + 1 ]
    IN  IF s.pos >= s.len THEN FinishPioWrite(s) ELSE s

CommandByte(c, byte) ==
    LET s == [ c EXCEPT !.command = byte, !.params = <<>> ]
    IN  CASE Code(s) \notin DOMAIN Params -> Result(s, << 128 >>)
          [] Code(s) \in DOMAIN Params /\ Params[Code(s)] = 0 -> Handle(s)
          [] Code(s) \in DOMAIN Params /\ Params[Code(s)] # 0 -> [ s EXCEPT !.phase = "params" ]

ParamByte(c, byte) ==
    LET s == [ c EXCEPT !.params = Append(@, byte) ]
    IN  IF Len(s.params) >= Params[Code(s)] THEN Handle(s) ELSE s

WriteData(c, byte) ==
    CASE ~c.enabled \/ c.phase \in {"result", "pioRead", "busy"} -> c
      [] c.enabled /\ c.phase = "pioWrite" -> PioByte(c, byte)
      [] c.enabled /\ c.phase = "command"  -> CommandByte(c, byte)
      [] c.enabled /\ c.phase = "params"   -> ParamByte(c, byte)

\* What a read of the data port answers, and does
DataByte(c) ==
    CASE c.phase = "result"  -> c.result[1]
      [] c.phase = "pioRead" -> c.buf[c.pos + 1]
      [] OTHER               -> 0

ReadData(c) ==
    LET s == [ c EXCEPT !.irr = 0 ]
    IN  CASE c.phase = "result" ->
               IF Len(c.result) = 1 THEN EnterCommand(s) ELSE [ s EXCEPT !.result = Tail(@) ]
          [] c.phase = "pioRead" ->
               IF c.pos + 1 >= c.len THEN AfterSector([ s EXCEPT !.pos = @ + 1 ])
               ELSE [ s EXCEPT !.pos = @ + 1 ]
          [] OTHER -> s

-----------------------------------------------------------------------------
(* The host                                                                *)

\* fdc_insert and fdc_eject end whatever the controller does, for either drive.
InsertImage(c, d, m) == [ Abort(c) EXCEPT !.drive[d] = Load(@, m) ]
EjectImage(c, d)     == [ Abort(c) EXCEPT !.drive[d] = Close(@) ]

\* fdc_init: as after a reset, with both drives empty
FdcAtStart(files, memory) ==
    SoftReset([ enabled |-> TRUE, motors |-> {}, dorDrive |-> 0, selected |-> 0,
                phase |-> "command", command |-> 0, params |-> <<>>, op |-> "none",
                rwDrive |-> 0,
                cur |-> [ c |-> 0, h |-> 0, r |-> 0, n |-> 0, eot |-> 0, mt |-> 0 ],
                useDma |-> 1, fintr |-> 0, st0 |-> 0, resetSense |-> 0, seekPending |-> 0,
                seekDrive |-> 0, seekTarget |-> 0, seekReason |-> "none",
                readId |-> [ d \in Drives |-> 0 ], fmt |-> [ count |-> 0, fill |-> 0 ],
                pcn |-> [ d \in Drives |-> 0 ], seekTimer |-> 0, rwTimer |-> 0,
                buf |-> <<>>, len |-> 0, pos |-> 0,
                lastId |-> [ c |-> 0, h |-> 0, r |-> 0, n |-> 0 ], result |-> <<>>,
                drive |-> [ d \in Drives |-> DriveAtStart ], irr |-> 0,
                dma |-> DmaAtStart, mem |-> memory, file |-> files ])
=============================================================================
