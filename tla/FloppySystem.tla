---------------------------- MODULE FloppySystem ----------------------------
(***************************************************************************)
(* The floppy controller with its guest and its host.  The guest of a      *)
(* behaviour is one of FloppyGuests.  A free one writes command bytes from *)
(* scripts, which it may abandon anywhere, reads, resets and switches      *)
(* motors at any time.  A driver serves requests, by DMA and interrupt or  *)
(* by polling, each as a program of steps; out of step with the controller *)
(* or out of patience it resets it and starts the request again.           *)
(***************************************************************************)
EXTENDS Fdc

CONSTANTS
  FloppyGuests,  \* records with scripts (a set of byte sequences, for a free
                 \* guest) or jobs (for a driver), pio, images (that the host
                 \* inserts), maxJobs, maxChanges and maxTimeouts
  Spt, Heads,    \* geometry that the driver assumes
  Size           \* size code of its sectors

VARIABLES
  floppyGuest,   \* the guest of this behaviour
  c,             \* the machine
  floppyScript,  \* bytes of the command that a free guest still has to write
  job,           \* the request of the driver
  floppyTodo,    \* what the driver still has to do for it
  answers,       \* bytes that it has read since it last wrote
  data,          \* bytes of sectors that it has read by port
  result,        \* of the request: "none" until it ends, "ok" or "error"
  orphan,        \* has a change of disk left an interrupt request behind?
  floppyJobs, changes, timeouts  \* counts for the bounds

driver     == << job, floppyTodo, answers, data, result >>
floppyVars == << floppyGuest, c, floppyScript, driver, orphan, floppyJobs, changes, timeouts >>

NoJob == [ op |-> "none", at |-> 0, n |-> 0 ]

FloppyInit ==
    /\ floppyGuest \in FloppyGuests
    /\ \E m \in floppyGuest.images :
         c = InsertImage(FdcAtStart([ x \in { i.id : i \in Images } |-> << >> ],
                                    [ a \in 0 .. MemSize - 1 |-> 0 ]), 0, m)
    /\ floppyScript = <<>> /\ job = NoJob /\ floppyTodo = <<>> /\ answers = <<>> /\ data = <<>>
    /\ result = "none" /\ orphan = FALSE /\ floppyJobs = 0 /\ changes = 0 /\ timeouts = 0

\* Every step of the machine: a request left behind is gone with it.
Becomes(s) == c' = s /\ orphan' = (orphan /\ s.irr = 1)

-----------------------------------------------------------------------------
(* A free guest                                                            *)

FreeFloppy == floppyGuest.scripts # {}

KeepFloppyDriver == UNCHANGED << floppyGuest, driver, floppyJobs, changes, timeouts >>

BeginFloppyScript ==
    /\ FreeFloppy /\ floppyJobs < floppyGuest.maxJobs /\ floppyJobs' = floppyJobs + 1
    /\ c.phase # "params" /\ floppyScript' \in floppyGuest.scripts
    /\ UNCHANGED << floppyGuest, c, driver, orphan, changes, timeouts >>

WriteFloppyByte ==
    /\ FreeFloppy /\ floppyScript # <<>>
    /\ Becomes(WriteData(c, floppyScript[1])) /\ floppyScript' = Tail(floppyScript)
    /\ KeepFloppyDriver

ReadFloppyByte == FreeFloppy /\ Becomes(ReadData(c)) /\ UNCHANGED floppyScript /\ KeepFloppyDriver

SetDor ==
    /\ FreeFloppy
    /\ \E enabled \in BOOLEAN : Becomes(WriteDor(c, enabled, {0, 1}, 0))
    /\ UNCHANGED floppyScript /\ KeepFloppyDriver

SetDsr ==
    /\ FreeFloppy /\ Becomes(WriteDsr(c, 0)) /\ UNCHANGED floppyScript /\ KeepFloppyDriver

\* What a driver writes to the DMA ports before a transfer of n bytes
Programmed(d, address, n, mode) ==
    LET a == WriteChannel(WriteChannel(ClearFlipFlop(SetMask(d, DmaChannel, TRUE)),
               DmaChannel, "addr", address % 256), DmaChannel, "addr", address \div 256)
        b == WriteChannel(WriteChannel(a, DmaChannel, "count", (n - 1) % 256),
               DmaChannel, "count", (n - 1) \div 256)
    IN  SetMask(SetPage(SetMode(b, DmaChannel, mode), DmaChannel, 0), DmaChannel, FALSE)

SetDma ==
    /\ FreeFloppy
    /\ \E mode \in {2, 2 + ModeAuto} :
         Becomes([ c EXCEPT !.dma = Programmed(@, 0, 3, mode) ])
    /\ UNCHANGED floppyScript /\ KeepFloppyDriver

-----------------------------------------------------------------------------
(* A driver.  Its program: dor, out a byte, wait for the interrupt, in n   *)
(* bytes of result, dma for the request, or move n bytes of sectors.       *)

Do(what, n) == << [ do |-> what, n |-> n ] >>

Chs(at) == [ c |-> at \div (Spt * Heads), h |-> (at \div Spt) % Heads,
             r |-> (at % Spt) + 1, n |-> Size ]

SenseSteps == Do("out", CmdSense) \o Do("in", 2)

ResetSteps ==
    Do("dor", 0) \o Do("dor", 1) \o Do("irq", 0)
      \o SenseSteps \o SenseSteps \o SenseSteps \o SenseSteps
      \o Do("out", CmdSpecify) \o Do("out", 175) \o Do("out", IF floppyGuest.pio THEN 3 ELSE 2)
      \o Do("out", CmdRecalibrate) \o Do("out", 0) \o Do("irq", 0) \o SenseSteps

\* By port a transfer ends with its last sector, by DMA with its last byte.
CommandSteps(j) ==
    LET at == Chs(j.at)
        command == (IF j.op = "read" THEN CmdReadData ELSE CmdWriteData)
                     + IF floppyGuest.pio THEN 0 ELSE MultiTrack
    IN  Do("out", command) \o Do("out", 4 * at.h) \o Do("out", at.c) \o Do("out", at.h)
          \o Do("out", at.r) \o Do("out", Size)
          \o Do("out", IF floppyGuest.pio THEN at.r + j.n - 1 ELSE Spt)
          \o Do("out", 27) \o Do("out", 255)

Length(j) == j.n * Bytes(Size)

RequestSteps(j) ==
    IF floppyGuest.pio THEN CommandSteps(j) \o Do("move", Length(j)) \o Do("in", 7)
    ELSE Do("dma", 0) \o CommandSteps(j) \o Do("irq", 0) \o Do("in", 7)

Pattern(j) == [ k \in 1 .. Length(j) |-> 200 + j.at + k ]

Next1 == floppyTodo[1].do

Done1 ==
    floppyTodo' = IF Next1 \in {"in", "move"} /\ floppyTodo[1].n > 1
                  THEN [ floppyTodo EXCEPT ![1].n = @ - 1 ] ELSE Tail(floppyTodo)

KeepFree == UNCHANGED << floppyGuest, floppyScript, floppyJobs, changes, timeouts >>

StartJob ==
    /\ ~FreeFloppy /\ floppyTodo = <<>> /\ (job = NoJob \/ result # "none")
    /\ floppyJobs < floppyGuest.maxJobs /\ floppyJobs' = floppyJobs + 1
    /\ job' \in floppyGuest.jobs
    /\ floppyTodo' = (IF floppyJobs = 0 THEN ResetSteps ELSE <<>>) \o RequestSteps(job')
    /\ answers' = <<>> /\ data' = <<>> /\ result' = "none"
    /\ UNCHANGED << floppyGuest, c, floppyScript, orphan, changes, timeouts >>

Restart ==
    /\ floppyTodo' = ResetSteps \o RequestSteps(job)
    /\ answers' = <<>> /\ data' = <<>>
    /\ UNCHANGED << floppyGuest, c, floppyScript, job, result, orphan, floppyJobs, changes >>

Prepared ==
    [ c EXCEPT !.dma = Programmed(@, 0, Length(job), IF job.op = "read" THEN 68 ELSE 72),
               !.mem = IF job.op = "read" THEN @
                       ELSE [ a \in DOMAIN @ |-> IF a < Length(job) THEN Pattern(job)[a + 1]
                                                 ELSE @[a] ] ]

DoDor ==
    /\ Next1 = "dor" /\ Becomes(WriteDor(c, floppyTodo[1].n = 1, {0}, 0))
    /\ Done1 /\ UNCHANGED << job, answers, data, result >>

DoDma ==
    /\ Next1 = "dma" /\ Becomes(Prepared)
    /\ Done1 /\ UNCHANGED << job, answers, data, result >>

\* Is it the turn of the next byte?
InStep ==
    LET reads == job.op = "read"
    IN  CASE Next1 = "out"  -> ~Sends(c) /\ ~Moves(c)
          [] Next1 = "in"   -> Sends(c) /\ ~Moves(c)
          [] Next1 = "move" -> Sends(c) = reads /\ Moves(c)

DoOut ==
    /\ Next1 = "out" /\ Asks(c) /\ InStep
    /\ Becomes(WriteData(c, floppyTodo[1].n))
    /\ Done1 /\ answers' = <<>> /\ UNCHANGED << job, data, result >>

DoIrq ==
    /\ Next1 = "irq" /\ c.irr = 1
    /\ Becomes([ c EXCEPT !.irr = 0 ])
    /\ Done1 /\ UNCHANGED << job, answers, data, result >>

\* The last byte of a result ends the request.
DoIn ==
    /\ Next1 = "in" /\ Asks(c) /\ InStep
    /\ answers' = Append(answers, DataByte(c)) /\ Becomes(ReadData(c))
    /\ Done1 /\ UNCHANGED << job, data >>
    /\ result' = IF floppyTodo' # <<>> THEN result ELSE IF answers'[1] < 64 THEN "ok" ELSE "error"

\* A byte of a sector, either way
DoMove ==
    /\ Next1 = "move" /\ Asks(c) /\ InStep
    /\ IF job.op = "read"
       THEN data' = Append(data, DataByte(c)) /\ Becomes(ReadData(c))
       ELSE data' = Append(data, 0) /\ Becomes(WriteData(c, Pattern(job)[Len(data) + 1]))
    /\ Done1 /\ UNCHANGED << job, answers, result >>

\* The controller is not where the driver thinks it is: an error has ended
\* the data early, or the two are out of step.
OutOfStep ==
    /\ Next1 \in {"out", "in", "move"} /\ Asks(c) /\ ~InStep
    /\ \/ /\ Next1 = "move" /\ c.phase = "result"
          /\ floppyTodo' = Do("in", 7) /\ UNCHANGED << answers, data >>
          /\ UNCHANGED << floppyGuest, c, floppyScript, job, result, orphan, floppyJobs, changes >>
       \/ ~(Next1 = "move" /\ c.phase = "result") /\ Restart
    /\ UNCHANGED timeouts

\* Has the driver a step to take, and a timer one that changes something?
Awaited ==
    \/ Next1 \in {"dor", "dma"}
    \/ Next1 = "irq" /\ c.irr = 1
    \/ Next1 \in {"out", "in", "move"} /\ Asks(c)

Running == c.rwTimer = 1 \/ (c.seekTimer = 1 /\ SeekTimer(c) # c)

\* Nothing will ever come.
Hopeless == ~Awaited /\ ~Running

GiveUp == Hopeless /\ Restart /\ UNCHANGED timeouts

TimeOut ==
    /\ ~FreeFloppy /\ floppyTodo # <<>> /\ timeouts < floppyGuest.maxTimeouts
    /\ timeouts' = timeouts + 1 /\ Restart

DriverStep ==
    /\ ~FreeFloppy /\ floppyTodo # <<>>
    /\ \/ (DoDor \/ DoDma \/ DoOut \/ DoIrq \/ DoIn \/ DoMove) /\ KeepFree
       \/ OutOfStep
       \/ GiveUp

-----------------------------------------------------------------------------
(* Timers, and the host                                                    *)

TimerFires ==
    /\ \/ c.rwTimer = 1   /\ Becomes(RwTimer(c))
       \/ c.seekTimer = 1 /\ Becomes(SeekTimer(c))
    /\ UNCHANGED << floppyGuest, floppyScript, driver, floppyJobs, changes, timeouts >>

\* An image is in one drive at a time.
HostDisk ==
    /\ changes < floppyGuest.maxChanges /\ changes' = changes + 1
    /\ \E d \in {0, 1} :
         \/ c' = EjectImage(c, d)
         \/ \E m \in floppyGuest.images :
              c.drive[1 - d].image # m /\ c' = InsertImage(c, d, m)
    /\ orphan' = (c'.irr = 1)
    /\ UNCHANGED << floppyGuest, floppyScript, driver, floppyJobs, timeouts >>

FreeStep == BeginFloppyScript \/ WriteFloppyByte \/ ReadFloppyByte \/ SetDor \/ SetDsr \/ SetDma

FloppyNext == FreeStep \/ StartJob \/ DriverStep \/ TimeOut \/ TimerFires \/ HostDisk

\* Weak fairness of the driver and of the timers, with the conditions under
\* which they can step written out.
CanStep == ~FreeFloppy /\ floppyTodo # <<>> /\ (Awaited \/ Hopeless)

FloppySpec ==
    /\ FloppyInit /\ [][FloppyNext]_floppyVars
    /\ []<>(~CanStep) \/ []<><<DriverStep>>_floppyVars
    /\ []<>(~Running) \/ []<><<TimerFires>>_floppyVars

-----------------------------------------------------------------------------
(* Properties                                                              *)

\* Registers stay in range; a buffer position stays in the buffer.
FloppyTypeOK ==
    /\ c.phase \in {"command", "params", "result", "pioRead", "pioWrite", "busy"}
    /\ c.op \in {"none", "read", "write", "readId", "format"}
    /\ c.resetSense \in 0 .. 4 /\ c.irr \in 0 .. 1
    /\ \A d \in Drives : c.drive[d].track \in 0 .. MaxTrack - 1
    /\ c.pos <= c.len /\ c.len <= BufferBytes
    /\ c.phase = "result" => c.result # <<>>
    /\ c.phase = "pioRead" => c.pos < c.len
    /\ \A i \in Channels : c.dma.ch[i].nowCount \in 0 .. Total(c.dma.ch[i])

\* Whatever commands, resets and changes of disk follow each other, a busy
\* controller that is not held in reset has one timer to end it, and no
\* timer runs in any other phase.
BusyEnds ==
    LET running == c.rwTimer + c.seekTimer
    IN  IF c.phase = "busy" /\ c.enabled
        THEN running = 1 /\ (c.rwTimer = 1 => c.op # "none")
                         /\ (c.seekTimer = 1 => c.seekPending = 1)
        ELSE running = 0

\* Seeks, implied seeks, transfers that cross cylinders and resets between
\* their steps leave the controller's idea of a drive's cylinder right, as
\* far as the drive has cylinders.
HeadKnown ==
    \A d \in Drives :
        \/ c.pcn[d] = c.drive[d].track
        \/ c.pcn[d] >= MaxTrack /\ c.drive[d].track = MaxTrack - 1

\* An interrupt has a cause that the guest can still find, unless the host
\* has changed a disk since it was raised.
IrqExplained ==
    (c.irr = 1 /\ c.enabled /\ ~orphan) =>
        c.phase \in {"result", "pioRead"} \/ c.fintr = 1 \/ c.resetSense > 0

\* Seeks, implied seeks, transfers across cylinders and resets between their
\* steps leave fdc.c right about where a drive's head is; a busy controller
\* has a timer to end it, and an interrupt a cause the guest can still find.
PositionKnown == HeadKnown /\ BusyEnds /\ IrqExplained

\* Only WRITE and FORMAT change an image, only the one in the drive they
\* address, never a read-only one and only on the track they are on.
OnlyWritesWrite ==
    [][ \A m \in Images : c'.file[m.id] # c.file[m.id] =>
          /\ c.op \in {"write", "format"} /\ Rw(c).image = m /\ ~m.readOnly
          /\ \A i \in DOMAIN c'.file[m.id] :
               \/ i \in DOMAIN c.file[m.id] /\ c'.file[m.id][i] = c.file[m.id][i]
               \/ i \div Geometry(m).sectors = c.cur.c * Geometry(m).sides + c.cur.h ]_floppyVars

\* However timeouts, resets, retries and changes of disk fall, a request
\* that ends well moved exactly its sectors, of the disk now in the drive.
Bytes0(j) == IF floppyGuest.pio THEN data ELSE [ k \in 1 .. Length(j) |-> c.mem[k - 1] ]

OnDisk(j) ==
    [ k \in 1 .. Length(j) |->
        LET b == Bytes(Size)
            i == (k - 1) \div b
        IN  Sector(c, c.drive[0].image, Chs(j.at + i))[((k - 1) % b) + 1] ]

DataExact ==
    [][ (result = "none" /\ result' = "ok") =>
          /\ Inserted(c.drive[0])
          /\ OnDisk(job) = IF job.op = "read" THEN Bytes0(job) ELSE Pattern(job) ]_floppyVars
=============================================================================
