------------------------------ MODULE AtaDriver ------------------------------
(***************************************************************************)
(* The ATA channel under a guest that keeps to the protocol: one request   *)
(* at a time, registers, command, status, a sector or a chunk of data,     *)
(* status.  It reads and writes the hard disk, reads blocks from the       *)
(* CD-ROM drive until a read is complete or there is no disc, probes that  *)
(* drive and resets both, while the host changes discs.  It waits either   *)
(* for the interrupt or, with interrupts off, for the end of BSY.          *)
(***************************************************************************)
EXTENDS Ata

CONSTANTS
  DiskSize,   \* sectors of the disk
  Tracks,     \* its geometry: sectors per track and heads
  Limit,      \* byte count limit of packets
  Drivers,    \* the drivers: their requests (op, at, n, lbamode, mark), do
              \* they poll, and the bound on the changes of disc
  MaxJobs     \* bound on their requests

DriverAssumption == Limit % 2 = 0

Hdd == 1
Cd  == 2

VARIABLES
  mode,   \* the driver of this behaviour
  c,      \* the channel
  job,    \* the request
  phase,  \* what the guest does next for it
  sent,   \* sectors that it knows were moved
  want,   \* bytes to move before it looks at the status again
  got,    \* bytes read for the request
  result, \* of the last request
  torn,   \* was a disc changed within a chunk, or after the last of them?
  jobs, changes  \* counts for the bounds

guest == << job, phase, sent, want, got, result, torn >>
vars  == << mode, c, guest, jobs, changes >>

NoJob == [ op |-> "none", at |-> 0, n |-> 0, lbamode |-> 0, mark |-> 0 ]

OnDisc == {"disc", "probe"}

\* The BIOS has given the disk its geometry.
Init ==
    /\ mode \in Drivers
    /\ LET fresh == ChannelAtStart(AttachedDrive("hdd", DiskSize, NoDisc),
                                   AttachedDrive("cdrom", 0, NoDisc))
           ready == Command(WriteTaskFile(
                      WriteDrive(fresh, 0, 1, Tracks.heads - 1),
                      Tracks.spt, 0), CmdInitParams)
       IN  c = WriteControl(ReadStatus(ready), 0, IF mode.polled THEN 1 ELSE 0)
    /\ job = NoJob /\ phase = "idle" /\ sent = 0 /\ want = 0 /\ got = <<>>
    /\ result = "none" /\ torn = FALSE /\ jobs = 0 /\ changes = 0

-----------------------------------------------------------------------------
(* The guest                                                               *)

Code == [ read |-> CmdRead, write |-> CmdWrite, disc |-> CmdPacket,
          probe |-> CmdIdentify, reset |-> CmdDiagnostic ]

\* Cylinder, head and sector of sector number at, as the registers hold them
ChsRegisters(at) ==
    [ low |-> (at % Tracks.spt) + 1
                + 256 * (at \div (Tracks.spt * Tracks.heads)),
      head |-> (at \div Tracks.spt) % Tracks.heads ]

Start ==
    /\ phase = "idle" /\ jobs < MaxJobs /\ jobs' = jobs + 1
    /\ job' \in mode.jobs
    /\ phase' = "registers" /\ sent' = 0 /\ want' = 0 /\ got' = <<>>
    /\ result' = "none" /\ torn' = FALSE
    /\ UNCHANGED << mode, c, changes >>

Registers ==
    /\ phase = "registers" /\ phase' = "command"
    /\ LET chs == ChsRegisters(job.at)
           low == CASE job.op = "disc" -> Limit * 256
                    [] job.lbamode = 1 -> job.at
                    [] OTHER           -> chs.low
           head == IF job.lbamode = 1 THEN 0 ELSE chs.head
           drive == IF job.op \in OnDisc THEN 1 ELSE 0
       IN  c' = WriteTaskFile(WriteDrive(c, drive, job.lbamode, head), job.n, low)
    /\ UNCHANGED << mode, job, sent, want, got, result, torn, jobs, changes >>

GiveCommand ==
    /\ phase = "command"
    /\ c' = Command(c, Code[job.op])
    /\ phase' = IF job.op \in {"write", "disc"} THEN "drq" ELSE "await"
    /\ UNCHANGED << mode, job, sent, want, got, result, torn, jobs, changes >>

\* A data phase that the host has dropped starts again.
AwaitDrq ==
    /\ phase = "drq" /\ ~Status(c).bsy
    /\ IF Status(c).drq
       THEN /\ phase' = "out"
            /\ want' = IF job.op = "disc" THEN CdbBytes ELSE SectorBytes
       ELSE phase' = "registers" /\ want' = 0
    /\ c' = ReadStatus(c)
    /\ UNCHANGED << mode, job, sent, got, result, torn, jobs, changes >>

OutWord ==
    IF job.op = "write" THEN Repeat(job.mark + sent + 1, 2) ELSE << Read, job.n >>

MoveOut ==
    /\ phase = "out"
    /\ \E hostOk \in BOOLEAN : c' = WriteWord(c, OutWord, hostOk)
    /\ want' = want - 2
    /\ phase' = IF want = 2 THEN "await" ELSE "out"
    /\ UNCHANGED << mode, job, sent, got, result, torn, jobs, changes >>

MoveIn ==
    /\ phase = "in"
    /\ got' = got \o DataWord(c)
    /\ c' = ReadWord(c)
    /\ want' = want - 2
    /\ sent' = IF want = 2 /\ job.op = "read" THEN sent + 1 ELSE sent
    /\ phase' = CASE want > 2          -> "in"
                  [] sent' = job.n     -> "end"
                  [] OTHER             -> "await"
    /\ UNCHANGED << mode, job, result, torn, jobs, changes >>

AllRead == Len(got) = job.n * BlockBytes

Finish(r) ==
    phase' = "idle" /\ result' = r /\ UNCHANGED << want, got, torn >>

Again ==
    phase' = "registers" /\ got' = <<>> /\ torn' = FALSE /\ UNCHANGED << want, result >>

MoveMore(p, n) ==
    phase' = p /\ want' = n /\ UNCHANGED << got, result, torn >>

Failed(error) ==
    IF job.op = "disc"
    THEN IF error \div 16 = NotReady THEN Finish("empty") ELSE Again
    ELSE Finish(IF job.op = "probe" THEN "packet device" ELSE "error")

\* The status after a command or a piece of data
Looked(st, s) ==
    CASE job.op = "reset" -> Finish("ok") /\ UNCHANGED sent
      [] job.op # "reset" /\ st.err -> Failed(s.error) /\ UNCHANGED sent
      [] job.op = "read" /\ ~st.err -> MoveMore("in", SectorBytes) /\ UNCHANGED sent
      [] job.op = "write" /\ ~st.err ->
           /\ sent' = sent + 1
           /\ IF sent' = job.n THEN MoveMore("end", 0) ELSE MoveMore("out", SectorBytes)
      [] job.op = "disc" /\ ~st.err /\ st.drq ->
           MoveMore("in", Mid(s.lba)) /\ UNCHANGED sent
      [] job.op = "disc" /\ ~st.err /\ ~st.drq ->
           /\ IF AllRead THEN MoveMore("end", 0) ELSE Again
           /\ UNCHANGED sent
      [] job.op = "probe" /\ ~st.err -> Again /\ UNCHANGED sent

Await ==
    /\ phase = "await"
    /\ IF mode.polled \/ job.op = "reset" THEN ~Status(c).bsy ELSE c.irr = 1
    /\ c' = ReadStatus([ c EXCEPT !.irr = 0 ])
    /\ Looked(Status(c), Cur(c))
    /\ UNCHANGED << mode, job, jobs, changes >>

End ==
    /\ phase = "end" /\ Finish("ok")
    /\ UNCHANGED << mode, c, job, sent, jobs, changes >>

-----------------------------------------------------------------------------
(* Timers, and the host                                                    *)

TimerFires ==
    /\ \/ c.resetTimer = 1 /\ c' = ResetDone(c)
       \/ c.cmdTimer = 1   /\ c' = CommandDone(c)
    /\ UNCHANGED << mode, guest, jobs, changes >>

HostDisc ==
    /\ changes < mode.maxChanges /\ changes' = changes + 1
    /\ \/ \E disc \in Discs : c' = ChangeDisc(c, Cd, disc, TRUE)
       \/ c' = EjectDisc(c, Cd)
    /\ torn' = (torn \/ (job.op = "disc" /\ (phase = "in" \/ AllRead)))
    /\ UNCHANGED << mode, job, phase, sent, want, got, result, jobs >>

GuestStep == \/ Registers \/ GiveCommand \/ AwaitDrq \/ MoveOut \/ MoveIn
             \/ Await \/ End

Next == Start \/ GuestStep \/ TimerFires \/ HostDisc

Spec == Init /\ [][Next]_vars /\ WF_vars(GuestStep) /\ WF_vars(TimerFires)

-----------------------------------------------------------------------------
(* Properties                                                              *)

\* However chunks, errors, retries and changes of disc follow each other, a
\* complete read holds the bytes of the disc that is now in the drive,
\* unless that disc came after the last chunk or between two words of one:
\* then the drive answers zeros.
CurrentDisc ==
    (phase = "end" /\ job.op = "disc" /\ ~torn) =>
        got = Repeat(c.slot[Cd].cdrom.media, job.n * BlockBytes)

\* Every request of the guest ends, with data, an error or no disc.
RequestsEnd == phase # "idle" ~> phase = "idle"

\* The disk as the guest sees it (BlockDevice): a sector counts as moved
\* when its last word is, and a write only if the host took it.
SectorsOf(bytes) ==
    [ k \in 1 .. Len(bytes) \div SectorBytes |->
        SubSeq(bytes, (k - 1) * SectorBytes + 1, k * SectorBytes) ]

RequestOf(j) ==
    CASE j.op = "read"  -> [ op |-> "read", at |-> j.at, n |-> j.n ]
      [] j.op = "write" -> [ op |-> "write", at |-> j.at, n |-> j.n,
                             data |-> [ k \in 1 .. j.n |->
                                          Repeat(j.mark + k, SectorBytes) ] ]
      [] OTHER          -> [ op |-> "none" ]

AllJobs == UNION { d.jobs : d \in Drivers }

OnHdd == job.op \in {"read", "write"}

Stored_ == IF job.op = "write" /\ phase = "await" /\ c.slot[Hdd].error = 0 THEN 1 ELSE 0

Block == INSTANCE BlockDevice WITH
    Sector   <- [ 1 .. SectorBytes -> 0 .. 255 ],
    Requests <- { RequestOf(j) : j \in { k \in AllJobs : k.op \in {"read", "write"} } },
    disk     <- [ n \in 0 .. DiskSize - 1 |-> SectorAt(c.slot[Hdd], n) ],
    request  <- IF phase = "idle" THEN [ op |-> "none" ] ELSE RequestOf(job),
    done     <- IF phase = "idle" \/ ~OnHdd THEN 0 ELSE sent + Stored_,
    got      <- IF OnHdd THEN SectorsOf(got) ELSE <<>>,
    result   <- IF OnHdd THEN result ELSE "none"

\* Multi-sector reads and writes, in LBA and CHS mode, are the block device's.
ImplementsBlockDevice == Block!Spec
=============================================================================
