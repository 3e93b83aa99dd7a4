------------------------------- MODULE BusLogic -------------------------------
(***************************************************************************)
(* The BusLogic host adapter with its targets and a driver. First the      *)
(* targets, then the adapter, then the composition with the guest.         *)
(*                                                                         *)
(* SCSI targets: a fixed disk (scsi/scsi_disk.c) and a CD-ROM drive        *)
(* (scsi/scsi_cdrom.c) behind the two calls of scsi/scsi_device.c: phase0  *)
(* decodes a command and fills the buffer, phase1 ends it and, for a       *)
(* write, stores the buffer.                                               *)
(*                                                                         *)
(* A target is a record d.  Media are sequences of blocks and lengths      *)
(* count blocks; an answer of a few bytes counts as one.  Sense data is    *)
(* the reason alone.  "control" stands for the commands that only succeed  *)
(* and "other" for the codes no target knows.                              *)
(***************************************************************************)
EXTENDS Integers, Sequences, FiniteSets

Zero == "zero"  \* a cleared block of the buffer

Target(type, media, readonly) ==
    [ type |-> type, media |-> media, readonly |-> readonly,
      phase |-> "out", status |-> "good", len |-> 0, buf |-> <<>>,
      sense |-> "none", err |-> 0, pendAt |-> 0, pendN |-> 0 ]

NoTarget   == Target("none", <<>>, FALSE)
Present(d) == d.type # "none"

ClearSense(d)       == [ d EXCEPT !.sense = "none", !.err = 0 ]
SetSense(d, reason) == [ d EXCEPT !.sense = reason, !.err = 1 ]

\* Both drives forget their sense, and nothing else.
ResetTarget(d) == IF Present(d) THEN ClearSense(d) ELSE d

\* The buffer keeps its size, and what lies beyond the new data.
Over(new, old) == new \o SubSeq(old, Len(new) + 1, Len(old))

Filled(d, phase, blocks) ==
    [ d EXCEPT !.phase = phase, !.len = Len(blocks), !.buf = Over(blocks, @) ]

InRange(d, cdb) == cdb.at < Len(d.media) /\ cdb.at + cdb.n <= Len(d.media)

ReadBlocks(d, cdb, hostOk) ==
    CASE ~InRange(d, cdb)          -> SetSense(d, "range")
      [] InRange(d, cdb) /\ hostOk ->
           Filled(d, "in", SubSeq(d.media, cdb.at + 1, cdb.at + cdb.n))
      [] OTHER                     -> SetSense(d, "medium")

BeginWrite(d, cdb) ==
    CASE d.readonly       -> SetSense(d, "protected")
      [] ~d.readonly /\ ~InRange(d, cdb) -> SetSense(d, "range")
      [] OTHER            ->
           Filled([ d EXCEPT !.pendAt = cdb.at, !.pendN = cdb.n ], "out",
                  [ k \in 1 .. cdb.n |-> Zero ])

\* What a target starts from: no data, and success unless something fails
Fresh(d) == [ d EXCEPT !.phase = "status", !.len = 0, !.err = 0 ]

DiskCommand(d, cdb, hostOk) ==
    LET e == ClearSense(Fresh(d))
    IN  CASE cdb.op = "read"    -> ReadBlocks(e, cdb, hostOk)
          [] cdb.op = "write"   -> BeginWrite(e, cdb)
          [] cdb.op = "sense"   -> Filled(e, "in", << e.sense >>)
          [] cdb.op = "inquiry" -> Filled(e, "in", << "disk" >>)
          [] cdb.op \in {"tur", "control"} -> e
          [] OTHER              -> SetSense(e, "opcode")

\* Unlike the disk, the drive still knows its sense when asked for it.
CdromCommand(d, cdb, hostOk) ==
    LET e == IF cdb.op = "sense" THEN Fresh(d) ELSE ClearSense(Fresh(d))
    IN  CASE cdb.op \in {"tur", "read"} /\ d.media = <<>> -> SetSense(e, "nomedia")
          [] cdb.op = "read" /\ d.media # <<>>  ->
               IF cdb.n = 0 THEN e ELSE ReadBlocks(e, cdb, hostOk)
          [] cdb.op = "sense"   -> ClearSense(Filled(e, "in", << e.sense >>))
          [] cdb.op = "inquiry" -> Filled(e, "in", << "cdrom" >>)
          [] (cdb.op = "tur" /\ d.media # <<>>) \/ cdb.op = "control" -> e
          [] OTHER              -> SetSense(e, "opcode")

StatusOf(d) == IF d.err = 1 THEN "check" ELSE "good"

\* hostOk: does the host deliver the blocks of a read?
Phase0(d, cdb, hostOk) ==
    LET e == IF d.type = "disk" THEN DiskCommand(d, cdb, hostOk)
                                ELSE CdromCommand(d, cdb, hostOk)
    IN  [ e EXCEPT !.status = StatusOf(e) ]

\* The buffer goes to the image; taken is how many blocks of it the host takes.
Commit(d, taken) ==
    LET e == [ d EXCEPT !.media =
                 [ b \in DOMAIN @ |->
                     IF b > d.pendAt /\ b <= d.pendAt + d.pendN /\ b <= d.pendAt + taken
                     THEN d.buf[b - d.pendAt] ELSE @[b] ] ]
    IN  IF taken < d.pendN THEN SetSense(e, "medium") ELSE e

Phase1(d, taken) ==
    LET e == IF d.phase = "out" /\ d.type = "disk" THEN Commit(d, taken) ELSE d
    IN  [ e EXCEPT !.status = StatusOf(e) ]

\* The host puts another disc into the drive, or takes it out (<<>>): the
\* target is made anew, whatever it was doing.
AttachDisc(media) == Target("cdrom", media, FALSE)

-----------------------------------------------------------------------------
(***************************************************************************)
(* The BusLogic BT-545S (scsi/buslogic.c) with the mailboxes and command   *)
(* blocks it finds in guest memory and the targets of its bus.  Operators  *)
(* on one record s: port accesses, and the calls of the two timers.        *)
(*                                                                         *)
(* A request passes five phases (callback_sub_phase), one per call of the  *)
(* mail timer: 0 look for mail, 1 command, 2 data, 3 sense, 4 answer.  The *)
(* two mailbox formats differ in layout only, and a scatter-gather list    *)
(* moves the bytes of its segments in order, as one buffer would.          *)
(***************************************************************************)

CONSTANTS
  Boxes,       \* number of out boxes, and of in boxes, in guest memory
  Ccbs,        \* addresses of command control blocks
  BiosRequests \* requests that BIOSCMD can carry, as a sequence

ASSUME BoxesAssumption == Boxes \in Nat \ {0}

Box == 0 .. Boxes - 1
Id  == 0 .. 7  \* targets on the bus

\* Commands (port 1): those that differ in what they do to the adapter.
\* INQUIRY stands for all that only answer.
NOP == 0        MBINIT == 1    START == 2      BIOSCMD == 3   INQUIRY == 4
EMBOI == 5      RESET == 32    OPTIONS == 33   SETIRQ == 37   ROBIN == 143
None == 255

ParamLen(command) ==
    CASE command = MBINIT  -> 4
      [] command = BIOSCMD -> 10
      [] command \in {EMBOI, OPTIONS, SETIRQ, ROBIN} -> 1
      [] OTHER -> 0

EmptyBox  == [ code |-> "free", ccb |-> 0 ]
EmptyBoxes == [ k \in Box |-> EmptyBox ]

\* A command control block: what the guest writes, and (mem) what the
\* adapter writes back, with the buffer of the request.
NoCommand == [ opcode |-> "scsi", target |-> 0, lun |-> 0, ctrl |-> 0, len |-> 0,
               auto |-> FALSE, cdb |-> [ op |-> "tur", at |-> 0, n |-> 0 ] ]
Memory(data) == [ data |-> data, sense |-> "none", residue |-> 0,
                  host |-> "none", target |-> "none" ]
NoRequest == [ ccb |-> 0, block |-> NoCommand, host |-> "none", target |-> "good",
               code |-> "free" ]

-----------------------------------------------------------------------------
(* Interrupts                                                              *)

Mail == {"MBIF", "MBOA"}

RaiseIrq(s, suppress, bits) ==
    LET parked == bits \cap Mail # {} /\ "HACC" \in s.interrupt
        taken  == IF parked \/ (bits \cap Mail = {} /\ "HACC" \notin bits)
                  THEN {} ELSE bits
    IN  [ s EXCEPT !.interrupt = @ \cup taken \cup {"ANY"},
                   !.pending   = IF parked THEN @ \cup bits ELSE @,
                   !.irr       = IF s.irqEnabled = 1 /\ ~suppress THEN 1 ELSE @ ]

ClearIrq(s) ==
    LET e == [ s EXCEPT !.interrupt = {}, !.pending = {}, !.irr = 0 ]
    IN  IF s.pending = {} THEN e ELSE RaiseIrq(e, FALSE, s.pending)

ScheduleMail(s) == [ s EXCEPT !.mailTimer = 1 ]

ResetBus(s) == [ s EXCEPT !.dev = [ i \in Id |-> ResetTarget(@[i]) ] ]

\* Whether the mailboxes were set up, where they are and how they are
\* searched survives; their number does not.
Reset(s) ==
    LET e == ResetBus(ClearIrq(s))
    IN  [ e EXCEPT !.status = {"STST"}, !.command = None, !.param = 0, !.paramLeft = 0,
                   !.replyLeft = 0, !.outInts = 0, !.pending = {}, !.inPos = 0,
                   !.outPos = 0, !.count = 0, !.reqs = 0, !.irqEnabled = 1,
                   !.targetLen = 0, !.toRaise = {}, !.phase = 0, !.outgoing = 0,
                   !.mailTimer = 0, !.resetTimer = 1 ]

\* The init function ends with a reset.
AtStart(targets) ==
    Reset([ status |-> {}, command |-> None, param |-> 0, paramLeft |-> 0, arg |-> 0,
            replyLeft |-> 0, mbInit |-> FALSE, count |-> 0, outInts |-> 0, robin |-> 1,
            irqEnabled |-> 0, interrupt |-> {}, pending |-> {}, toRaise |-> {},
            inPos |-> 0, outPos |-> 0, reqs |-> 0, phase |-> 0, outgoing |-> 0,
            req |-> NoRequest, scsiPhase |-> "out", targetLen |-> 0, mailTimer |-> 0,
            resetTimer |-> 0, irr |-> 0, out |-> EmptyBoxes, in |-> EmptyBoxes,
            ccb |-> [ c \in Ccbs |-> NoCommand ],
            mem |-> [ c \in Ccbs |-> Memory(<<>>) ],
            dev |-> [ i \in Id |-> IF i \in DOMAIN targets THEN targets[i]
                                   ELSE NoTarget ] ])

\* Mutant: adds to what the reset left in the status instead of replacing it
ResetTimerAdds(s) ==
    [ s EXCEPT !.resetTimer = 0, !.status = s.status \cup {"INIT", "IDLE"} ]

ResetTimer(s) == [ s EXCEPT !.resetTimer = 0, !.status = {"INIT", "IDLE"} ]

-----------------------------------------------------------------------------
(* A request                                                               *)

MbiSetup(s, host, target, code) ==
    [ s EXCEPT !.req.host = host, !.req.target = target, !.req.code = code,
               !.phase = 4 ]

ReadReq(s, c) == [ s EXCEPT !.req = [ NoRequest EXCEPT !.ccb = c, !.block = s.ccb[c] ] ]

ReqSetup(s, c) ==
    LET b == s.ccb[c]
        e == [ ReadReq(s, c) EXCEPT !.targetLen = 0, !.scsiPhase = "status" ]
        selected == b.lun = 0 /\ Present(s.dev[b.target])
    IN  CASE ~selected -> MbiSetup(e, "timeout", "good", "error")
          [] selected /\ b.opcode = "reset" ->
               MbiSetup([ e EXCEPT !.dev[b.target] = ResetTarget(@) ],
                        "complete", "good", "success")
          [] selected /\ b.opcode = "invalid" -> MbiSetup(e, "badopcode", "good", "error")
          [] OTHER -> [ e EXCEPT !.phase = 1 ]

\* What is found in an out box
ProcessMbo(s, k) ==
    LET e == [ s EXCEPT !.toRaise = {}, !.outgoing = k + 1 ]
        c == s.out[k].ccb
    IN  CASE s.out[k].code = "start" -> ReqSetup(e, c)
          [] s.out[k].code = "abort" -> MbiSetup(ReadReq(e, c), "aborted", "good", "notfound")
          [] OTHER -> e

HasMail(s, k) == s.out[k].code \in {"start", "abort"}

Counted(s, found) == IF found /\ s.reqs > 0 THEN [ s EXCEPT !.reqs = @ - 1 ] ELSE s

\* Either the first box with mail, or none but the one that is next
SearchAll(s) ==
    LET full == { k \in 0 .. s.count - 1 : HasMail(s, k) }
        k    == IF full = {} THEN s.count - 1
                ELSE CHOOSE i \in full : \A j \in full : i <= j
    IN  Counted([ ProcessMbo(s, k) EXCEPT !.outPos = k ], full # {})

LookAtNext(s) ==
    LET found == HasMail(s, s.outPos)
        e     == Counted(ProcessMbo(s, s.outPos), found)
    IN  IF found THEN [ e EXCEPT !.outPos = (@ + 1) % s.count ] ELSE e

ProcessMail(s) ==
    IF "INIT" \in s.status \/ ~s.mbInit \/ s.count = 0 \/ s.reqs = 0 THEN s
    ELSE IF s.robin = 1 THEN SearchAll(s) ELSE LookAtNext(s)

Current(s) == s.dev[s.req.block.target]

ScsiCmd(s, hostOk) ==
    LET b   == s.req.block
        len == IF b.ctrl = 3 THEN 0 ELSE b.len
        d   == Phase0([ Current(s) EXCEPT !.len = len ], b.cdb, hostOk)
    IN  [ s EXCEPT !.targetLen = len, !.dev[b.target] = d, !.scsiPhase = d.phase,
                   !.phase = IF d.phase = "status" THEN 3 ELSE 2 ]

\* The guest asks for sense with a command of its own and no data transfer.
AsksSense(s) == s.req.block.cdb.op = "sense" /\ s.req.block.ctrl = 3

Least(a, b) == IF a < b THEN a ELSE b

\* Data moves in the direction the target chose if the block allows it.
BufTransfer(s) ==
    LET b     == s.req.block
        d     == Current(s)
        n     == Least(d.len, b.len)
        moves == b.ctrl # 3 /\ s.targetLen # 0 /\ d.len > 0
        mem   == s.mem[s.req.ccb].data
    IN  CASE moves /\ s.scsiPhase = "out" /\ b.ctrl \in {0, 2} ->
               [ s EXCEPT !.dev[b.target].buf = Over(SubSeq(mem, 1, n), @) ]
          [] moves /\ s.scsiPhase # "out" /\ b.ctrl \in {0, 1} ->
               [ s EXCEPT !.mem[s.req.ccb].data = Over(SubSeq(d.buf, 1, n), @) ]
          [] OTHER -> s

\* Mutant of ScsiCmdPhase1: the target ends the command before the data
\* are there.
ScsiCmdPhase1Early(s, taken) ==
    IF s.scsiPhase = "status" \/ AsksSense(s) THEN [ s EXCEPT !.phase = 3 ]
    ELSE BufTransfer([ s EXCEPT !.phase = 3, !.dev[s.req.block.target] = Phase1(@, taken) ])

ScsiCmdPhase1(s, taken) ==
    IF s.scsiPhase = "status" \/ AsksSense(s) THEN [ s EXCEPT !.phase = 3 ]
    ELSE [ BufTransfer(s) EXCEPT !.phase = 3,
             !.dev[s.req.block.target] = Phase1(BufTransfer(s).dev[s.req.block.target], taken) ]

Residue(s) ==
    IF s.targetLen > 0 /\ s.req.block.ctrl < 3 /\ s.targetLen > Current(s).len
    THEN s.targetLen - Current(s).len ELSE 0

RequestSensePhase(s, taken) ==
    LET b     == s.req.block
        d     == Current(s)
        own   == s.scsiPhase # "status" /\ AsksSense(s)
        tells == d.status # "good" /\ b.auto
        e     == [ s EXCEPT !.dev[b.target] = CASE own -> Phase1(d, taken)
                                                [] ~own /\ tells -> ClearSense(d)
                                                [] OTHER -> d,
                            !.mem[s.req.ccb].sense = IF ~tells THEN @
                                                     ELSE IF own THEN d.buf[1] ELSE d.sense ]
        r     == IF b.opcode # "scsi_res" THEN e
                 ELSE [ e EXCEPT !.mem[s.req.ccb].residue = Residue(e) ]
    IN  IF Current(r).status = "good"
        THEN MbiSetup(r, "complete", "good", "success")
        ELSE MbiSetup(r, "complete", "check", "error")

\* Mutant of WriteMail: the position in the in boxes goes back one answer late.
WriteMailLate(s) ==
    [ s EXCEPT !.out[IF s.outgoing = 0 THEN s.outPos ELSE s.outgoing - 1].code = "free",
               !.in[s.inPos] = [ code |-> s.req.code, ccb |-> s.req.ccb ],
               !.mem[s.req.ccb].host = IF s.req.code = "notfound" THEN @ ELSE s.req.host,
               !.mem[s.req.ccb].target = IF s.req.code = "notfound" THEN @ ELSE s.req.target,
               !.inPos = IF @ + 1 > s.count THEN 0 ELSE @ + 1 ]

\* The out box is freed and the answer put into the next in box, which is
\* not looked at before.
WriteMail(s) ==
    LET q   == s.req
        box == IF s.outgoing = 0 THEN s.outPos ELSE s.outgoing - 1
    IN  [ s EXCEPT !.out[box].code = "free",
                   !.in[s.inPos] = [ code |-> q.code, ccb |-> q.ccb ],
                   !.mem[q.ccb].host = IF q.code = "notfound" THEN @ ELSE q.host,
                   !.mem[q.ccb].target = IF q.code = "notfound" THEN @ ELSE q.target,
                   !.inPos = IF @ + 1 >= s.count THEN 0 ELSE @ + 1 ]

Notify(s) ==
    LET bits == {"MBIF", "ANY"} \cup (IF s.outInts = 1 THEN {"MBOA"} ELSE {})
    IN  RaiseIrq([ WriteMail(s) EXCEPT !.toRaise = bits, !.outgoing = 0, !.phase = 0 ],
                 FALSE, bits)

PhaseDone(s, hostOk, taken) ==
    CASE s.phase = 0 -> ProcessMail(s)
      [] s.phase = 1 -> ScsiCmd(s, hostOk)
      [] s.phase = 2 -> ScsiCmdPhase1(s, taken)
      [] s.phase = 3 -> RequestSensePhase(s, taken)
      [] s.phase = 4 -> Notify(s)

\* Mutant of MailTimer: only a request under way brings the timer back.
MailTimerStops(s, hostOk, taken) ==
    LET e == PhaseDone([ s EXCEPT !.mailTimer = 0 ], hostOk, taken)
    IN  IF e.phase # 0 THEN ScheduleMail(e) ELSE e

MailTimer(s, hostOk, taken) ==
    LET e == PhaseDone([ s EXCEPT !.mailTimer = 0 ], hostOk, taken)
    IN  IF e.phase # 0 \/ e.reqs # 0 THEN ScheduleMail(e) ELSE e

-----------------------------------------------------------------------------
(* Commands                                                                *)

\* A BIOS request runs both phases at once, whatever a request that the
\* mail timer is serving may have begun at that target.
BiosCommand(s, k, hostOk, taken) ==
    IF k \notin DOMAIN BiosRequests \/ ~Present(s.dev[BiosRequests[k].target]) THEN s
    ELSE LET b == BiosRequests[k]
             d == Phase0([ s.dev[b.target] EXCEPT !.len = -1 ],
                         [ op |-> b.op, at |-> b.at, n |-> b.n ], hostOk)
             e == IF d.phase = "out" THEN [ d EXCEPT !.buf = Over(b.data, @) ] ELSE d
         IN  [ s EXCEPT !.dev[b.target] = IF d.phase = "status" THEN d
                                          ELSE Phase1(e, taken) ]

CmdDone(s, suppress) ==
    LET e == RaiseIrq([ s EXCEPT !.status = (@ \cup {"IDLE"}) \ {"DFULL"} ],
                      suppress, {"HACC"})
    IN  [ e EXCEPT !.command = None, !.param = 0, !.paramLeft = 0 ]

Invalid(s) == [ s EXCEPT !.status = @ \cup {"INVCMD"}, !.replyLeft = 0 ]

MbInit(s) ==
    [ s EXCEPT !.mbInit = TRUE, !.count = s.arg, !.status = @ \ {"INIT"},
               !.replyLeft = 0 ]

Executed(s, hostOk, taken) ==
    CASE s.command = NOP     -> [ s EXCEPT !.replyLeft = 0 ]
      [] s.command = MBINIT  -> MbInit(s)
      [] s.command = BIOSCMD ->
           [ BiosCommand(s, s.arg, hostOk, taken) EXCEPT !.replyLeft = 1 ]
      [] s.command = INQUIRY -> [ s EXCEPT !.replyLeft = 4 ]
      [] s.command = EMBOI   -> IF s.arg <= 1
                                THEN [ s EXCEPT !.outInts = s.arg, !.replyLeft = 0 ]
                                ELSE Invalid(s)
      [] s.command = RESET   -> Reset(s)
      [] s.command = OPTIONS ->
           [ s EXCEPT !.paramLeft = IF s.param = 1 THEN s.arg ELSE @, !.replyLeft = 0 ]
      [] s.command = SETIRQ  ->
           [ s EXCEPT !.irqEnabled = IF s.arg = 0 THEN 0 ELSE 1, !.replyLeft = 0 ]
      [] s.command = ROBIN   -> [ s EXCEPT !.robin = s.arg % 2, !.replyLeft = 0 ]
      [] OTHER               -> Invalid(s)

Suppressed(s) == s.command = SETIRQ \/ (s.command = EMBOI /\ s.arg <= 1)

HandleCommand(s, hostOk, taken) ==
    LET e == Executed(s, hostOk, taken)
    IN  CASE e.replyLeft # 0 -> [ e EXCEPT !.status = @ \cup {"DFULL"} ]
          [] e.replyLeft = 0 /\ e.paramLeft = 0 -> CmdDone(e, Suppressed(s))
          [] OTHER -> e

BeginCommand(s, v) ==
    [ s EXCEPT !.command = v, !.param = 0, !.paramLeft = ParamLen(v),
               !.status = @ \ {"INVCMD", "IDLE"} ]

TakeParam(s, v) ==
    [ s EXCEPT !.arg = IF s.param = 0 THEN v ELSE @, !.param = @ + 1,
               !.paramLeft = IF @ > 0 THEN @ - 1 ELSE 0 ]

\* START is a command only between commands, and then it ends at once.
WriteCommand(s, v, hostOk, taken) ==
    IF s.command = None /\ v = START
    THEN ScheduleMail([ s EXCEPT !.reqs = @ + 1 ])
    ELSE LET e == IF s.command = None THEN BeginCommand(s, v) ELSE TakeParam(s, v)
         IN  IF e.paramLeft = 0 THEN HandleCommand(e, hostOk, taken) ELSE e

ReadReply(s) ==
    LET e == [ s EXCEPT !.replyLeft = @ - 1 ]
    IN  CASE s.replyLeft = 0 -> s
          [] s.replyLeft = 1 -> CmdDone(e, FALSE)
          [] OTHER           -> e

\* Port 0: a reset, or of the bus and the interrupt either or both
WriteControl(s, reset, bus, interrupt) ==
    IF reset THEN Reset(s)
    ELSE LET e == IF bus THEN ResetBus(s) ELSE s
         IN  IF interrupt THEN ClearIrq(e) ELSE e

\* Port 2 takes what the guest writes; the interrupt line does not follow.
WriteInterrupt(s, bits) == [ s EXCEPT !.interrupt = bits ]

-----------------------------------------------------------------------------
(***************************************************************************)
(* The BusLogic adapter with its guest and its host.  The guest of a       *)
(* behaviour is one of Guests.  A free one writes to the ports and the     *)
(* mailboxes as it likes.  A driver keeps as many requests under way as    *)
(* there are mailboxes, gives other commands between them, serves the      *)
(* interrupt, collects the answers, and sometimes loses patience, resets   *)
(* the adapter and begins again.                                           *)
(***************************************************************************)

CONSTANTS
  Guests,  \* records with scripts (byte sequences, for a free guest), codes,
           \* ccbs and blocks that it posts, forges (does it write port 2?), jobs
           \* and commands (of a driver), robin, and the bounds maxJobs,
           \* maxCommands and maxResets
  Targets, \* what hangs on the bus: a function from numbers to targets
  Discs    \* discs that the host puts into the drive, <<>> for none

VARIABLES
  guest,   \* the guest of this behaviour
  s,       \* the adapter, its bus and the memory that it uses
  script,  \* bytes that a free guest still has to write
  todo,    \* steps that the driver has begun: see Step
  used,    \* command blocks of requests that it has not seen the end of
  outNext, inNext, \* the boxes that it uses next
  isr,     \* its interrupt handler: "idle", "look", "clear" or "scan"
  seen,    \* what that read of the interrupt register
  command, \* has it seen the end of a command?
  answer,  \* per command block: the last answer
  answered, \* how many answers it has collected
  jobs, commands, resets \* counts for the bounds

requests == << used, outNext, inNext, answer, answered >>
handler  == << isr, seen >>
bounds   == << jobs, commands, resets >>
vars     == << guest, s, script, todo, requests, handler, command, bounds >>

Free == guest.scripts # {}

\* Set up the mailboxes once the adapter is ready, then choose the search.
Boot == << <<"ready">>, <<"out", MBINIT>>, <<"out", Boxes>>, <<"out", 0>>, <<"out", 0>>,
           <<"out", 0>>, <<"done">>, <<"out", ROBIN>>, <<"out", guest.robin>>, <<"done">> >>

Init ==
    /\ guest \in Guests
    /\ s = AtStart(Targets)
    /\ script = <<>> /\ todo = (IF Free THEN <<>> ELSE Boot)
    /\ used = {} /\ outNext = 0 /\ inNext = 0
    /\ isr = "idle" /\ seen = {} /\ command = FALSE
    /\ answer = [ c \in Ccbs |-> [ result |-> "none", data |-> <<>> ] ] /\ answered = 0
    /\ jobs = 0 /\ commands = 0 /\ resets = 0

\* How the host answers: does it deliver blocks, how many does it take?
Host == { <<TRUE, 2>>, <<TRUE, 1>>, <<FALSE, 0>> }

-----------------------------------------------------------------------------
(* A free guest                                                            *)

KeepDriver == UNCHANGED << guest, todo, requests, handler, command >>

\* A command may be left unfinished, but for MBINIT: there is no memory in
\* the model for another number of mailboxes.
BeginScript ==
    /\ Free /\ s.command # MBINIT /\ commands < guest.maxCommands /\ commands' = commands + 1
    /\ script' \in guest.scripts
    /\ UNCHANGED << s, jobs, resets >> /\ KeepDriver

WriteByte ==
    /\ Free /\ script # <<>>
    /\ \E h \in Host : s' = WriteCommand(s, script[1], h[1], h[2])
    /\ script' = Tail(script)
    /\ UNCHANGED bounds /\ KeepDriver

ReadByte == Free /\ s' = ReadReply(s) /\ UNCHANGED << script, bounds >> /\ KeepDriver

\* A mailbox and its command block are written, or an answer is taken out.
Post ==
    /\ Free /\ jobs < guest.maxJobs /\ jobs' = jobs + 1
    /\ \E k \in Box, c \in guest.ccbs, b \in guest.blocks, code \in guest.codes :
         s' = [ s EXCEPT !.out[k] = [ code |-> code, ccb |-> c ], !.ccb[c] = b,
                         !.mem[c] = Memory([ i \in 1 .. b.len |-> "new" ]) ]
    /\ UNCHANGED << script, commands, resets >> /\ KeepDriver

Control ==
    /\ Free /\ resets < guest.maxResets /\ resets' = resets + 1
    /\ \/ \E reset, bus, interrupt \in BOOLEAN :
            s' = WriteControl(s, reset, bus, interrupt)
       \/ guest.forges /\ \E bits \in { {}, {"HACC"} } : s' = WriteInterrupt(s, bits)
    /\ UNCHANGED << script, jobs, commands >> /\ KeepDriver

TakeIrq ==
    /\ Free /\ s.irr = 1 /\ s' = [ s EXCEPT !.irr = 0 ]
    /\ UNCHANGED << script, bounds >> /\ KeepDriver

ChangeDisc ==
    /\ Free /\ resets < guest.maxResets /\ resets' = resets + 1
    /\ \E i \in Id, m \in Discs :
         s.dev[i].type = "cdrom" /\ s' = [ s EXCEPT !.dev[i] = AttachDisc(m) ]
    /\ UNCHANGED << script, jobs, commands >> /\ KeepDriver

-----------------------------------------------------------------------------
(* A driver.  Its handler interrupts it between two steps.                 *)

Resting == ~Free /\ isr = "idle"

\* A request goes into memory; START follows as a step of its own.
Submit ==
    /\ Resting /\ todo = <<>> /\ jobs < guest.maxJobs /\ jobs' = jobs + 1
    /\ s.out[outNext].code = "free"
    /\ \E c \in Ccbs \ used, j \in guest.jobs :
         /\ s' = [ s EXCEPT !.ccb[c] = j.block, !.mem[c] = Memory(j.data),
                            !.out[outNext] = [ code |-> "start", ccb |-> c ] ]
         /\ used' = used \cup {c}
    /\ outNext' = (outNext + 1) % Boxes
    /\ todo' = << <<"out", START>> >>
    /\ UNCHANGED << guest, script, inNext, answer, answered, handler, command,
                    commands, resets >>

GiveCommand ==
    /\ Resting /\ todo = <<>> /\ commands < guest.maxCommands
    /\ commands' = commands + 1 /\ todo' \in guest.commands
    /\ UNCHANGED << guest, s, script, requests, handler, command, jobs, resets >>

Step ==
    /\ Resting /\ todo # <<>> /\ todo' = Tail(todo)
    /\ LET what == todo[1][1]
       IN  \/ what = "ready" /\ s.status = {"INIT", "IDLE"} /\ UNCHANGED << s, command >>
           \/ what = "out" /\ s' = WriteCommand(s, todo[1][2], TRUE, 0) /\ UNCHANGED command
           \/ what = "in"  /\ "DFULL" \in s.status /\ s' = ReadReply(s) /\ UNCHANGED command
           \/ what = "done" /\ command /\ command' = FALSE /\ UNCHANGED s
    /\ UNCHANGED << guest, script, requests, handler, bounds >>

\* The driver has waited long enough for something.
StartOver ==
    /\ Resting /\ resets < guest.maxResets /\ resets' = resets + 1
    /\ s' = [ WriteControl(s, TRUE, FALSE, FALSE) EXCEPT
                !.out = EmptyBoxes, !.in = EmptyBoxes ]
    /\ used' = {} /\ outNext' = 0 /\ inNext' = 0 /\ command' = FALSE /\ todo' = Boot
    /\ UNCHANGED << guest, script, handler, answer, answered, jobs, commands >>

-----------------------------------------------------------------------------
(* Its handler acknowledges the interrupt at the 8259, reads what it is,   *)
(* clears it at the adapter and then empties the in boxes.                 *)

Told(code, host, sense) ==
    CASE code = "success" -> "ok"
      [] code # "success" /\ host # "complete" -> host
      [] OTHER -> sense

EnterHandler == isr = "idle" /\ s.irr = 1 /\ s' = [ s EXCEPT !.irr = 0 ] /\ isr' = "look"
                /\ UNCHANGED << requests, seen, command >>

LookWhat ==
    /\ isr = "look" /\ seen' = s.interrupt
    /\ isr' = IF "ANY" \in s.interrupt THEN "clear" ELSE "idle"
    /\ UNCHANGED << s, requests, command >>

Clear ==
    /\ isr = "clear" /\ s' = WriteControl(s, FALSE, FALSE, TRUE)
    /\ command' = (command \/ "HACC" \in seen)
    /\ isr' = IF "MBIF" \in seen THEN "scan" ELSE "idle"
    /\ UNCHANGED << requests, seen >>

Collect ==
    /\ isr = "scan" /\ s.in[inNext].code # "free"
    /\ LET c == s.in[inNext].ccb
           m == s.mem[c]
       IN  /\ used' = used \ {c}
           /\ answer' = [ answer EXCEPT ![c] =
                            [ result |-> Told(s.in[inNext].code, m.host, m.sense),
                              data   |-> IF s.ccb[c].cdb.op = "read" THEN m.data ELSE <<>> ] ]
    /\ s' = [ s EXCEPT !.in[inNext] = EmptyBox ]
    /\ inNext' = (inNext + 1) % Boxes /\ answered' = answered + 1
    /\ UNCHANGED << outNext, handler, command >>

AllCollected ==
    /\ isr = "scan" /\ s.in[inNext].code = "free" /\ isr' = "idle"
    /\ UNCHANGED << s, requests, seen, command >>

Handler ==
    /\ ~Free
    /\ EnterHandler \/ LookWhat \/ Clear \/ Collect \/ AllCollected
    /\ UNCHANGED << guest, script, todo, bounds >>

-----------------------------------------------------------------------------
(* The timers                                                              *)

KeepGuest == UNCHANGED << guest, script, todo, requests, handler, command, bounds >>

MailTimerFires ==
    /\ s.mailTimer = 1 /\ \E h \in Host : s' = MailTimer(s, h[1], h[2])
    /\ KeepGuest

ResetTimerFires == s.resetTimer = 1 /\ s' = ResetTimer(s) /\ KeepGuest

FreeGuest == BeginScript \/ WriteByte \/ ReadByte \/ Post \/ Control \/ TakeIrq
Driver    == Submit \/ GiveCommand \/ Step \/ StartOver \/ Handler

Next == FreeGuest \/ Driver \/ ChangeDisc \/ MailTimerFires \/ ResetTimerFires

\* The main loop calls the timers that are due, and the guest goes on with
\* what it has begun.
Spec == Init /\ [][Next]_vars /\ WF_vars(Step) /\ WF_vars(Handler)
             /\ WF_vars(MailTimerFires) /\ WF_vars(ResetTimerFires)

-----------------------------------------------------------------------------
(* Properties                                                              *)

Bits == {"ANY", "HACC", "MBOA", "MBIF"}

\* The registers keep to their ranges, the adapter's positions to the
\* mailboxes, and a target to its medium.
TypeOK ==
    /\ s.status \subseteq {"STST", "INIT", "IDLE", "DFULL", "INVCMD"}
    /\ s.interrupt \subseteq Bits /\ s.pending \subseteq Bits
    /\ s.reqs \in 0 .. guest.maxJobs + 5 * guest.maxCommands
    /\ s.phase \in 0 .. 4 /\ s.count \in 0 .. Boxes
    /\ s.inPos \in Box /\ s.outPos \in Box /\ s.outgoing \in 0 .. Boxes
    /\ s.phase # 0 => s.outgoing # 0 /\ s.req.ccb \in Ccbs
    /\ s.replyLeft \in 0 .. 4 /\ (s.replyLeft # 0 => s.command # None)
    /\ \A i \in Id : s.dev[i].phase = "out" /\ Present(s.dev[i]) =>
         s.dev[i].len <= Len(s.dev[i].buf)

\* What the adapter has put off has something that brings it on: work has
\* the mail timer, a mail interrupt behind a command interrupt has that to
\* be cleared, a reset has its timer; and none of these runs for nothing.
PutOffGoesOn ==
    /\ s.mailTimer = 1 <=> s.phase # 0 \/ s.reqs # 0
    /\ "STST" \in s.status <=> s.resetTimer = 1
    /\ s.pending # {} /\ ~guest.forges => "HACC" \in s.interrupt

\* The disk as a driver sees it (BlockStore): a request takes effect when
\* its data have moved or its failure is known.
Busy(c) == s.phase # 0 /\ s.req.ccb = c

Answered(c) == \E k \in Box : s.in[k].code # "free" /\ s.in[k].ccb = c

RequestOf(b, data) ==
    [ op   |-> IF b.target \notin DOMAIN Targets THEN "timeout"
               ELSE IF b.cdb.op \in {"read", "write"} THEN b.cdb.op ELSE "opcode",
      at   |-> b.cdb.at, n |-> b.cdb.n,
      data |-> IF b.cdb.op = "write" THEN data ELSE <<>> ]

Outcome(c) ==
    CASE Answered(c) ->
           Told((CHOOSE m \in { s.in[k] : k \in Box } : m.code # "free" /\ m.ccb = c).code,
                s.mem[c].host, s.mem[c].sense)
      [] ~Answered(c) /\ s.phase = 4 -> Told(s.req.code, s.req.host, s.mem[c].sense)
      [] OTHER -> IF Current(s).status = "good" THEN "ok" ELSE Current(s).sense

CallOf(c) ==
    LET r == RequestOf(s.ccb[c], s.mem[c].data)
    IN  CASE c \notin used -> [ st |-> "idle" ]
          [] c \in used /\ (Answered(c) \/ (Busy(c) /\ s.phase \in {3, 4})) ->
               [ st |-> "performed", req |-> r, result |-> Outcome(c),
                 data |-> IF r.op = "read" THEN s.mem[c].data ELSE <<>> ]
          [] OTHER -> [ st |-> "asked", req |-> r ]

Store == INSTANCE BlockStore WITH
    Ids        <- Ccbs,
    Block      <- {"a", "b", "w", "x"},
    Requests   <- UNION { { RequestOf(j.block, j.data) : j \in g.jobs } : g \in Guests },
    blocks     <- IF Free THEN <<>> ELSE s.dev[0].media,
    call       <- [ c \in Ccbs |-> CallOf(c) ],
    answer     <- answer,
    answered   <- answered

\* Whatever mail, commands, interrupts and resets overlap, a driver's
\* requests are those of a block store.
ImplementsStore == Store!Spec
=============================================================================
