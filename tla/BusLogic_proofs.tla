--------------------------- MODULE BusLogic_proofs ---------------------------
(***************************************************************************)
(* Proofs about the BusLogic adapter, for any number of mailboxes, any     *)
(* command blocks, targets, discs and guests: whatever it has put off has  *)
(* something that brings it on.                                            *)
(*                                                                         *)
(* The property relates six fields of the adapter, and it is inductive     *)
(* once these have their types.  One lemma per operator of the model says  *)
(* what it does to the six: most leave all of them alone (Quiet), those    *)
(* that raise or clear the interrupt only move Announced (Keeps), and a    *)
(* request under way moves its phase alone (Advances).                     *)
(***************************************************************************)
EXTENDS BusLogic, TLAPS

Solid(x) == {"status", "interrupt", "pending", "reqs", "phase", "mailTimer",
             "resetTimer"} \subseteq DOMAIN x

\* Neither the work put off nor what brings it on has changed.
Unmoved(e, x) ==
    /\ DOMAIN e = DOMAIN x
    /\ e.mailTimer = x.mailTimer /\ e.resetTimer = x.resetTimer
    /\ e.reqs = x.reqs /\ e.phase = x.phase
    /\ "STST" \in e.status <=> "STST" \in x.status

Announced(x) == x.pending # {} => "HACC" \in x.interrupt

Quiet(e, x) == Unmoved(e, x) /\ e.interrupt = x.interrupt /\ e.pending = x.pending
Keeps(e, x) == Unmoved(e, x) /\ (Announced(x) => Announced(e))

\* A request goes on, and the timer that called it is left to the caller.
Advances(e, x) ==
    /\ DOMAIN e = DOMAIN x
    /\ e.mailTimer = x.mailTimer /\ e.resetTimer = x.resetTimer
    /\ "STST" \in e.status <=> "STST" \in x.status
    /\ e.reqs \in Nat /\ e.phase \in 0 .. 4
    /\ Announced(x) => Announced(e)

Timed(x) ==
    /\ Solid(x)
    /\ x.reqs \in Nat /\ x.phase \in 0 .. 4
    /\ x.mailTimer \in {0, 1} /\ x.resetTimer \in {0, 1}

Sound(x) ==
    /\ Timed(x)
    /\ x.mailTimer = 1 <=> x.phase # 0 \/ x.reqs # 0
    /\ "STST" \in x.status <=> x.resetTimer = 1

Inv == Sound(s) /\ (~guest.forges => Announced(s))

-----------------------------------------------------------------------------
(* Interrupts and resets                                                   *)

LEMMA QuietKeeps ==
  ASSUME NEW e, NEW x, Quiet(e, x)
  PROVE  Keeps(e, x)
  BY DEF Quiet, Keeps, Announced

LEMMA QuietTwice ==
  ASSUME NEW e, NEW f, NEW x, Quiet(e, f), Quiet(f, x)
  PROVE  Quiet(e, x)
  BY DEF Quiet, Unmoved

LEMMA KeepsTwice ==
  ASSUME NEW e, NEW f, NEW x, Keeps(e, f), Keeps(f, x)
  PROVE  Keeps(e, x)
  BY DEF Keeps, Unmoved

\* A step that keeps the work and the timers keeps their agreement.
LEMMA KeepsSound ==
  ASSUME NEW e, NEW x, Sound(x), Keeps(e, x)
  PROVE  Sound(e)
  BY DEF Keeps, Unmoved, Sound, Timed, Solid

LEMMA QuietSolid ==
  ASSUME NEW e, NEW x, Solid(x), Unmoved(e, x)
  PROVE  Solid(e)
  BY DEF Unmoved, Solid

\* A mail interrupt is put off only behind a command interrupt that shows.
LEMMA RaiseKeeps ==
  ASSUME NEW x, NEW suppress, NEW bits, Solid(x)
  PROVE  Keeps(RaiseIrq(x, suppress, bits), x)
  <1> DEFINE parked == bits \cap Mail # {} /\ "HACC" \in x.interrupt
             taken  == IF parked \/ (bits \cap Mail = {} /\ "HACC" \notin bits)
                       THEN {} ELSE bits
             e      == RaiseIrq(x, suppress, bits)
  <1>1. e = [ x EXCEPT !.interrupt = x.interrupt \cup taken \cup {"ANY"},
                       !.pending   = IF parked THEN x.pending \cup bits ELSE x.pending,
                       !.irr       = IF x.irqEnabled = 1 /\ ~suppress THEN 1 ELSE x.irr ]
    BY DEF RaiseIrq
  <1>2. Unmoved(e, x)
    BY <1>1 DEF Unmoved, Solid
  <1>3. /\ e.interrupt = x.interrupt \cup taken \cup {"ANY"}
        /\ e.pending = IF parked THEN x.pending \cup bits ELSE x.pending
    BY <1>1 DEF Solid
  <1>4. Announced(x) => Announced(e)
    <2> SUFFICES ASSUME Announced(x), e.pending # {} PROVE "HACC" \in e.interrupt
      BY DEF Announced
    <2>1. CASE parked
      BY <1>3, <2>1
    <2>2. CASE ~parked
      BY <1>3, <2>2 DEF Announced
    <2> QED BY <2>1, <2>2
  <1> QED BY <1>2, <1>4 DEF Keeps

\* What was put off shows when the interrupt is cleared.
LEMMA ClearKeeps ==
  ASSUME NEW x, Solid(x)
  PROVE  Keeps(ClearIrq(x), x)
  <1> DEFINE e == [ x EXCEPT !.interrupt = {}, !.pending = {}, !.irr = 0 ]
  <1>1. Unmoved(e, x) /\ e.pending = {}
    BY DEF Unmoved, Solid
  <1>2. Keeps(e, x)
    BY <1>1 DEF Keeps, Announced
  <1>3. Keeps(RaiseIrq(e, FALSE, x.pending), e)
    <2> HIDE DEF e
    <2> QED BY <1>1, QuietSolid, RaiseKeeps
  <1>4. ClearIrq(x) = IF x.pending = {} THEN e ELSE RaiseIrq(e, FALSE, x.pending)
    BY DEF ClearIrq
  <1> HIDE DEF e
  <1> QED BY <1>2, <1>3, <1>4, KeepsTwice

LEMMA ResetBusQuiet ==
  ASSUME NEW x, Solid(x)
  PROVE  Quiet(ResetBus(x), x)
  BY DEF ResetBus, Quiet, Unmoved, Solid

\* A reset forgets the work with its timer and starts the reset timer.
LEMMA ResetSound ==
  ASSUME NEW x, Solid(x)
  PROVE  Sound(Reset(x)) /\ Announced(Reset(x))
  <1> DEFINE c == ClearIrq(x)
             e == ResetBus(c)
  <1>1. Solid(c)
    BY ClearKeeps, QuietSolid DEF Keeps
  <1>2. Solid(e)
    <2> HIDE DEF c
    <2> QED BY <1>1, ResetBusQuiet, QuietSolid DEF Quiet
  <1>3. Reset(x) = [ e EXCEPT !.status = {"STST"}, !.command = None, !.param = 0,
                     !.paramLeft = 0, !.replyLeft = 0, !.outInts = 0, !.pending = {},
                     !.inPos = 0, !.outPos = 0, !.count = 0, !.reqs = 0,
                     !.irqEnabled = 1, !.targetLen = 0, !.toRaise = {}, !.phase = 0,
                     !.outgoing = 0, !.mailTimer = 0, !.resetTimer = 1 ]
    BY DEF Reset
  <1> HIDE DEF c, e
  <1>4. /\ DOMAIN Reset(x) = DOMAIN e
        /\ Reset(x).status = {"STST"} /\ Reset(x).pending = {} /\ Reset(x).reqs = 0
        /\ Reset(x).phase = 0 /\ Reset(x).mailTimer = 0 /\ Reset(x).resetTimer = 1
    BY <1>2, <1>3 DEF Solid
  <1> QED BY <1>2, <1>4 DEF Sound, Timed, Solid, Announced

LEMMA ResetTimerSound ==
  ASSUME NEW x, Sound(x)
  PROVE  Sound(ResetTimer(x)) /\ (Announced(x) => Announced(ResetTimer(x)))
  <1> DEFINE e == ResetTimer(x)
  <1>1. /\ DOMAIN e = DOMAIN x /\ e.status = {"INIT", "IDLE"} /\ e.resetTimer = 0
        /\ e.interrupt = x.interrupt /\ e.pending = x.pending /\ e.reqs = x.reqs
        /\ e.phase = x.phase /\ e.mailTimer = x.mailTimer
    BY DEF ResetTimer, Sound, Timed, Solid
  <1> HIDE DEF e
  <1>2. Sound(e)
    BY <1>1 DEF Sound, Timed, Solid
  <1>3. Announced(x) => Announced(e)
    BY <1>1 DEF Announced
  <1> QED BY <1>2, <1>3 DEF e

-----------------------------------------------------------------------------
(* A request                                                               *)

LEMMA AdvancesTwice ==
  ASSUME NEW e, NEW f, NEW x, Advances(e, f), Advances(f, x)
  PROVE  Advances(e, x)
  BY DEF Advances

LEMMA QuietAdvances ==
  ASSUME NEW e, NEW x, Timed(x), Quiet(e, x)
  PROVE  Advances(e, x) /\ Timed(e)
  BY DEF Advances, Quiet, Unmoved, Announced, Timed, Solid

LEMMA AdvancesTimed ==
  ASSUME NEW e, NEW x, Timed(x), Advances(e, x)
  PROVE  Timed(e)
  BY DEF Advances, Timed, Solid

LEMMA MbiAdvances ==
  ASSUME NEW x, NEW host, NEW target, NEW code, Timed(x)
  PROVE  Advances(MbiSetup(x, host, target, code), x)
  <1> DEFINE e == MbiSetup(x, host, target, code)
  <1>1. /\ DOMAIN e = DOMAIN x /\ e.phase = 4 /\ e.reqs = x.reqs
        /\ e.status = x.status /\ e.interrupt = x.interrupt /\ e.pending = x.pending
        /\ e.mailTimer = x.mailTimer /\ e.resetTimer = x.resetTimer
    BY DEF MbiSetup, Timed, Solid
  <1> HIDE DEF e
  <1>2. Advances(e, x)
    BY <1>1 DEF Advances, Announced, Timed
  <1> QED BY <1>2 DEF e

LEMMA ReadQuiet ==
  ASSUME NEW x, NEW c, Solid(x)
  PROVE  Quiet(ReadReq(x, c), x)
  BY DEF ReadReq, Quiet, Unmoved, Solid

LEMMA SetupAdvances ==
  ASSUME NEW x, NEW c, Timed(x)
  PROVE  Advances(ReqSetup(x, c), x)
  <1> DEFINE b == x.ccb[c]
             r == ReadReq(x, c)
             e == [ r EXCEPT !.targetLen = 0, !.scsiPhase = "status" ]
             selected == b.lun = 0 /\ Present(x.dev[b.target])
             d == [ e EXCEPT !.dev[b.target] = ResetTarget(@) ]
             f == [ e EXCEPT !.phase = 1 ]
  <1>1. Timed(r) /\ Quiet(r, x)
    BY ReadQuiet, QuietAdvances DEF Timed
  <1>2. ReqSetup(x, c) =
          CASE ~selected -> MbiSetup(e, "timeout", "good", "error")
            [] selected /\ b.opcode = "reset" -> MbiSetup(d, "complete", "good", "success")
            [] selected /\ b.opcode = "invalid" -> MbiSetup(e, "badopcode", "good", "error")
            [] OTHER -> f
    BY DEF ReqSetup
  <1> HIDE DEF r, b, selected
  <1>3. Quiet(e, r)
    BY <1>1 DEF Quiet, Unmoved, Timed, Solid
  <1>4. Quiet(e, x)
    <2> HIDE DEF e
    <2> QED BY <1>1, <1>3, QuietTwice
  <1> HIDE DEF e
  <1>5. Timed(e) /\ Advances(e, x)
    BY <1>4, QuietAdvances
  <1>6. Quiet(d, e)
    BY <1>5 DEF Quiet, Unmoved, Timed, Solid
  <1>7. Advances(f, e)
    <2>1. /\ DOMAIN f = DOMAIN e /\ f.phase = 1 /\ f.reqs = e.reqs
          /\ f.status = e.status /\ f.interrupt = e.interrupt /\ f.pending = e.pending
          /\ f.mailTimer = e.mailTimer /\ f.resetTimer = e.resetTimer
      BY <1>5 DEF Timed, Solid
    <2> HIDE DEF f
    <2> QED BY <1>5, <2>1 DEF Advances, Announced, Timed
  <1> HIDE DEF d, f
  <1>8. Timed(d) /\ Advances(d, e)
    BY <1>5, <1>6, QuietAdvances
  <1>9. /\ Advances(MbiSetup(e, "timeout", "good", "error"), e)
        /\ Advances(MbiSetup(e, "badopcode", "good", "error"), e)
        /\ Advances(MbiSetup(d, "complete", "good", "success"), d)
    BY <1>5, <1>8, MbiAdvances
  <1>10. Advances(MbiSetup(d, "complete", "good", "success"), e)
    BY <1>8, <1>9, AdvancesTwice
  <1>11. Advances(ReqSetup(x, c), e)
    BY <1>2, <1>7, <1>9, <1>10
  <1> QED BY <1>5, <1>11, AdvancesTwice

LEMMA MboAdvances ==
  ASSUME NEW x, NEW k, Timed(x)
  PROVE  Advances(ProcessMbo(x, k), x)
  <1> DEFINE e == [ x EXCEPT !.toRaise = {}, !.outgoing = k + 1 ]
             c == x.out[k].ccb
             r == ReadReq(e, c)
  <1>1. ProcessMbo(x, k) =
          CASE x.out[k].code = "start" -> ReqSetup(e, c)
            [] x.out[k].code = "abort" -> MbiSetup(r, "aborted", "good", "notfound")
            [] OTHER -> e
    BY DEF ProcessMbo
  <1>2. Quiet(e, x)
    BY DEF Quiet, Unmoved, Timed, Solid
  <1> HIDE DEF e, c
  <1>3. Timed(e) /\ Advances(e, x)
    BY <1>2, QuietAdvances
  <1>4. Quiet(r, e)
    BY <1>3, ReadQuiet DEF Timed
  <1> HIDE DEF r
  <1>5. Timed(r) /\ Advances(r, e)
    BY <1>3, <1>4, QuietAdvances
  <1>6. Advances(MbiSetup(r, "aborted", "good", "notfound"), e)
    BY <1>5, MbiAdvances, AdvancesTwice
  <1>7. Advances(ReqSetup(e, c), e)
    BY <1>3, SetupAdvances
  <1>8. Advances(ReqSetup(e, c), x) /\ Advances(MbiSetup(r, "aborted", "good", "notfound"), x)
    BY <1>3, <1>6, <1>7, AdvancesTwice
  <1> QED BY <1>1, <1>3, <1>8

LEMMA CountedAdvances ==
  ASSUME NEW x, NEW found, Timed(x)
  PROVE  Advances(Counted(x, found), x)
  <1>1. CASE found /\ x.reqs > 0
    <2> DEFINE e == [ x EXCEPT !.reqs = @ - 1 ]
    <2>1. /\ DOMAIN e = DOMAIN x /\ e.phase = x.phase /\ e.reqs = x.reqs - 1
          /\ e.status = x.status /\ e.interrupt = x.interrupt /\ e.pending = x.pending
          /\ e.mailTimer = x.mailTimer /\ e.resetTimer = x.resetTimer
      BY DEF Timed, Solid
    <2>2. Counted(x, found) = e
      BY <1>1 DEF Counted
    <2> HIDE DEF e
    <2>3. e.reqs \in Nat /\ e.phase \in 0 .. 4
      BY <1>1, <2>1 DEF Timed
    <2> QED BY <2>1, <2>2, <2>3 DEF Advances, Announced
  <1>2. CASE ~(found /\ x.reqs > 0)
    <2>1. Counted(x, found) = x
      BY <1>2 DEF Counted
    <2> QED BY <2>1 DEF Advances, Timed
  <1> QED BY <1>1, <1>2

\* Moving on to another box
LEMMA PositionQuiet ==
  ASSUME NEW x, NEW k, Timed(x)
  PROVE  Quiet([ x EXCEPT !.outPos = k ], x)
  BY DEF Quiet, Unmoved, Timed, Solid

LEMMA MailAdvances ==
  ASSUME NEW x, Timed(x)
  PROVE  Advances(ProcessMail(x), x)
  <1>1. Advances(SearchAll(x), x)
    <2> DEFINE full == { k \in 0 .. x.count - 1 : HasMail(x, k) }
               k    == IF full = {} THEN x.count - 1
                       ELSE CHOOSE i \in full : \A j \in full : i <= j
               m    == ProcessMbo(x, k)
               e    == [ m EXCEPT !.outPos = k ]
    <2>1. SearchAll(x) = Counted(e, full # {})
      BY DEF SearchAll
    <2> HIDE DEF k, full
    <2>2. Advances(m, x) /\ Timed(m)
      BY MboAdvances, AdvancesTimed
    <2> HIDE DEF m
    <2>3. Advances(e, m) /\ Timed(e)
      BY <2>2, PositionQuiet, QuietAdvances
    <2> HIDE DEF e
    <2>4. Advances(Counted(e, full # {}), e)
      BY <2>3, CountedAdvances
    <2>5. Advances(Counted(e, full # {}), m)
      BY <2>3, <2>4, AdvancesTwice
    <2> QED BY <2>1, <2>2, <2>5, AdvancesTwice
  <1>2. Advances(LookAtNext(x), x)
    <2> DEFINE found == HasMail(x, x.outPos)
               m     == ProcessMbo(x, x.outPos)
               e     == Counted(m, found)
               next  == (e.outPos + 1) % x.count
               f     == [ e EXCEPT !.outPos = next ]
    <2>1. LookAtNext(x) = IF found THEN f ELSE e
      BY DEF LookAtNext
    <2>2. Advances(m, x) /\ Timed(m)
      BY MboAdvances, AdvancesTimed
    <2> HIDE DEF m, found
    <2>3. Advances(e, m) /\ Timed(e)
      BY <2>2, CountedAdvances, AdvancesTimed
    <2> HIDE DEF e, next
    <2>4. Advances(f, e)
      BY <2>3, PositionQuiet, QuietAdvances
    <2> HIDE DEF f
    <2>5. Advances(e, x)
      BY <2>2, <2>3, AdvancesTwice
    <2> QED BY <2>1, <2>4, <2>5, AdvancesTwice
  <1>3. Advances(x, x)
    BY DEF Advances, Timed
  <1> QED BY <1>1, <1>2, <1>3 DEF ProcessMail

\* A step of a request that leaves all but its phase alone
LEMMA PhaseAdvances ==
  ASSUME NEW x, NEW e, NEW p \in 0 .. 4, Timed(x),
         DOMAIN e = DOMAIN x, e.phase = p, e.reqs = x.reqs,
         e.status = x.status, e.interrupt = x.interrupt, e.pending = x.pending,
         e.mailTimer = x.mailTimer, e.resetTimer = x.resetTimer
  PROVE  Advances(e, x)
  BY DEF Advances, Announced, Timed

LEMMA CommandAdvances ==
  ASSUME NEW x, NEW hostOk, Timed(x)
  PROVE  Advances(ScsiCmd(x, hostOk), x)
  <1> DEFINE b   == x.req.block
             len == IF b.ctrl = 3 THEN 0 ELSE b.len
             d   == Phase0([ Current(x) EXCEPT !.len = len ], b.cdb, hostOk)
             p   == IF d.phase = "status" THEN 3 ELSE 2
             e   == ScsiCmd(x, hostOk)
  <1>1. e = [ x EXCEPT !.targetLen = len, !.dev[b.target] = d, !.scsiPhase = d.phase,
                       !.phase = p ]
    BY DEF ScsiCmd
  <1>2. p \in 0 .. 4
    OBVIOUS
  <1> HIDE DEF e, p, d, len, b
  <1>3. /\ DOMAIN e = DOMAIN x /\ e.phase = p /\ e.reqs = x.reqs
        /\ e.status = x.status /\ e.interrupt = x.interrupt /\ e.pending = x.pending
        /\ e.mailTimer = x.mailTimer /\ e.resetTimer = x.resetTimer
    BY <1>1 DEF Timed, Solid
  <1>4. Advances(e, x)
    BY <1>2, <1>3, PhaseAdvances
  <1> QED BY <1>4 DEF e

LEMMA TransferQuiet ==
  ASSUME NEW x, Timed(x)
  PROVE  Quiet(BufTransfer(x), x)
  <1> DEFINE b     == x.req.block
             d     == Current(x)
             n     == Least(d.len, b.len)
             moves == b.ctrl # 3 /\ x.targetLen # 0 /\ d.len > 0
             mem   == x.mem[x.req.ccb].data
             out   == moves /\ x.scsiPhase = "out" /\ b.ctrl \in {0, 2}
             in    == moves /\ x.scsiPhase # "out" /\ b.ctrl \in {0, 1}
             e     == [ x EXCEPT !.dev[b.target].buf = Over(SubSeq(mem, 1, n), @) ]
             f     == [ x EXCEPT !.mem[x.req.ccb].data = Over(SubSeq(d.buf, 1, n), @) ]
  <1>1. BufTransfer(x) = CASE out -> e [] in -> f [] OTHER -> x
    BY DEF BufTransfer
  <1> HIDE DEF b, d, n, mem, out, in
  <1>2. Quiet(e, x) /\ Quiet(f, x) /\ Quiet(x, x)
    BY DEF Quiet, Unmoved, Timed, Solid
  <1> HIDE DEF e, f
  <1>3. ~(out /\ in)
    BY DEF out, in
  <1> QED BY <1>1, <1>2, <1>3

LEMMA Phase1Advances ==
  ASSUME NEW x, NEW taken, Timed(x)
  PROVE  Advances(ScsiCmdPhase1(x, taken), x)
  <1> DEFINE t == BufTransfer(x)
             d == Phase1(t.dev[x.req.block.target], taken)
             e == [ x EXCEPT !.phase = 3 ]
             f == [ t EXCEPT !.phase = 3,
                      !.dev[x.req.block.target] = Phase1(t.dev[x.req.block.target], taken) ]
  <1>1. ScsiCmdPhase1(x, taken) =
          IF x.scsiPhase = "status" \/ AsksSense(x) THEN e ELSE f
    BY DEF ScsiCmdPhase1
  <1>2. Quiet(t, x)
    BY TransferQuiet
  <1> HIDE DEF t
  <1>3. Timed(t) /\ Advances(t, x)
    BY <1>2, QuietAdvances
  <1>4. Advances(e, x)
    <2>1. /\ DOMAIN e = DOMAIN x /\ e.phase = 3 /\ e.reqs = x.reqs
          /\ e.status = x.status /\ e.interrupt = x.interrupt /\ e.pending = x.pending
          /\ e.mailTimer = x.mailTimer /\ e.resetTimer = x.resetTimer
      BY DEF Timed, Solid
    <2> HIDE DEF e
    <2> QED BY <2>1, PhaseAdvances
  <1>5. Advances(f, t)
    <2>1. /\ DOMAIN f = DOMAIN t /\ f.phase = 3 /\ f.reqs = t.reqs
          /\ f.status = t.status /\ f.interrupt = t.interrupt /\ f.pending = t.pending
          /\ f.mailTimer = t.mailTimer /\ f.resetTimer = t.resetTimer
      BY <1>3 DEF Timed, Solid
    <2> HIDE DEF f
    <2> QED BY <1>3, <2>1, PhaseAdvances
  <1> HIDE DEF e, f
  <1> QED BY <1>1, <1>3, <1>4, <1>5, AdvancesTwice

LEMMA SenseAdvances ==
  ASSUME NEW x, NEW taken, Timed(x)
  PROVE  Advances(RequestSensePhase(x, taken), x)
  <1> DEFINE b     == x.req.block
             d     == Current(x)
             own   == x.scsiPhase # "status" /\ AsksSense(x)
             tells == d.status # "good" /\ b.auto
             e     == [ x EXCEPT !.dev[b.target] = CASE own -> Phase1(d, taken)
                                                     [] ~own /\ tells -> ClearSense(d)
                                                     [] OTHER -> d,
                                 !.mem[x.req.ccb].sense =
                                   IF ~tells THEN @
                                   ELSE IF own THEN d.buf[1] ELSE d.sense ]
             f     == [ e EXCEPT !.mem[x.req.ccb].residue = Residue(e) ]
             r     == IF b.opcode # "scsi_res" THEN e ELSE f
  <1>1. RequestSensePhase(x, taken) =
          IF Current(r).status = "good"
          THEN MbiSetup(r, "complete", "good", "success")
          ELSE MbiSetup(r, "complete", "check", "error")
    BY DEF RequestSensePhase
  <1> HIDE DEF b, d, own, tells
  <1>2. Quiet(e, x)
    BY DEF Quiet, Unmoved, Timed, Solid
  <1> HIDE DEF e
  <1>3. Timed(e) /\ Advances(e, x)
    BY <1>2, QuietAdvances
  <1>4. Quiet(f, e)
    BY <1>3 DEF Quiet, Unmoved, Timed, Solid
  <1> HIDE DEF f
  <1>5. Timed(f) /\ Advances(f, e)
    BY <1>3, <1>4, QuietAdvances
  <1>6. Timed(r) /\ Advances(r, x)
    BY <1>3, <1>5, AdvancesTwice
  <1> HIDE DEF r
  <1>7. /\ Advances(MbiSetup(r, "complete", "good", "success"), r)
        /\ Advances(MbiSetup(r, "complete", "check", "error"), r)
    BY <1>6, MbiAdvances
  <1>8. Advances(RequestSensePhase(x, taken), r)
    BY <1>1, <1>7
  <1> QED BY <1>6, <1>8, AdvancesTwice

LEMMA WriteMailQuiet ==
  ASSUME NEW x, Timed(x)
  PROVE  Quiet(WriteMail(x), x)
  BY DEF WriteMail, Quiet, Unmoved, Timed, Solid

\* The answer is in its box when the interrupt tells of it.
LEMMA NotifyAdvances ==
  ASSUME NEW x, Timed(x)
  PROVE  Advances(Notify(x), x)
  <1> DEFINE bits == {"MBIF", "ANY"} \cup (IF x.outInts = 1 THEN {"MBOA"} ELSE {})
             w    == WriteMail(x)
             e    == [ w EXCEPT !.toRaise = bits, !.outgoing = 0, !.phase = 0 ]
  <1>1. Notify(x) = RaiseIrq(e, FALSE, bits)
    BY DEF Notify
  <1> HIDE DEF bits
  <1>2. Quiet(w, x)
    BY WriteMailQuiet
  <1> HIDE DEF w
  <1>3. Timed(w) /\ Advances(w, x)
    BY <1>2, QuietAdvances
  <1>4. Advances(e, w)
    <2>1. /\ DOMAIN e = DOMAIN w /\ e.phase = 0 /\ e.reqs = w.reqs
          /\ e.status = w.status /\ e.interrupt = w.interrupt /\ e.pending = w.pending
          /\ e.mailTimer = w.mailTimer /\ e.resetTimer = w.resetTimer
      BY <1>3 DEF Timed, Solid
    <2> HIDE DEF e
    <2> QED BY <1>3, <2>1, PhaseAdvances
  <1> HIDE DEF e
  <1>5. Timed(e) /\ Advances(e, x)
    BY <1>3, <1>4, AdvancesTwice, AdvancesTimed
  <1>6. Keeps(RaiseIrq(e, FALSE, bits), e)
    BY <1>5, RaiseKeeps DEF Timed
  <1>7. Advances(RaiseIrq(e, FALSE, bits), e)
    BY <1>5, <1>6 DEF Keeps, Unmoved, Advances, Timed
  <1> QED BY <1>1, <1>5, <1>7, AdvancesTwice

\* Whatever the phase did, the timer is set if and only if work is left.
LEMMA MailTimerSound ==
  ASSUME NEW x, NEW hostOk, NEW taken, Sound(x)
  PROVE  /\ Sound(MailTimer(x, hostOk, taken))
         /\ Announced(x) => Announced(MailTimer(x, hostOk, taken))
  <1> DEFINE y == [ x EXCEPT !.mailTimer = 0 ]
             e == PhaseDone(y, hostOk, taken)
             f == [ e EXCEPT !.mailTimer = 1 ]
             m == MailTimer(x, hostOk, taken)
  <1>1. m = IF e.phase # 0 \/ e.reqs # 0 THEN f ELSE e
    BY DEF MailTimer, ScheduleMail
  <1> HIDE DEF m
  <1>2. /\ DOMAIN y = DOMAIN x /\ y.mailTimer = 0 /\ y.resetTimer = x.resetTimer
        /\ y.status = x.status /\ y.interrupt = x.interrupt /\ y.pending = x.pending
        /\ y.reqs = x.reqs /\ y.phase = x.phase
    BY DEF Sound, Timed, Solid
  <1> HIDE DEF y
  <1>3. Timed(y)
    BY <1>2 DEF Sound, Timed, Solid
  <1>4. Advances(e, y)
    <2>1. y.phase \in {0, 1, 2, 3, 4}
      BY <1>3 DEF Timed
    <2>2. /\ Advances(ProcessMail(y), y) /\ Advances(ScsiCmd(y, hostOk), y)
          /\ Advances(ScsiCmdPhase1(y, taken), y)
          /\ Advances(RequestSensePhase(y, taken), y) /\ Advances(Notify(y), y)
      BY <1>3, MailAdvances, CommandAdvances, Phase1Advances, SenseAdvances,
         NotifyAdvances
    <2>3. CASE y.phase = 0
      BY <2>2, <2>3 DEF PhaseDone
    <2>4. CASE y.phase = 1
      BY <2>2, <2>4 DEF PhaseDone
    <2>5. CASE y.phase = 2
      BY <2>2, <2>5 DEF PhaseDone
    <2>6. CASE y.phase = 3
      BY <2>2, <2>6 DEF PhaseDone
    <2>7. CASE y.phase = 4
      BY <2>2, <2>7 DEF PhaseDone
    <2> QED BY <2>1, <2>3, <2>4, <2>5, <2>6, <2>7
  <1> HIDE DEF e
  <1>5. /\ Timed(e) /\ e.mailTimer = 0 /\ e.resetTimer = x.resetTimer
        /\ "STST" \in e.status <=> "STST" \in x.status
        /\ Announced(x) => Announced(e)
    BY <1>2, <1>3, <1>4, AdvancesTimed DEF Advances, Announced
  <1>6. /\ DOMAIN f = DOMAIN e /\ f.mailTimer = 1 /\ f.resetTimer = e.resetTimer
        /\ f.status = e.status /\ f.interrupt = e.interrupt /\ f.pending = e.pending
        /\ f.reqs = e.reqs /\ f.phase = e.phase
    BY <1>5 DEF Timed, Solid
  <1> HIDE DEF f
  <1>7. Timed(f) /\ (Announced(e) => Announced(f))
    BY <1>5, <1>6 DEF Timed, Solid, Announced
  <1> SUFFICES Sound(m) /\ (Announced(x) => Announced(m))
    BY DEF m
  <1>8. CASE e.phase # 0 \/ e.reqs # 0
    BY <1>1, <1>5, <1>6, <1>7, <1>8 DEF Sound
  <1>9. CASE ~(e.phase # 0 \/ e.reqs # 0)
    BY <1>1, <1>5, <1>9 DEF Sound
  <1> QED BY <1>8, <1>9

-----------------------------------------------------------------------------
(* Commands                                                                *)

Carries(e, x) == Sound(e) /\ (Announced(x) => Announced(e))

LEMMA KeepsCarries ==
  ASSUME NEW e, NEW x, Sound(x), Keeps(e, x)
  PROVE  Carries(e, x)
  BY KeepsSound DEF Carries, Keeps

LEMMA QuietCarries ==
  ASSUME NEW e, NEW x, Sound(x), Quiet(e, x)
  PROVE  Carries(e, x)
  BY QuietKeeps, KeepsCarries

LEMMA CarriesTwice ==
  ASSUME NEW e, NEW f, NEW x, Carries(e, f), Carries(f, x)
  PROVE  Carries(e, x)
  BY DEF Carries

LEMMA BiosQuiet ==
  ASSUME NEW x, NEW k, NEW hostOk, NEW taken, Solid(x)
  PROVE  Quiet(BiosCommand(x, k, hostOk, taken), x)
  <1> DEFINE b == BiosRequests[k]
             d == Phase0([ x.dev[b.target] EXCEPT !.len = -1 ],
                         [ op |-> b.op, at |-> b.at, n |-> b.n ], hostOk)
             e == IF d.phase = "out" THEN [ d EXCEPT !.buf = Over(b.data, @) ] ELSE d
             v == IF d.phase = "status" THEN d ELSE Phase1(e, taken)
             absent == k \notin DOMAIN BiosRequests \/ ~Present(x.dev[BiosRequests[k].target])
             f == [ x EXCEPT !.dev[b.target] = v ]
  <1>1. BiosCommand(x, k, hostOk, taken) = IF absent THEN x ELSE f
    BY DEF BiosCommand
  <1> HIDE DEF v, b, absent
  <1>2. Quiet(f, x) /\ Quiet(x, x)
    BY DEF Quiet, Unmoved, Solid
  <1> HIDE DEF f
  <1> QED BY <1>1, <1>2

LEMMA DoneCarries ==
  ASSUME NEW x, NEW suppress, Sound(x)
  PROVE  Carries(CmdDone(x, suppress), x)
  <1> DEFINE y == [ x EXCEPT !.status = (@ \cup {"IDLE"}) \ {"DFULL"} ]
             e == RaiseIrq(y, suppress, {"HACC"})
             f == [ e EXCEPT !.command = None, !.param = 0, !.paramLeft = 0 ]
  <1>1. CmdDone(x, suppress) = f
    BY DEF CmdDone
  <1>2. Quiet(y, x)
    BY DEF Quiet, Unmoved, Sound, Timed, Solid
  <1> HIDE DEF y
  <1>3. Carries(y, x)
    BY <1>2, QuietCarries
  <1>4. Keeps(e, y)
    BY <1>3, RaiseKeeps DEF Carries, Sound, Timed
  <1> HIDE DEF e
  <1>5. Carries(e, y)
    BY <1>3, <1>4, KeepsCarries DEF Carries
  <1>6. Quiet(f, e)
    BY <1>5 DEF Carries, Quiet, Unmoved, Sound, Timed, Solid
  <1> HIDE DEF f
  <1>7. Carries(f, e)
    BY <1>5, <1>6, QuietCarries DEF Carries
  <1> QED BY <1>1, <1>3, <1>5, <1>7, CarriesTwice

LEMMA InvalidQuiet ==
  ASSUME NEW x, Solid(x)
  PROVE  Quiet(Invalid(x), x)
  BY DEF Invalid, Quiet, Unmoved, Solid

LEMMA MbInitQuiet ==
  ASSUME NEW x, Solid(x)
  PROVE  Quiet(MbInit(x), x)
  BY DEF MbInit, Quiet, Unmoved, Solid

\* A command is a reset, or leaves the six fields alone.
LEMMA ExecutedCarries ==
  ASSUME NEW x, NEW hostOk, NEW taken, Sound(x)
  PROVE  Carries(Executed(x, hostOk, taken), x)
  <1> DEFINE bios == BiosCommand(x, x.arg, hostOk, taken)
             a == [ x EXCEPT !.replyLeft = 0 ]
             b == [ bios EXCEPT !.replyLeft = 1 ]
             c == [ x EXCEPT !.replyLeft = 4 ]
             d == [ x EXCEPT !.outInts = x.arg, !.replyLeft = 0 ]
             f == [ x EXCEPT !.paramLeft = IF x.param = 1 THEN x.arg ELSE @,
                             !.replyLeft = 0 ]
             g == [ x EXCEPT !.irqEnabled = IF x.arg = 0 THEN 0 ELSE 1, !.replyLeft = 0 ]
             h == [ x EXCEPT !.robin = x.arg % 2, !.replyLeft = 0 ]
             emboi == IF x.arg <= 1 THEN d ELSE Invalid(x)
  <1>1. Executed(x, hostOk, taken) =
          CASE x.command = NOP     -> a
            [] x.command = MBINIT  -> MbInit(x)
            [] x.command = BIOSCMD -> b
            [] x.command = INQUIRY -> c
            [] x.command = EMBOI   -> emboi
            [] x.command = RESET   -> Reset(x)
            [] x.command = OPTIONS -> f
            [] x.command = SETIRQ  -> g
            [] x.command = ROBIN   -> h
            [] OTHER               -> Invalid(x)
    BY DEF Executed
  <1>2. Solid(x)
    BY DEF Sound, Timed
  <1>3. Quiet(bios, x)
    BY <1>2, BiosQuiet
  <1> HIDE DEF bios
  <1>4. Quiet(b, x)
    BY <1>2, <1>3 DEF Quiet, Unmoved, Solid
  <1>5. Quiet(a, x) /\ Quiet(c, x) /\ Quiet(d, x) /\ Quiet(f, x) /\ Quiet(g, x) /\ Quiet(h, x)
    BY <1>2 DEF Quiet, Unmoved, Solid
  <1> HIDE DEF a, b, c, d, f, g, h
  <1>6. Quiet(emboi, x)
    BY <1>2, <1>5, InvalidQuiet
  <1> HIDE DEF emboi
  <1>7. /\ Carries(a, x) /\ Carries(b, x) /\ Carries(c, x) /\ Carries(emboi, x)
        /\ Carries(f, x) /\ Carries(g, x) /\ Carries(h, x)
        /\ Carries(MbInit(x), x) /\ Carries(Invalid(x), x)
    BY <1>2, <1>4, <1>5, <1>6, InvalidQuiet, MbInitQuiet, QuietCarries
  <1>8. Carries(Reset(x), x)
    BY <1>2, ResetSound DEF Carries
  <1> QED BY <1>1, <1>7, <1>8, Zenon

LEMMA HandleCarries ==
  ASSUME NEW x, NEW hostOk, NEW taken, Sound(x)
  PROVE  Carries(HandleCommand(x, hostOk, taken), x)
  <1> DEFINE e == Executed(x, hostOk, taken)
             f == [ e EXCEPT !.status = @ \cup {"DFULL"} ]
             g == CmdDone(e, Suppressed(x))
  <1>1. HandleCommand(x, hostOk, taken) =
          CASE e.replyLeft # 0 -> f
            [] e.replyLeft = 0 /\ e.paramLeft = 0 -> g
            [] OTHER -> e
    BY DEF HandleCommand
  <1>2. Carries(e, x)
    BY ExecutedCarries
  <1> HIDE DEF e
  <1>3. Sound(e)
    BY <1>2 DEF Carries
  <1>4. Quiet(f, e)
    BY <1>3 DEF Quiet, Unmoved, Sound, Timed, Solid
  <1> HIDE DEF f
  <1>5. Carries(f, e) /\ Carries(g, e)
    BY <1>3, <1>4, QuietCarries, DoneCarries
  <1> HIDE DEF g
  <1>6. Carries(f, x) /\ Carries(g, x)
    BY <1>2, <1>5, CarriesTwice
  <1> QED BY <1>1, <1>2, <1>6

LEMMA WriteCarries ==
  ASSUME NEW x, NEW v, NEW hostOk, NEW taken, Sound(x)
  PROVE  Carries(WriteCommand(x, v, hostOk, taken), x)
  <1>1. CASE x.command = None /\ v = START
    <2> DEFINE e == [ x EXCEPT !.reqs = @ + 1 ]
               f == [ e EXCEPT !.mailTimer = 1 ]
    <2>1. WriteCommand(x, v, hostOk, taken) = f
      BY <1>1 DEF WriteCommand, ScheduleMail
    <2>2. /\ DOMAIN f = DOMAIN x /\ f.mailTimer = 1 /\ f.resetTimer = x.resetTimer
          /\ f.status = x.status /\ f.interrupt = x.interrupt /\ f.pending = x.pending
          /\ f.reqs = x.reqs + 1 /\ f.phase = x.phase
      BY DEF Sound, Timed, Solid
    <2> HIDE DEF e, f
    <2>3. Timed(f) /\ f.reqs # 0
      BY <2>2 DEF Sound, Timed, Solid
    <2>4. Sound(f)
      BY <2>2, <2>3 DEF Sound
    <2>5. Announced(x) => Announced(f)
      BY <2>2 DEF Announced
    <2> QED BY <2>1, <2>4, <2>5 DEF Carries
  <1>2. CASE ~(x.command = None /\ v = START)
    <2> DEFINE e == IF x.command = None THEN BeginCommand(x, v) ELSE TakeParam(x, v)
    <2>1. WriteCommand(x, v, hostOk, taken) =
            IF e.paramLeft = 0 THEN HandleCommand(e, hostOk, taken) ELSE e
      BY <1>2 DEF WriteCommand
    <2>2. Quiet(BeginCommand(x, v), x) /\ Quiet(TakeParam(x, v), x)
      BY DEF BeginCommand, TakeParam, Quiet, Unmoved, Sound, Timed, Solid
    <2>3. Carries(e, x)
      BY <2>2, QuietCarries
    <2> HIDE DEF e
    <2>4. Carries(HandleCommand(e, hostOk, taken), e)
      BY <2>3, HandleCarries DEF Carries
    <2> QED BY <2>1, <2>3, <2>4, CarriesTwice
  <1> QED BY <1>1, <1>2

LEMMA ReplyCarries ==
  ASSUME NEW x, Sound(x)
  PROVE  Carries(ReadReply(x), x)
  <1> DEFINE e == [ x EXCEPT !.replyLeft = @ - 1 ]
  <1>1. ReadReply(x) = CASE x.replyLeft = 0 -> x
                         [] x.replyLeft = 1 -> CmdDone(e, FALSE)
                         [] OTHER           -> e
    BY DEF ReadReply
  <1>2. Quiet(e, x) /\ Quiet(x, x)
    BY DEF Quiet, Unmoved, Sound, Timed, Solid
  <1> HIDE DEF e
  <1>3. Carries(e, x) /\ Carries(x, x)
    BY <1>2, QuietCarries
  <1>4. Carries(CmdDone(e, FALSE), e)
    BY <1>3, DoneCarries DEF Carries
  <1>5. Carries(CmdDone(e, FALSE), x)
    BY <1>3, <1>4, CarriesTwice
  <1> QED BY <1>1, <1>3, <1>5

LEMMA ControlCarries ==
  ASSUME NEW x, NEW reset, NEW bus, NEW interrupt, Sound(x)
  PROVE  Carries(WriteControl(x, reset, bus, interrupt), x)
  <1> DEFINE e == IF bus THEN ResetBus(x) ELSE x
  <1>1. WriteControl(x, reset, bus, interrupt) =
          IF reset THEN Reset(x) ELSE IF interrupt THEN ClearIrq(e) ELSE e
    BY DEF WriteControl
  <1>2. Solid(x)
    BY DEF Sound, Timed
  <1>3. Quiet(e, x)
    <2>1. Quiet(ResetBus(x), x) /\ Quiet(x, x)
      BY <1>2, ResetBusQuiet DEF Quiet, Unmoved
    <2> QED BY <2>1
  <1> HIDE DEF e
  <1>4. Carries(e, x)
    BY <1>3, QuietCarries
  <1>5. Carries(ClearIrq(e), e)
    <2>1. Sound(e) /\ Solid(e)
      BY <1>4 DEF Carries, Sound, Timed
    <2> QED BY <2>1, ClearKeeps, KeepsCarries
  <1>6. Carries(Reset(x), x)
    BY <1>2, ResetSound DEF Carries
  <1> QED BY <1>1, <1>4, <1>5, <1>6, CarriesTwice

-----------------------------------------------------------------------------
(* The steps of the guest, the host and the timers                         *)

LEMMA CarriesInv ==
  ASSUME Inv, Carries(s', s), guest' = guest
  PROVE  Inv'
  BY DEF Inv, Carries

\* What guest and host do to the boxes, the command blocks, the interrupt
\* line and the targets
LEMMA QuietInv ==
  ASSUME Inv, Quiet(s', s), guest' = guest
  PROVE  Inv'
  BY QuietCarries, CarriesInv DEF Inv

LEMMA StartInv ==
  ASSUME Init
  PROVE  Inv
  <1> DEFINE x ==
        [ status |-> {}, command |-> None, param |-> 0, paramLeft |-> 0, arg |-> 0,
          replyLeft |-> 0, mbInit |-> FALSE, count |-> 0, outInts |-> 0, robin |-> 1,
          irqEnabled |-> 0, interrupt |-> {}, pending |-> {}, toRaise |-> {},
          inPos |-> 0, outPos |-> 0, reqs |-> 0, phase |-> 0, outgoing |-> 0,
          req |-> NoRequest, scsiPhase |-> "out", targetLen |-> 0, mailTimer |-> 0,
          resetTimer |-> 0, irr |-> 0, out |-> EmptyBoxes, in |-> EmptyBoxes,
          ccb |-> [ c \in Ccbs |-> NoCommand ],
          mem |-> [ c \in Ccbs |-> Memory(<<>>) ],
          dev |-> [ i \in Id |-> IF i \in DOMAIN Targets THEN Targets[i]
                                 ELSE NoTarget ] ]
  <1>1. s = Reset(x)
    BY DEF Init, AtStart
  <1>2. Solid(x)
    BY DEF Solid
  <1> HIDE DEF x
  <1> QED BY <1>1, <1>2, ResetSound DEF Inv

LEMMA FreeInv ==
  ASSUME Inv, FreeGuest
  PROVE  Inv'
  <1>1. Sound(s)
    BY DEF Inv
  <1>2. CASE BeginScript
    BY <1>2 DEF BeginScript, KeepDriver, Inv
  <1>3. CASE WriteByte
    <2>1. PICK h \in Host : s' = WriteCommand(s, script[1], h[1], h[2])
      BY <1>3 DEF WriteByte
    <2>2. guest' = guest
      BY <1>3 DEF WriteByte, KeepDriver
    <2> QED BY <1>1, <2>1, <2>2, WriteCarries, CarriesInv
  <1>4. CASE ReadByte
    <2>1. s' = ReadReply(s) /\ guest' = guest
      BY <1>4 DEF ReadByte, KeepDriver
    <2> QED BY <1>1, <2>1, ReplyCarries, CarriesInv
  <1>5. CASE Post
    <2>1. PICK k \in Box, c \in guest.ccbs, b \in guest.blocks, code \in guest.codes :
            s' = [ s EXCEPT !.out[k] = [ code |-> code, ccb |-> c ], !.ccb[c] = b,
                            !.mem[c] = Memory([ i \in 1 .. b.len |-> "new" ]) ]
      BY <1>5 DEF Post
    <2>2. guest' = guest
      BY <1>5 DEF Post, KeepDriver
    <2>3. Quiet(s', s)
      BY <1>1, <2>1 DEF Quiet, Unmoved, Sound, Timed, Solid
    <2> QED BY <2>2, <2>3, QuietInv
  <1>6. CASE Control
    <2>1. guest' = guest
      BY <1>6 DEF Control, KeepDriver
    <2>2. CASE \E reset, bus, interrupt \in BOOLEAN :
                 s' = WriteControl(s, reset, bus, interrupt)
      BY <1>1, <2>1, <2>2, ControlCarries, CarriesInv
    <2>3. CASE guest.forges /\ \E bits \in { {}, {"HACC"} } : s' = WriteInterrupt(s, bits)
      <3>1. PICK bits : s' = WriteInterrupt(s, bits)
        BY <2>3
      <3>2. Unmoved(s', s)
        BY <1>1, <3>1 DEF WriteInterrupt, Unmoved, Sound, Timed, Solid
      <3>3. Sound(s')
        BY <1>1, <3>2 DEF Unmoved, Sound, Timed, Solid
      <3> QED BY <2>1, <2>3, <3>3 DEF Inv
    <2> QED BY <1>6, <2>2, <2>3 DEF Control
  <1>7. CASE TakeIrq
    <2>1. s' = [ s EXCEPT !.irr = 0 ] /\ guest' = guest
      BY <1>7 DEF TakeIrq, KeepDriver
    <2>2. Quiet(s', s)
      BY <1>1, <2>1 DEF Quiet, Unmoved, Sound, Timed, Solid
    <2> QED BY <2>1, <2>2, QuietInv
  <1> QED BY <1>2, <1>3, <1>4, <1>5, <1>6, <1>7 DEF FreeGuest

LEMMA HandlerInv ==
  ASSUME Inv, Handler
  PROVE  Inv'
  <1>1. Sound(s) /\ guest' = guest
    BY DEF Inv, Handler
  <1>2. CASE EnterHandler
    <2>1. s' = [ s EXCEPT !.irr = 0 ]
      BY <1>2 DEF EnterHandler
    <2>2. Quiet(s', s)
      BY <1>1, <2>1 DEF Quiet, Unmoved, Sound, Timed, Solid
    <2> QED BY <1>1, <2>2, QuietInv
  <1>3. CASE LookWhat
    BY <1>1, <1>3 DEF LookWhat, Inv
  <1>4. CASE Clear
    <2>1. s' = WriteControl(s, FALSE, FALSE, TRUE)
      BY <1>4 DEF Clear
    <2> QED BY <1>1, <2>1, ControlCarries, CarriesInv
  <1>5. CASE Collect
    <2>1. s' = [ s EXCEPT !.in[inNext] = EmptyBox ]
      BY <1>5 DEF Collect
    <2>2. Quiet(s', s)
      BY <1>1, <2>1 DEF Quiet, Unmoved, Sound, Timed, Solid
    <2> QED BY <1>1, <2>2, QuietInv
  <1>6. CASE AllCollected
    BY <1>1, <1>6 DEF AllCollected, Inv
  <1> QED BY <1>2, <1>3, <1>4, <1>5, <1>6 DEF Handler

LEMMA DriverInv ==
  ASSUME Inv, Driver
  PROVE  Inv'
  <1>1. Sound(s)
    BY DEF Inv
  <1>2. CASE Submit
    <2>1. PICK c \in Ccbs \ used, j \in guest.jobs :
            s' = [ s EXCEPT !.ccb[c] = j.block, !.mem[c] = Memory(j.data),
                            !.out[outNext] = [ code |-> "start", ccb |-> c ] ]
      BY <1>2 DEF Submit
    <2>2. Quiet(s', s)
      BY <1>1, <2>1 DEF Quiet, Unmoved, Sound, Timed, Solid
    <2>3. guest' = guest
      BY <1>2 DEF Submit
    <2> QED BY <2>2, <2>3, QuietInv
  <1>3. CASE GiveCommand
    BY <1>3 DEF GiveCommand, Inv
  <1>4. CASE Step
    <2>1. guest' = guest
      BY <1>4 DEF Step
    <2>2. \/ s' = s
          \/ s' = WriteCommand(s, todo[1][2], TRUE, 0)
          \/ s' = ReadReply(s)
      BY <1>4 DEF Step
    <2>3. Carries(s, s)
      BY <1>1 DEF Carries
    <2>4. Carries(s', s)
      BY <1>1, <2>2, <2>3, WriteCarries, ReplyCarries
    <2> QED BY <2>1, <2>4, CarriesInv
  <1>5. CASE StartOver
    <2> DEFINE e == WriteControl(s, TRUE, FALSE, FALSE)
    <2>1. s' = [ e EXCEPT !.out = EmptyBoxes, !.in = EmptyBoxes ] /\ guest' = guest
      BY <1>5 DEF StartOver
    <2>2. Carries(e, s)
      BY <1>1, ControlCarries
    <2> HIDE DEF e
    <2>3. Quiet(s', e)
      BY <2>1, <2>2 DEF Quiet, Unmoved, Carries, Sound, Timed, Solid
    <2>4. Carries(s', e)
      BY <2>2, <2>3, QuietCarries DEF Carries
    <2> QED BY <2>1, <2>2, <2>4, CarriesTwice, CarriesInv
  <1>6. CASE Handler
    BY <1>6, HandlerInv
  <1> QED BY <1>2, <1>3, <1>4, <1>5, <1>6 DEF Driver

LEMMA StepInv ==
  ASSUME Inv, [Next]_vars
  PROVE  Inv'
  <1>1. Sound(s)
    BY DEF Inv
  <1>2. CASE FreeGuest
    BY <1>2, FreeInv
  <1>3. CASE Driver
    BY <1>3, DriverInv
  <1>4. CASE ChangeDisc
    <2>1. PICK i \in Id, m \in Discs : s' = [ s EXCEPT !.dev[i] = AttachDisc(m) ]
      BY <1>4 DEF ChangeDisc
    <2>2. Quiet(s', s)
      BY <1>1, <2>1 DEF Quiet, Unmoved, Sound, Timed, Solid
    <2>3. guest' = guest
      BY <1>4 DEF ChangeDisc, KeepDriver
    <2> QED BY <2>2, <2>3, QuietInv
  <1>5. CASE MailTimerFires
    <2>1. PICK h \in Host : s' = MailTimer(s, h[1], h[2])
      BY <1>5 DEF MailTimerFires
    <2>2. guest' = guest
      BY <1>5 DEF MailTimerFires, KeepGuest
    <2>3. Carries(s', s)
      BY <1>1, <2>1, MailTimerSound DEF Carries
    <2> QED BY <2>2, <2>3, CarriesInv
  <1>6. CASE ResetTimerFires
    <2>1. s' = ResetTimer(s) /\ guest' = guest
      BY <1>6 DEF ResetTimerFires, KeepGuest
    <2>2. Carries(s', s)
      BY <1>1, <2>1, ResetTimerSound DEF Carries
    <2> QED BY <2>1, <2>2, CarriesInv
  <1>7. CASE UNCHANGED vars
    BY <1>7 DEF vars, Inv
  <1> QED BY <1>2, <1>3, <1>4, <1>5, <1>6, <1>7 DEF Next

\* Work that the adapter has put off always has the mail timer, a reset has
\* its own, and a mail interrupt stands behind a command interrupt that the
\* guest can see: none of them waits for an event that never comes
\* (buslogic_process_mail_cb, buslogic_raise_irq, buslogic_reset_timer_cb).
THEOREM PutOffAlwaysGoesOn == Spec => []PutOffGoesOn
  <1>1. Init => Inv
    BY StartInv
  <1>2. Inv /\ [Next]_vars => Inv'
    BY StepInv
  <1>3. Inv => PutOffGoesOn
    BY DEF Inv, Sound, Announced, PutOffGoesOn
  <1> QED BY <1>1, <1>2, <1>3, PTL DEF Spec
=============================================================================
