------------------------------- MODULE Rtl8139 --------------------------------
(***************************************************************************)
(* The data path of the RTL8139 network card (io/rtl8139.c): reception     *)
(* into a ring of bytes or, in C+ mode, into descriptors; transmission     *)
(* from four registers or from C+ descriptors; its level interrupt.        *)
(* Functions of the code are operators on the card c.  c.pics is the 8259  *)
(* pair its PCI pin is routed to; c.ring, c.rxd and c.txd are the parts of *)
(* the guest's memory it reads and writes by bus mastering.                *)
(*                                                                         *)
(* The receive ring is counted in units: one for the header, one for the   *)
(* checksum, f.len for the data of frame f; alignment rounds to a unit.    *)
(***************************************************************************)
EXTENDS I8259, Sequences

CONSTANTS
  RingUnits,    \* RxBufferSize
  LargestFrame, \* the 1514 bytes of rtl8139_can_receive, in units
  RxDescs,      \* C+ receive descriptors the guest sets up
  TxDescs       \* C+ transmit descriptors

RtlAssumption ==
    /\ RingUnits \in Nat \ {0} /\ LargestFrame \in Nat
    /\ RxDescs \in Nat \ {0} /\ TxDescs \in Nat \ {0}

Irq       == [chip |-> "slave", line |-> 3]     \* where INTA is routed
Event     == {"RxOK", "TxOK", "RxOverflow", "RxUnderrun"}
TxReg     == 0 .. 3
CapOffset == 1                                  \* CAPR is off by 16 bytes

Nothing  == [frame |-> 0, part |-> 0, len |-> 0]
NoRxDesc == [own |-> FALSE, eor |-> FALSE, space |-> 0, frame |-> 0]
NoTxDesc == [own |-> FALSE, eor |-> FALSE, fs |-> FALSE, ls |-> FALSE,
             part |-> <<>>]

-----------------------------------------------------------------------------
(* Interrupt                                                               *)

\* rtl8139_update_irq; pci_raise_irq and pci_lower_irq do nothing when the
\* pin already is so, and the 8259 sees the change.
UpdateIrq(c) ==
    LET on == (c.isr \cap c.mask) # {}
    IN  IF on = c.asserted THEN c
        ELSE [ c EXCEPT !.asserted = on,
                        !.pics = SetLevelIrq(@, Irq.chip, Irq.line, on) ]

Announce(c, e) == UpdateIrq([ c EXCEPT !.isr = @ \cup {e} ])

\* Mutant of WriteIntrMask: the pin is not recomputed.
WriteIntrMaskLate(c, mask) == [ c EXCEPT !.mask = mask ]

WriteIntrMask(c, mask) == UpdateIrq([ c EXCEPT !.mask = mask ])

\* The pin is lowered and, if events are left, raised again.
WriteIntrStatus(c, ack) ==
    UpdateIrq([ UpdateIrq([ c EXCEPT !.isr = {} ]) EXCEPT !.isr = c.isr \ ack ])

\* rtl8139_set_link_status.
LinkChanges(c) == Announce(c, "RxUnderrun")

-----------------------------------------------------------------------------
(* Reception                                                               *)

\* rtl8139_RxBufferEmpty, which the guest reads in ChipCmd.
RxBufferEmpty(c) == c.addr = c.ptr

Avail(c) == (RingUnits + c.ptr - c.addr) % RingUnits

\* rtl8139_can_receive: with the receiver off the frame is let in and then
\* refused; a C+ receiver with a ring, too.
CanReceive(c) ==
    \/ ~c.clock \/ ~c.rxEnb
    \/ c.cpRx /\ c.ringSet
    \/ Avail(c) = 0 \/ Avail(c) >= LargestFrame
    \/ "RxOverflow" \in c.mask

\* The address filter; a rejected frame counts as an error.
Wanted(c, f) == "all" \in c.accept \/ f.dest \in c.accept

\* (RxMissed and the tally counters are left out.)
Overflowed(c) == Announce(c, "RxOverflow")

\* rtl8139_do_receive, C+ mode: the descriptor must be the card's and hold
\* the frame; it is filled, given back, and the next one follows.
ReceiveCp(c, f) ==
    LET d == c.rxd[c.currRx]
    IN  IF ~c.ringSet THEN c
        ELSE IF ~d.own \/ f.len > d.space THEN Overflowed(c)
        ELSE Announce(
            [ c EXCEPT !.rxd[c.currRx].own   = FALSE,
                       !.rxd[c.currRx].frame = f.id,
                       !.currRx = IF d.eor THEN 0 ELSE @ + 1 ], "RxOK")

\* The ring never becomes exactly full: it would look empty.
Fits(c, f) == Avail(c) = 0 \/ f.len + 2 < Avail(c)

\* What unit k of a frame holds: header, data and checksum.
UnitOf(f, k) == [ frame |-> f.id, part |-> k,
                  len |-> IF k = 0 THEN f.len ELSE 0 ]

\* rtl8139_write_buffer, for header, data and checksum in turn.  With
\* RxConfig.WRAP set the frame runs over the end of the ring instead.
Place(c, k) ==
    IF c.addr + k >= RingUnits /\ ~c.wrap THEN c.addr + k - RingUnits
    ELSE c.addr + k

Filled(c, f) ==
    [ c EXCEPT
        !.ring = [ u \in DOMAIN @ |->
            IF \E k \in 0 .. f.len + 1 : u = Place(c, k)
            THEN UnitOf(f, CHOOSE k \in 0 .. f.len + 1 : u = Place(c, k))
            ELSE @[u] ],
        !.addr = (@ + f.len + 2) % RingUnits ]

ReceiveRing(c, f) ==
    IF ~Fits(c, f) THEN Overflowed(c) ELSE Announce(Filled(c, f), "RxOK")

\* rtl8139_do_receive.
DoReceive(c, f) ==
    CASE ~CanReceive(c) \/ ~c.clock \/ ~c.rxEnb \/ ~Wanted(c, f) -> c
      [] OTHER -> IF c.cpRx THEN ReceiveCp(c, f) ELSE ReceiveRing(c, f)

-----------------------------------------------------------------------------
(* Transmission                                                            *)

\* rtl8139_transfer_frame: to the host, or in loopback mode back into the
\* receiver.  c.sent is the last frame that left.
TransferFrame(c, f) ==
    IF c.loop THEN DoReceive(c, f) ELSE [ c EXCEPT !.sent = f.id ]

\* rtl8139_transmit_one.
TransmitOne(c, i) ==
    IF ~c.txEnb \/ c.tsd[i].own THEN c
    ELSE Announce(
        TransferFrame([ c EXCEPT !.tsd[i].own = TRUE, !.tsd[i].ok = TRUE ],
                      c.tsd[i].data), "TxOK")

\* rtl8139_transmit: only the current register, whichever was written.
Transmit(c) ==
    IF ~c.txEnb \/ c.tsd[c.currTx].own THEN c
    ELSE [ TransmitOne(c, c.currTx) EXCEPT !.currTx = (@ + 1) % 4 ]

\* rtl8139_TxStatus_write with the OWN bit clear; in C+ mode the register
\* belongs to the tally counters.
WriteTxStatus(c, i, f) ==
    IF c.cplus THEN c
    ELSE Transmit([ c EXCEPT !.tsd[i] =
                      [ own |-> FALSE, ok |-> FALSE, data |-> f ] ])

\* rtl8139_cplus_transmit_one: the segment is added to the packet, the
\* descriptor given back, and the last segment sends.
CpSegment(c) ==
    LET d    == c.txd[c.currCpTx]
        data == (IF d.fs THEN <<>> ELSE c.txbuf) \o d.part
        b    == [ c EXCEPT !.txd[c.currCpTx].own = FALSE,
                           !.txbuf    = IF d.ls THEN <<>> ELSE data,
                           !.currCpTx = IF d.eor THEN 0 ELSE @ + 1 ]
    IN  IF d.ls THEN TransferFrame(b, Head(data)) ELSE b

CpCanSend(c) == c.txEnb /\ c.cpTx /\ c.txd[c.currCpTx].own

\* rtl8139_cplus_transmit sends until a descriptor is not its own; one
\* interrupt follows.  (At most 64 at a time: more than the guest has.)
CpTransmit(c) ==
    LET run[k \in 0 .. TxDescs] ==
          IF k = 0 THEN c
          ELSE IF CpCanSend(run[k - 1]) THEN CpSegment(run[k - 1])
          ELSE run[k - 1]
    IN  IF CpCanSend(c) THEN Announce(run[TxDescs], "TxOK") ELSE c

-----------------------------------------------------------------------------
(* Commands                                                                *)

ResetRxRing(c) == [ c EXCEPT !.ptr = 0, !.addr = 0 ]

\* rtl8139_reset.  RxConfig, the link and the interrupt controllers stay.
ResetCard(c) ==
    ResetRxRing([ UpdateIrq([ c EXCEPT !.isr = {}, !.mask = {} ]) EXCEPT
        !.tsd = [ i \in TxReg |-> [ own |-> TRUE, ok |-> FALSE,
                                    data |-> c.tsd[i].data ] ],
        !.currTx = 0, !.currRx = 0, !.currCpTx = 0,
        !.ringSet = FALSE, !.bufSet = FALSE,
        !.loop = FALSE, !.clock = TRUE, !.rxEnb = FALSE, !.txEnb = FALSE,
        !.cpRx = FALSE, !.cpTx = FALSE, !.cplus = FALSE ])

\* rtl8139_ChipCmd_write.
WriteChipCmd(c, reset, rx, tx) ==
    LET a == IF reset THEN ResetCard(c) ELSE c
    IN  [ a EXCEPT !.currRx   = IF rx THEN 0 ELSE @,
                   !.currCpTx = IF tx THEN 0 ELSE @,
                   !.rxEnb = rx, !.txEnb = tx ]

\* rtl8139_CpCmd_write.
WriteCpCmd(c, rx, tx) ==
    [ c EXCEPT !.cplus = TRUE, !.cpRx = rx, !.cpTx = tx ]

\* rtl8139_RxConfig_write: any write empties the ring.
WriteRxConfig(c, accept, wrap) ==
    ResetRxRing([ c EXCEPT !.accept = accept, !.wrap = wrap ])

\* rtl8139_TxConfig_write: ignored while the transmitter is off.
WriteTxConfig(c, loop) == IF c.txEnb THEN [ c EXCEPT !.loop = loop ] ELSE c

WriteRxBuf(c)  == [ c EXCEPT !.bufSet  = TRUE ]
WriteRxRing(c) == [ c EXCEPT !.ringSet = TRUE ]

\* rtl8139_RxBufPtr_write.
WriteRxBufPtr(c, v) == [ c EXCEPT !.ptr = (v + CapOffset) % RingUnits ]

\* HltClk.
WriteHltClk(c, on) == [ c EXCEPT !.clock = on ]

\* rtl8139_init.
NoFrame == [ id |-> 0, len |-> 1, dest |-> "us" ]

CardStart(pics) ==
    ResetCard([ isr |-> {}, mask |-> {}, asserted |-> FALSE, pics |-> pics,
        accept |-> {}, wrap |-> FALSE, ptr |-> 0, addr |-> 0,
        ring |-> [ u \in 0 .. RingUnits + LargestFrame |-> Nothing ],
        tsd |-> [ i \in TxReg |->
                    [ own |-> TRUE, ok |-> FALSE, data |-> NoFrame ] ],
        currTx |-> 0, currRx |-> 0, currCpTx |-> 0, sent |-> 0,
        rxd |-> [ i \in 0 .. RxDescs |-> NoRxDesc ],
        txd |-> [ i \in 0 .. TxDescs |-> NoTxDesc ], txbuf |-> <<>>,
        ringSet |-> FALSE, bufSet |-> FALSE, loop |-> FALSE, clock |-> TRUE,
        rxEnb |-> FALSE, txEnb |-> FALSE, cpRx |-> FALSE, cpTx |-> FALSE,
        cplus |-> FALSE ])

-----------------------------------------------------------------------------
(***************************************************************************)
(* The RTL8139 between the host network and a driver, in ring mode or in   *)
(* C+ mode.  The driver programs the card as its drivers do: it sets up    *)
(* the receiver after enabling it, reads and acknowledges all events, then *)
(* looks for frames and finished transmissions, and reads events again.    *)
(***************************************************************************)

CONSTANTS
  Kinds,      \* the frames that come: [len, dest]
  MaxFrames,  \* frames in all, received or sent
  MaxSends,   \* frames the driver sends
  MaxResets,  \* times the driver starts again
  Modes,      \* the modes the driver may choose: [cplus, loop, wrap]
  Accepted    \* the addresses it accepts

VARIABLES
  nic,   \* the card with the interrupt controllers and the guest's rings
  made,  \* frames made
  drv    \* the driver

vars == <<nic, made, drv>>

Interrupts == {"RxOK", "TxOK", "RxOverflow", "RxUnderrun"}

-----------------------------------------------------------------------------
(* Host and card                                                           *)

\* pcap.c hands the card a frame.
HostTick(k) ==
    /\ made < MaxFrames
    /\ made' = made + 1
    /\ nic' = DoReceive(nic, [ id |-> made + 1, len |-> k.len,
                               dest |-> k.dest ])
    /\ UNCHANGED drv

LinkTurns ==
    /\ nic' = LinkChanges(nic)
    /\ UNCHANGED <<made, drv>>

-----------------------------------------------------------------------------
(* The driver                                                              *)

\* The memory of a driver that starts: all descriptors the card's to fill.
FreshRings(c) ==
    [ c EXCEPT
        !.rxd = [ i \in DOMAIN @ |-> IF i = RxDescs THEN NoRxDesc
                    ELSE [ own |-> TRUE, eor |-> i = RxDescs - 1,
                           space |-> LargestFrame, frame |-> 0 ] ],
        !.txd = [ i \in DOMAIN @ |-> NoTxDesc ] ]

ResetPort ==
    /\ drv.pc = "reset"
    /\ nic' = FreshRings(WriteChipCmd(nic, TRUE, FALSE, FALSE))
    /\ \E m \in Modes :
         drv' = [ drv EXCEPT !.pc = "enable", !.mode = m, !.cur = 0,
                                !.curTx = 0, !.dirty = 0 ]
    /\ UNCHANGED made

Enable ==
    /\ drv.pc = "enable"
    /\ nic' = WriteChipCmd(IF drv.mode.cplus THEN WriteCpCmd(nic, TRUE, TRUE)
                           ELSE WriteRxBuf(nic), FALSE, TRUE, TRUE)
    /\ drv' = [ drv EXCEPT !.pc = "config" ]
    /\ UNCHANGED made

Configure ==
    /\ drv.pc = "config"
    /\ nic' = WriteTxConfig(WriteRxConfig(nic, Accepted, drv.mode.wrap),
                            drv.mode.loop)
    /\ drv' = [ drv EXCEPT !.pc = "rings" ]
    /\ UNCHANGED made

\* Only now, and last the interrupts.
SetRings ==
    /\ drv.pc = "rings"
    /\ nic' = WriteIntrMask(IF drv.mode.cplus THEN WriteRxRing(nic) ELSE nic,
                            Interrupts)
    /\ drv' = [ drv EXCEPT !.pc = "idle" ]
    /\ UNCHANGED made

\* The driver gives up, stops the clock and later starts again.
Suspend ==
    /\ drv.pc = "idle" /\ drv.resets < MaxResets
    /\ nic' = WriteHltClk(nic, FALSE)
    /\ drv' = [ drv EXCEPT !.pc = "reset", !.resets = @ + 1,
                           !.dirty = drv.curTx ]
    /\ UNCHANGED made

Interrupt ==
    /\ drv.pc = "idle" /\ HasPending(nic.pics, "master")
    /\ nic' = [ nic EXCEPT !.pics = SpecificEoi(SpecificEoi(
                  AfterCheck(@), "slave", Irq.line), "master", Cascade) ]
    /\ drv' = [ drv EXCEPT !.pc = "isr" ]
    /\ UNCHANGED made

ReadEvents ==
    /\ drv.pc = "isr"
    /\ LET events == nic.isr \cap Interrupts
       IN  drv' = [ drv EXCEPT !.pc = IF events = {} THEN "idle" ELSE "ack",
                               !.events = events ]
    /\ UNCHANGED <<nic, made>>

Acknowledged ==
    /\ drv.pc = "ack"
    /\ nic' = WriteIntrStatus(nic, drv.events)
    /\ drv' = [ drv EXCEPT !.pc = "rx", !.events = {} ]
    /\ UNCHANGED made

NoFrameWaits == IF drv.mode.cplus THEN nic.rxd[drv.cur].own
                ELSE RxBufferEmpty(nic)

RxDone ==
    /\ drv.pc = "rx" /\ NoFrameWaits
    /\ drv' = [ drv EXCEPT !.pc = "tx" ]
    /\ UNCHANGED <<nic, made>>

\* The units of the frame at the driver's place in the ring.
UnitAt(k) == IF drv.cur + k >= RingUnits /\ ~drv.mode.wrap
             THEN nic.ring[drv.cur + k - RingUnits]
             ELSE nic.ring[drv.cur + k]

Whole == LET head == nic.ring[drv.cur]
         IN  \A k \in 0 .. head.len + 1 :
               UnitAt(k).frame = head.frame /\ UnitAt(k).part = k

\* Ring mode: the frame is copied and its space given back.
TakeFromRing ==
    /\ drv.pc = "rx" /\ ~NoFrameWaits /\ ~drv.mode.cplus
    /\ LET head == nic.ring[drv.cur]
       IN  drv' = [ drv EXCEPT !.pc = "cap",
                      !.taken = IF Whole THEN head.frame ELSE 0,
                      !.cur = (@ + head.len + 2) % RingUnits ]
    /\ UNCHANGED <<nic, made>>

MoveCap ==
    /\ drv.pc = "cap"
    /\ nic' = WriteRxBufPtr(nic, RingUnits + drv.cur - CapOffset)
    /\ drv' = [ drv EXCEPT !.pc = "rx" ]
    /\ UNCHANGED made

\* C+ mode: the descriptor is given back to the card.
TakeFromDesc ==
    /\ drv.pc = "rx" /\ ~NoFrameWaits /\ drv.mode.cplus
    /\ drv' = [ drv EXCEPT !.taken = nic.rxd[drv.cur].frame,
                           !.cur = (@ + 1) % RxDescs ]
    /\ nic' = [ nic EXCEPT !.rxd[drv.cur].own = TRUE,
                           !.rxd[drv.cur].frame = 0 ]
    /\ UNCHANGED made

Finished(i) == IF drv.mode.cplus THEN ~nic.txd[i % TxDescs].own
               ELSE nic.tsd[i % 4].ok

TxDone ==
    /\ drv.pc = "tx"
    /\ IF drv.dirty < drv.curTx /\ Finished(drv.dirty)
       THEN drv' = [ drv EXCEPT !.dirty = @ + 1 ]
       ELSE drv' = [ drv EXCEPT !.pc = "isr" ]
    /\ UNCHANGED <<nic, made>>

ToSend == [ id |-> made + 1, len |-> 1, dest |-> "us" ]

SendFromRegister ==
    /\ drv.pc = "idle" /\ ~drv.mode.cplus
    /\ drv.sends < MaxSends /\ made < MaxFrames
    /\ drv.curTx - drv.dirty < 4
    /\ nic' = WriteTxStatus(nic, drv.curTx % 4, ToSend)
    /\ drv' = [ drv EXCEPT !.curTx = @ + 1, !.sends = @ + 1 ]
    /\ made' = made + 1

Desc(i, fs, ls, part) ==
    [ own |-> TRUE, eor |-> i = TxDescs - 1, fs |-> fs, ls |-> ls,
      part |-> part ]

\* A frame in one or two segments, then TxPoll.  The card looks at the
\* descriptors only then, so that filling them is part of this step.
SendFromDescs ==
    /\ drv.pc = "idle" /\ drv.mode.cplus
    /\ drv.sends < MaxSends /\ made < MaxFrames
    /\ \E n \in {1, 2} :
         LET first  == drv.curTx % TxDescs
             second == (drv.curTx + 1) % TxDescs
         IN  /\ drv.curTx + n - drv.dirty <= TxDescs
             /\ nic' = CpTransmit([ nic EXCEPT !.txd =
                  [ i \in DOMAIN @ |->
                      IF i = first THEN Desc(i, TRUE, n = 1, <<ToSend>>)
                      ELSE IF i = second /\ n = 2
                      THEN Desc(i, FALSE, TRUE, <<>>) ELSE @[i] ] ])
             /\ drv' = [ drv EXCEPT !.curTx = @ + n, !.sends = @ + 1 ]
    /\ made' = made + 1

Drives ==
    \/ ResetPort \/ Enable \/ Configure \/ SetRings \/ ReadEvents
    \/ Acknowledged \/ RxDone \/ TakeFromRing \/ MoveCap \/ TakeFromDesc
    \/ TxDone

-----------------------------------------------------------------------------
(* The system                                                              *)

Pics == [ PowerOn EXCEPT !["master"].imr = {}, !["slave"].imr = {},
                         !["master"].icwstep = 5, !["slave"].icwstep = 5 ]

\* machine_platform_reset: the PCI bus forgets the pin, the card resets, and
\* the guest starts over.
PlatformReset ==
    /\ drv.resets < MaxResets
    /\ drv.pc # "reset"
    /\ nic' = [ ResetCard(nic) EXCEPT !.pics = Pics, !.asserted = FALSE ]
    /\ drv' = [ drv EXCEPT !.pc = "reset", !.resets = @ + 1,
                           !.dirty = drv.curTx, !.events = {} ]
    /\ UNCHANGED made

Init ==
    /\ nic = CardStart(Pics) /\ made = 0
    /\ drv = [ pc |-> "reset", mode |-> CHOOSE m \in Modes : TRUE, cur |-> 0,
               curTx |-> 0, dirty |-> 0, sends |-> 0, events |-> {},
               resets |-> 0, taken |-> 0 ]

Next ==
    \/ \E k \in Kinds : HostTick(k)
    \/ LinkTurns \/ Suspend \/ Interrupt \/ SendFromRegister \/ SendFromDescs
    \/ PlatformReset \/ Drives

\* The processor takes interrupts and the driver goes on.
Fairness == WF_vars(Interrupt) /\ WF_vars(Drives)

Spec == Init /\ [][Next]_vars /\ Fairness

-----------------------------------------------------------------------------
(* Properties                                                              *)

\* Where the frames in the ring begin, oldest first; each takes at least
\* three units.
HeldInRing ==
    LET b[k \in 0 .. RingUnits \div 3] ==
          IF k = 0 THEN drv.cur
          ELSE (b[k - 1] + nic.ring[b[k - 1]].len + 2) % RingUnits
        ends  == { k \in DOMAIN b : b[k] = nic.addr }
        count == CHOOSE k \in ends : \A j \in ends : k <= j
    IN  IF ends = {} THEN <<0>>
        ELSE [ i \in 1 .. count |-> nic.ring[b[i - 1]].frame ]

HeldInDescs ==
    LET at(k) == nic.rxd[(drv.cur + k) % RxDescs]
        mine  == { n \in 0 .. RxDescs : \A k \in 0 .. n - 1 : ~at(k).own }
        count == CHOOSE n \in mine : \A j \in mine : j <= n
    IN  [ i \in 1 .. count |-> at(i - 1).frame ]

Running == drv.pc \notin {"reset", "enable", "config"}

Held == CASE ~Running       -> <<>>
          [] drv.mode.cplus -> HeldInDescs
          [] OTHER          -> HeldInRing

\* Whatever comes while the driver reads, acknowledges, sends, suspends and
\* starts again, and through loopback, accepted frames are handed over whole,
\* once each and in order, over the wrap of the ring and up to its limit.
Frames == INSTANCE FrameQueue WITH
            Frames <- 1 .. MaxFrames, queue <- Held,
            taken <- drv.taken, resets <- drv.resets

ImplementsFrameQueue == Frames!Spec

\* Nothing is in the ring, and no transmission is under way.
Quiet == Held = <<>> /\ drv.dirty = drv.curTx

\* The four transmit registers are used in turn by both sides.
TypeOK ==
    /\ nic.pics \in PicState /\ nic.isr \subseteq Event
    /\ nic.addr \in 0 .. RingUnits - 1 /\ nic.ptr \in 0 .. RingUnits - 1
    /\ nic.currRx \in 0 .. RxDescs - 1
    /\ Running /\ ~drv.mode.cplus => nic.currTx = drv.curTx % 4
=============================================================================
