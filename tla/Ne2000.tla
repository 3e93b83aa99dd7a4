-------------------------------- MODULE Ne2000 --------------------------------
(***************************************************************************)
(* The NE2000 card between the host's network and a driver. First the      *)
(* host's packet buffer, then the card, then the composition with the      *)
(* guest.                                                                  *)
(*                                                                         *)
(* The packet buffer between the host's capture library and the card       *)
(* (pcap.c).  A timer drains the library into the buffer and hands the     *)
(* card the oldest packet, one per tick.                                   *)
(***************************************************************************)
EXTENDS Naturals, Sequences, SequencesExt, I8259, FiniteSets

CONSTANT Slots    \* size of pcap_buffer (128 in the code)

SlotsAssumption == Slots \in Nat \ {0}

\* pcap_rx_buf: a full buffer is emptied for the packet that finds it full.
Buffer(b, f) == Append(IF Len(b) = Slots THEN <<>> ELSE b, f)

\* pcap_check_packets up to the callback: every waiting packet is buffered.
Drained(b, waiting) == FoldLeft(Buffer, b, waiting)

\* What the callback gets and what stays in the buffer.
Handed(b)  == b[1]
Shifted(b) == Tail(b)

-----------------------------------------------------------------------------
(***************************************************************************)
(* The NE2000 network card (io/ne2000.c): a DS8390 with its buffer memory, *)
(* on the interrupt controllers.  Functions of the code are operators on   *)
(* the card n, whose field pics is the 8259 pair it points to.             *)
(*                                                                         *)
(* A register is written by its name: the page select bits are not state.  *)
(* The memory is counted in units, two to a page of 256 bytes: the first   *)
(* unit of a frame holds its header, the others its data.  An access of    *)
(* the data port moves one unit.  A unit is [frame, part, next, pages]:    *)
(* which frame and which of its units, and in unit 0 the header's link     *)
(* and length.  Frame 0 is no frame.                                       *)
(***************************************************************************)

CONSTANT MemPages    \* pages of the buffer memory, numbered from 1

MemoryAssumption == MemPages \in Nat \ {0}

Irq     == [chip |-> "slave", line |-> 2]     \* IRQ 10
Event   == {"rx", "tx", "rdma", "reset"}
Accepts == {"runts", "broadcast", "multicast", "promisc"}

Page  == 0 .. MemPages + 1
Units == 2 .. 2 * MemPages + 1
Clear == [frame |-> 0, part |-> 0, next |-> 0, pages |-> 0]

\* The unit at part k of frame f; next is the link of its header.
UnitOf(f, k, next) ==
    [ frame |-> f.id, part |-> k,
      next  |-> IF k = 0 THEN next ELSE 0,
      pages |-> IF k = 0 THEN f.pages ELSE 0 ]

-----------------------------------------------------------------------------
(* Interrupts and reset                                                    *)

\* ne2000_raise_irq: the request is only ever raised, never withdrawn.
RaiseIrq(n) == [ n EXCEPT !.pics = DoIrq(@, Irq.chip, Irq.line) ]

RaiseIf(n, b) == IF b THEN RaiseIrq(n) ELSE n

\* An event is recorded; it interrupts if it is not masked.
Announce(n, e) == RaiseIf([ n EXCEPT !.isr = @ \cup {e} ], e \in n.imr)

\* ne2000_reset.  MAC address, multicast hash and data sent so far stay; the
\* timer of a transmission in flight is not stopped.
ResetCard(n) ==
    RaiseIrq([ n EXCEPT
        !.stop = TRUE, !.start = FALSE, !.rdma = 4, !.isr = {"reset"},
        !.imr = {}, !.accept = {}, !.loop = 0, !.pstart = 0, !.pstop = 0,
        !.bnry = 0, !.curr = 0, !.tpsr = 0, !.tbytes = 0,
        !.dma = 0, !.bytes = 0,
        !.mem = [ u \in Units |-> Clear ] ])

\* ne2000_init.
CardStart(pics) ==
    ResetCard([ stop |-> TRUE, start |-> FALSE, rdma |-> 4, isr |-> {},
                imr |-> {}, accept |-> {}, loop |-> 0, pstart |-> 0,
                pstop |-> 0, bnry |-> 0, curr |-> 0, tpsr |-> 0,
                tbytes |-> 0, dma |-> 0, bytes |-> 0, timer |-> FALSE,
                mem |-> [ u \in Units |-> Clear ], pics |-> pics ])

-----------------------------------------------------------------------------
(* The data port: remote DMA                                               *)

\* ne2000_chipmem_read_w: 0xffff outside the memory.
ChipMem(n, u) == IF u \in DOMAIN n.mem THEN n.mem[u] ELSE Clear

\* The address wraps at the end of the receive ring, and only there.
Advance(n) == IF n.dma + 1 = 2 * n.pstop THEN 2 * n.pstart ELSE n.dma + 1

\* ne2000_dma_read.  A read past the count is done again and again.
DmaRead(n) ==
    LET m == [ n EXCEPT !.dma = Advance(n),
                        !.bytes = IF @ > 0 THEN @ - 1 ELSE 0 ]
    IN  IF m.bytes = 0 THEN Announce(m, "rdma") ELSE m

\* ne2000_asic_read_w returns ChipMem(n, n.dma); the card is then:
AsicRead(n) == DmaRead(n)

\* ne2000_dma_write.
DmaWrite(n) ==
    LET m == [ n EXCEPT !.dma = Advance(n), !.bytes = @ - 1 ]
    IN  IF m.bytes = 0 THEN Announce(m, "rdma") ELSE m

\* ne2000_asic_write_w: ignored when no bytes are expected.
AsicWrite(n, unit) ==
    IF n.bytes = 0 THEN n
    ELSE DmaWrite([ n EXCEPT !.mem = IF n.dma \in DOMAIN @
                                     THEN [@ EXCEPT ![n.dma] = unit]
                                     ELSE @ ])

-----------------------------------------------------------------------------
(* Reception                                                               *)

\* Mutant of Available: the boundary page itself counts as free.
AvailableOneMore(n) ==
    IF n.curr < n.bnry THEN n.bnry - n.curr + 1
    ELSE (n.pstop - n.pstart) - (n.curr - n.bnry) + 1

Available(n) ==
    IF n.curr < n.bnry THEN n.bnry - n.curr
    ELSE (n.pstop - n.pstart) - (n.curr - n.bnry)

\* The address filter.
Wanted(n, f) ==
    \/ "promisc" \in n.accept
    \/ f.dest = "us"
    \/ f.dest = "broadcast" /\ "broadcast" \in n.accept
    \/ f.dest = "hashed" /\ "multicast" \in n.accept

\* Every early return of ne2000_rx_frame.  A ring that the frame would fill
\* exactly is too small: curr = bnry would read as empty.
Receives(n, f) ==
    /\ ~n.stop /\ n.pstart # 0
    /\ Available(n) > f.pages
    /\ f.runt => "runts" \in n.accept
    /\ Wanted(n, f)

NextPage(n, f) ==
    IF n.curr + f.pages >= n.pstop
    THEN n.curr + f.pages - (n.pstop - n.pstart)
    ELSE n.curr + f.pages

\* Where unit k of a frame at page curr goes: over the end of the ring to
\* its first page.
Place(n, k) ==
    IF 2 * n.curr + k >= 2 * n.pstop
    THEN 2 * n.curr + k - 2 * (n.pstop - n.pstart) ELSE 2 * n.curr + k

\* ne2000_rx_frame.
RxFrame(n, f) ==
    IF ~Receives(n, f) THEN n
    ELSE Announce(
        [ n EXCEPT !.curr = NextPage(n, f),
                   !.mem  = [ u \in DOMAIN @ |->
                       IF \E k \in 0 .. 2 * f.pages - 1 : u = Place(n, k)
                       THEN UnitOf(f, CHOOSE k \in 0 .. 2 * f.pages - 1 :
                                          u = Place(n, k), NextPage(n, f))
                       ELSE @[u] ] ], "rx")

-----------------------------------------------------------------------------
(* Transmission                                                            *)

\* A completion interrupts only when the last one has been acknowledged.
Completed(n) ==
    [ RaiseIf(n, "tx" \in n.imr /\ "tx" \notin n.isr)
      EXCEPT !.isr = @ \cup {"tx"} ]

\* NE2000_tx_timer.
TxTimer(n) == [ Completed(n) EXCEPT !.timer = FALSE ]

\* What the transmitter takes from the memory.
Outgoing(n) == [ id    |-> ChipMem(n, 2 * n.tpsr).frame,
                 pages |-> n.tbytes, runt |-> FALSE, dest |-> "us" ]

\* TXP: in loopback mode 1 the frame is received at once, other loopback
\* modes do nothing, and without loopback it goes to the host and the timer
\* is set.
Transmit(n) ==
    CASE n.loop = 1 -> Completed(RxFrame(n, Outgoing(n)))
      [] n.loop = 0 -> [ n EXCEPT !.timer = TRUE ]
      [] OTHER      -> n

-----------------------------------------------------------------------------
(* Registers                                                               *)

\* ne2000_read: reading changes nothing.
ReadPage0(n, reg) == CASE reg = "ISR"  -> n.isr
                       [] reg = "BNRY" -> n.bnry
                       [] reg = "CRDA" -> n.dma

ReadCurr(n) == n.curr

\* The command register.  cmd: stop, start, txp and the remote DMA command.
WriteCr(n, cmd) ==
    LET rdma == IF cmd.rdma = 0 THEN 4 ELSE cmd.rdma
        a    == [ n EXCEPT
                    !.stop = cmd.stop, !.rdma = rdma, !.start = cmd.start,
                    !.isr = (IF cmd.stop THEN @ \cup {"reset"} ELSE @)
                            \ (IF cmd.start /\ ~n.start
                               THEN {"reset"} ELSE {}) ]
        b    == IF rdma # 3 THEN a
                ELSE [ a EXCEPT !.dma = 2 * n.bnry,
                           !.bytes = 2 * ChipMem(n, 2 * n.bnry).pages ]
        c    == IF cmd.txp THEN Transmit(b) ELSE b
    IN  IF rdma = 1 /\ cmd.start /\ c.bytes = 0
        THEN Announce(c, "rdma") ELSE c

\* A mask that lets a waiting event through announces it.
WriteImr(n, mask) ==
    RaiseIf([ n EXCEPT !.imr = mask ],
            ((n.isr \ {"reset"}) \cap mask) # {})

\* Acknowledging some events announces the others again.
WriteIsr(n, ack) ==
    LET left == n.isr \ (ack \ {"reset"})
    IN  RaiseIf([ n EXCEPT !.isr = left ],
                ((left \ {"reset"}) \cap n.imr) # {})

\* The other registers of page 0.  RSAR sets start and address at once.
WritePage0(n, reg, v) ==
    CASE reg = "PSTART" -> [ n EXCEPT !.pstart = v ]
      [] reg = "PSTOP"  -> [ n EXCEPT !.pstop  = v ]
      [] reg = "BNRY"   -> [ n EXCEPT !.bnry   = v ]
      [] reg = "TPSR"   -> [ n EXCEPT !.tpsr   = v ]
      [] reg = "TBCR"   -> [ n EXCEPT !.tbytes = v ]
      [] reg = "RSAR"   -> [ n EXCEPT !.dma    = v ]
      [] reg = "RBCR"   -> [ n EXCEPT !.bytes  = v ]
      [] reg = "RCR"    -> [ n EXCEPT !.accept = v ]
      [] reg = "TCR"    -> [ n EXCEPT !.loop   = v ]
      [] reg = "IMR"    -> WriteImr(n, v)
      [] reg = "ISR"    -> WriteIsr(n, v)

\* Page 1 that matters to a driver: the page the next frame will go to.
WriteCurr(n, v) == [ n EXCEPT !.curr = v ]

-----------------------------------------------------------------------------
(***************************************************************************)
(* The NE2000 between the host network and a driver.  The host side is the *)
(* packet buffer of pcap.c and its timer; the driver programs the card as  *)
(* drivers of the 8390 do: it acknowledges an event before it looks for    *)
(* what caused it, ends the interrupt first, masks the card while it       *)
(* copies a frame out, and has one transmission in flight.                 *)
(***************************************************************************)

CONSTANTS
  Start, Stop,   \* the receive ring the driver sets up, pages Start..Stop-1
  TxPage,        \* its transmit buffer
  Kinds,         \* the frames that come: [pages, runt, dest]
  MaxFrames,     \* frames the wire brings
  Burst,         \* frames that come between two ticks of the host timer
  MaxSends,      \* frames the driver sends
  MaxResets      \* times it resets the card, the first included

SystemAssumption ==
    /\ Start \in 1 .. MemPages /\ Stop \in Start .. MemPages + 1
    /\ TxPage \in 1 .. MemPages

VARIABLES
  nic,     \* the card with the interrupt controllers
  buffer,  \* pcap_buffer
  made,    \* frames the wire has brought
  drv      \* the driver

vars == <<nic, buffer, made, drv>>

Frame == { [id |-> i, pages |-> k.pages, runt |-> k.runt, dest |-> k.dest] :
             i \in 1 .. MaxFrames, k \in Kinds }

Interrupts == {"rx", "tx"}     \* what the driver enables

\* The order in which 8390 drivers set the card up.
Program ==
    << <<"RCR", {}>>, <<"TCR", 1>>, <<"TPSR", TxPage>>, <<"PSTART", Start>>,
       <<"BNRY", Stop - 1>>, <<"PSTOP", Stop>>, <<"ISR", Event>>,
       <<"IMR", {}>>, <<"CURR", Start>>, <<"ISR", Event>>,
       <<"IMR", Interrupts>>, <<"CR", "start">>, <<"TCR", 0>>,
       <<"RCR", {"broadcast", "multicast"}>> >>

Command(stop, start, txp, rdma) ==
    [ stop |-> stop, start |-> start, txp |-> txp, rdma |-> rdma ]

Write(n, w) ==
    CASE w[1] = "CURR" -> WriteCurr(n, w[2])
      [] w[1] = "CR"   -> WriteCr(n, Command(FALSE, TRUE, FALSE, 4))
      [] OTHER         -> WritePage0(n, w[1], w[2])

\* Remote DMA of count units from unit u: the three writes that set it up.
SetUpDma(n, u, count, rdma) ==
    WriteCr(WritePage0(WritePage0(n, "RSAR", u), "RBCR", count),
            Command(FALSE, TRUE, FALSE, rdma))

Before(p) == IF p = Start THEN Stop - 1 ELSE p - 1

-----------------------------------------------------------------------------
(* Host and card                                                           *)

\* pcap_check_packets: what waits in the library goes to the buffer, the
\* oldest packet to the card.
HostTick ==
    \E arrived \in UNION { [1 .. c -> Kinds] : c \in 0 .. Burst } :
      LET fs == [ i \in DOMAIN arrived |->
                    [ id |-> made + i, pages |-> arrived[i].pages,
                      runt |-> arrived[i].runt, dest |-> arrived[i].dest ] ]
          b  == Drained(buffer, fs)
      IN  /\ made + Len(arrived) <= MaxFrames
          /\ b # <<>>
          /\ made' = made + Len(arrived)
          /\ buffer' = Shifted(b)
          /\ nic' = RxFrame(nic, Handed(b))
          /\ UNCHANGED drv

TxEnds ==
    /\ nic.timer
    /\ nic' = TxTimer(nic)
    /\ UNCHANGED <<buffer, made, drv>>

-----------------------------------------------------------------------------
(* The driver                                                              *)

Host == <<buffer, made>>

ResetPort ==
    /\ drv.pc = "reset"
    /\ nic' = ResetCard(nic)
    /\ drv' = [ drv EXCEPT !.pc = "setup", !.step = 1, !.next = Start,
                           !.sending = FALSE, !.resets = @ + 1 ]
    /\ UNCHANGED Host

SetUp ==
    /\ drv.pc = "setup"
    /\ nic' = Write(nic, Program[drv.step])
    /\ drv' = IF drv.step < Len(Program) THEN [ drv EXCEPT !.step = @ + 1 ]
              ELSE [ drv EXCEPT !.pc = "idle", !.step = 0 ]
    /\ UNCHANGED Host

\* The driver gives up and starts again.
Restart ==
    /\ drv.pc = "idle" /\ drv.resets < MaxResets
    /\ drv' = [ drv EXCEPT !.pc = "reset" ]
    /\ UNCHANGED <<nic, Host>>

\* The processor takes the interrupt when the driver is not copying.
Interrupt ==
    /\ drv.pc = "idle" /\ HasPending(nic.pics, "master")
    /\ nic' = [ nic EXCEPT !.pics = AfterCheck(@) ]
    /\ drv' = [ drv EXCEPT !.pc = "eoi" ]
    /\ UNCHANGED Host

EndOfInterrupt ==
    /\ drv.pc = "eoi"
    /\ nic' = [ nic EXCEPT !.pics = SpecificEoi(
                  SpecificEoi(@, "slave", Irq.line), "master", Cascade) ]
    /\ drv' = [ drv EXCEPT !.pc = "isr" ]
    /\ UNCHANGED Host

ReadEvents ==
    /\ drv.pc = "isr"
    /\ LET events == ReadPage0(nic, "ISR") \cap Interrupts
       IN  drv' = [ drv EXCEPT !.pc = IF events = {} THEN "idle" ELSE "ack",
                               !.events = events ]
    /\ UNCHANGED <<nic, Host>>

Acknowledged ==
    /\ drv.pc = "ack"
    /\ nic' = WritePage0(nic, "ISR", drv.events)
    /\ drv' = [ drv EXCEPT
                  !.sending = @ /\ "tx" \notin drv.events, !.events = {},
                  !.pc = IF "rx" \in drv.events THEN "curr" ELSE "isr" ]
    /\ UNCHANGED Host

\* Is there a frame at the next page?
LookForFrame ==
    /\ drv.pc = "curr"
    /\ drv' = [ drv EXCEPT !.pc = IF ReadCurr(nic) = drv.next THEN "isr"
                                  ELSE "frame" ]
    /\ UNCHANGED <<nic, Host>>

\* The header by remote DMA: how long, and where the next frame begins.
ReadHeader ==
    /\ drv.pc = "frame"
    /\ nic' = SetUpDma(nic, 2 * drv.next, 1, 1)
    /\ drv' = [ drv EXCEPT !.pc = "header" ]
    /\ UNCHANGED Host

ReadData ==
    /\ drv.pc = "header"
    /\ LET head == ChipMem(nic, nic.dma)
       IN  /\ nic' = SetUpDma(AsicRead(nic), 2 * drv.next, 2 * head.pages, 1)
           /\ drv' = [ drv EXCEPT !.pc = "data", !.frame = head.frame,
                         !.left = 2 * head.pages, !.unit = 0,
                         !.next = head.next ]
    /\ UNCHANGED Host

\* One unit through the data port; one that does not belong there spoils
\* the frame.
ReadUnit ==
    /\ drv.pc = "data" /\ drv.unit < drv.left
    /\ LET got == ChipMem(nic, nic.dma)
       IN  drv' = [ drv EXCEPT !.unit = @ + 1,
                      !.frame = IF got.frame = @ /\ got.part = drv.unit
                                THEN @ ELSE 0 ]
    /\ nic' = AsicRead(nic)
    /\ UNCHANGED Host

HandOver ==
    /\ drv.pc = "data" /\ drv.unit = drv.left
    /\ drv' = [ drv EXCEPT !.pc = "bnry", !.taken = drv.frame,
                           !.frame = 0, !.left = 0, !.unit = 0 ]
    /\ UNCHANGED <<nic, Host>>

MoveBoundary ==
    /\ drv.pc = "bnry"
    /\ nic' = WritePage0(nic, "BNRY", Before(drv.next))
    /\ drv' = [ drv EXCEPT !.pc = "curr" ]
    /\ UNCHANGED Host

\* Transmission, with the card's interrupts masked.
Mask ==
    /\ drv.pc = "idle" /\ ~drv.sending /\ drv.sent < MaxSends
    /\ nic' = WritePage0(nic, "IMR", {})
    /\ drv' = [ drv EXCEPT !.pc = "copy" ]
    /\ UNCHANGED Host

Copy ==
    /\ drv.pc = "copy"
    /\ nic' = SetUpDma(nic, 2 * TxPage, 2, 2)
    /\ drv' = [ drv EXCEPT !.pc = "fill" ]
    /\ UNCHANGED Host

WriteUnit ==
    /\ drv.pc = "fill" /\ drv.unit < 2
    /\ nic' = AsicWrite(nic, [ frame |-> MaxFrames + drv.sent + 1,
                               part |-> drv.unit, next |-> 0, pages |-> 1 ])
    /\ drv' = [ drv EXCEPT !.unit = @ + 1 ]
    /\ UNCHANGED Host

\* The driver polls for the end of the remote DMA, then sends.
Send ==
    /\ drv.pc = "fill" /\ "rdma" \in ReadPage0(nic, "ISR")
    /\ nic' = WriteCr(WritePage0(WritePage0(nic, "ISR", {"rdma"}),
                                 "TBCR", 1),
                      Command(FALSE, TRUE, TRUE, 4))
    /\ drv' = [ drv EXCEPT !.pc = "unmask", !.unit = 0,
                           !.sent = @ + 1, !.sending = TRUE ]
    /\ UNCHANGED Host

Unmask ==
    /\ drv.pc = "unmask"
    /\ nic' = WritePage0(nic, "IMR", Interrupts)
    /\ drv' = [ drv EXCEPT !.pc = "idle" ]
    /\ UNCHANGED Host

Drives ==
    \/ ResetPort \/ SetUp \/ EndOfInterrupt \/ ReadEvents \/ Acknowledged
    \/ LookForFrame \/ ReadHeader \/ ReadData \/ ReadUnit \/ HandOver
    \/ MoveBoundary \/ Copy \/ WriteUnit \/ Send \/ Unmask

-----------------------------------------------------------------------------
(* The system                                                              *)

\* The interrupt controllers as the system software leaves them.
Pics == [ PowerOn EXCEPT !["master"].imr = {}, !["slave"].imr = {},
                         !["master"].icwstep = 5, !["slave"].icwstep = 5 ]

Init ==
    /\ nic = CardStart(Pics)
    /\ buffer = <<>> /\ made = 0
    /\ drv = [ pc |-> "reset", step |-> 0, next |-> Start, events |-> {},
               sending |-> FALSE, sent |-> 0, resets |-> 0, taken |-> 0,
               frame |-> 0, left |-> 0, unit |-> 0 ]

Next == HostTick \/ TxEnds \/ Restart \/ Interrupt \/ Mask \/ Drives

\* The timers run, the processor takes interrupts and the driver goes on.
Fairness ==
    WF_vars(TxEnds) /\ WF_vars(Interrupt) /\ WF_vars(Drives)

Spec == Init /\ [][Next]_vars /\ Fairness

-----------------------------------------------------------------------------
(* Properties                                                              *)

\* The driver has read the header and not yet handed the frame over.
InHand == drv.pc = "data"

\* The frames from the driver's next page up to CURR; links that do not
\* lead there hold a damaged frame.
Held ==
    LET b[k \in 0 .. Stop - Start] ==
          IF k = 0 THEN drv.next ELSE ChipMem(nic, 2 * b[k - 1]).next
        ends  == { k \in DOMAIN b : b[k] = nic.curr }
        count == CHOOSE k \in ends : \A j \in ends : k <= j
        rest  == [ i \in 1 .. count |-> ChipMem(nic, 2 * b[i - 1]).frame ]
    IN  IF nic.stop THEN <<>>
        ELSE (IF InHand THEN <<drv.frame>> ELSE <<>>)
             \o (IF ends = {} THEN <<0>> ELSE rest)

\* Whatever comes while the driver reads, masks, acknowledges, sends and
\* starts again, accepted frames are handed over whole, once each and in
\* order, over the wrap of the ring and up to its limit.
Frames == INSTANCE FrameQueue WITH
            Frames <- 1 .. MaxFrames, queue <- Held,
            taken <- drv.taken, resets <- drv.resets

ImplementsFrameQueue == Frames!Spec

\* Nothing is in the ring, and no transmission is under way.
Quiet == Held = <<>> /\ ~drv.sending

TypeOK ==
    /\ nic.pics \in PicState /\ nic.isr \subseteq Event
    /\ nic.dma \in 0 .. 2 * MemPages + 2 /\ nic.curr \in Page
    /\ nic.bytes \in Nat
    /\ Len(buffer) < Slots
=============================================================================
