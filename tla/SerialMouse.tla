---------------------------- MODULE SerialMouse ----------------------------
(***************************************************************************)
(* The Microsoft serial mouse (input/mouse.c) on its UART, the interrupt   *)
(* controllers behind it, and a guest driver in front: every hand-over     *)
(* between the host's event, the mouse's packet, the receiver, the         *)
(* interrupt and the driver's read.                                        *)
(*                                                                         *)
(* Motion is modelled along one axis and with one button: the other axis   *)
(* and button travel in the same packets and take the same path.           *)
(***************************************************************************)
EXTENDS Uart, Integers, SequencesExt

CONSTANTS
  Moves,      \* the motions the host may report at once
  MaxEvents,  \* bound on host events
  MaxOpens,   \* bound on how often the driver is (re)opened
  EoiFirst    \* does the driver end the interrupt before it reads?

BoundsAssumption ==
    Moves \subseteq Int /\ MaxEvents \in Nat /\ MaxOpens \in Nat
    /\ EoiFirst \in BOOLEAN

VARIABLES
  pics, uart,
  mouse,    \* pending motion px, buttonsDirty, button, bytes still to send
  driver,   \* the guest driver: where it is and what it has read
  events,   \* host events so far
  opens,    \* driver opens so far
  owed      \* history: motion reported since the last reset, not yet read

vars == <<pics, uart, mouse, driver, events, opens, owed>>

MouseIrq == 4

-----------------------------------------------------------------------------
(* Packets.  A byte is <<1, button, high>> with the synchronisation bit,   *)
(* <<0, low>> without, or the identification Id.                          *)

Id == <<2, 0>>

Encode(x) == LET v == x % 256 IN [ high |-> v \div 64, low |-> v % 64 ]

Decode(high, low) ==
    LET v == 64 * high + low IN IF v >= 128 THEN v - 256 ELSE v

Packet(left, x) ==
    << <<1, left, Encode(x).high>>, <<0, Encode(x).low>>, <<0, 0>> >>

Wire == {Id} \cup ({1} \X Bit \X (0 .. 3)) \cup ({0} \X (0 .. 63))

IsSync(b) == b[1] = 1

\* The motion in a stream of bytes: each synchronisation byte with the next.
Motion(s) ==
    FoldLeft(LAMBDA sum, i :
               sum + IF IsSync(s[i]) /\ i < Len(s)
                     THEN Decode(s[i][3], s[i + 1][2])
                     ELSE 0,
             0, [ i \in 1 .. Len(s) |-> i ])

-----------------------------------------------------------------------------
(* mouse.c                                                                 *)

Clamp(x) == IF x < -128 THEN -128 ELSE IF x > 127 THEN 127 ELSE x

HasPacket(m) == m.px # 0 \/ m.dirty = 1

Prepared(m) ==
    IF m.tx # <<>> \/ ~HasPacket(m) THEN m
    ELSE [ m EXCEPT !.px = @ - Clamp(m.px), !.dirty = 0,
                    !.tx = Packet(m.left, Clamp(m.px)) ]

\* mouse_action
HostMove(x) ==
    /\ events < MaxEvents
    /\ mouse' = [ mouse EXCEPT !.px = @ + x ]
    /\ events' = events + 1
    /\ owed' = owed + x
    /\ UNCHANGED <<pics, uart, driver, opens>>

HostButton(left) ==
    /\ events < MaxEvents
    /\ mouse' = [ mouse EXCEPT !.left = left, !.dirty = 1 ]
    /\ events' = events + 1
    /\ UNCHANGED <<pics, uart, driver, opens, owed>>

\* The UART goes to v and its line edge to the controllers.
UartTo(v) == uart' = v /\ pics' = LineAfter(pics, uart, v)

\* mouse_rxpoll, from the timer: prepare a packet, wait for the receiver to
\* be empty, or send one byte and prepare the next packet after the last.
Poll ==
    /\ IF mouse.tx = <<>>
       THEN mouse' = Prepared(mouse) /\ UNCHANGED <<uart, pics>>
       ELSE IF uart.rxnew = 1 THEN UNCHANGED <<mouse, uart, pics>>
       ELSE /\ UartTo(RxData(uart, Head(mouse.tx)))
            /\ mouse' = Prepared([ mouse EXCEPT !.tx = Tail(@) ])
    /\ UNCHANGED <<driver, events, opens, owed>>

\* A write of MCR, with the reset that a rising RTS triggers.
Mcr(out2, rts) ==
    LET resets == rts = 1 /\ mouse.rts = 0
    IN  /\ UartTo(WriteMcr(uart, out2, 0, resets))
        /\ mouse' = IF resets
                    THEN [ mouse EXCEPT !.px = 0, !.dirty = 0,
                                        !.tx = <<Id>>, !.rts = 1 ]
                    ELSE [ mouse EXCEPT !.rts = rts ]

-----------------------------------------------------------------------------
(* The guest driver: opens the port with interrupts disabled, and serves   *)
(* one interrupt by reading until IIR reports nothing.                     *)

Goto(pc) == driver' = [ driver EXCEPT !.pc = pc ]

Reopen ==
    /\ driver.pc = "idle" /\ opens < MaxOpens
    /\ Goto("drop")
    /\ opens' = opens + 1
    /\ UNCHANGED <<pics, uart, mouse, events, owed>>

DropRts ==
    /\ driver.pc = "drop"
    /\ Mcr(0, 0) /\ Goto("toggle")
    /\ UNCHANGED <<events, opens, owed>>

RaiseRts ==
    /\ driver.pc = "toggle"
    /\ Mcr(1, 1)
    /\ driver' = [ driver EXCEPT !.pc = "enable", !.asm = <<>>, !.id = 1,
                                 !.left = 2 ]
    /\ owed' = 0
    /\ UNCHANGED <<events, opens>>

EnableRx ==
    /\ driver.pc = "enable"
    /\ UartTo(WriteIen(uart, {"rx"})) /\ Goto("idle")
    /\ UNCHANGED <<mouse, events, opens, owed>>

TakeInterrupt ==
    /\ driver.pc = "idle" /\ HasPending(pics, "master")
    /\ pics' = AfterCheck(pics)
    /\ Goto(IF EoiFirst THEN "eoi" ELSE "iir")
    /\ UNCHANGED <<uart, mouse, events, opens, owed>>

End ==
    /\ driver.pc = "eoi"
    /\ pics' = NonSpecificEoi(pics, "master")
    /\ Goto(IF EoiFirst THEN "iir" ELSE "idle")
    /\ UNCHANGED <<uart, mouse, events, opens, owed>>

ReadIirPort ==
    /\ driver.pc = "iir"
    /\ UartTo(ReadIir(uart))
    /\ Goto(IF uart.pend # {} THEN "read" ELSE IF EoiFirst THEN "idle" ELSE "eoi")
    /\ UNCHANGED <<mouse, events, opens, owed>>

\* The byte completes a packet, starts one, or is the identification that
\* follows a reset.
Digest(b) ==
    LET asm == IF IsSync(b) THEN <<b>> ELSE Append(driver.asm, b)
    IN  IF driver.id = 1 THEN [ driver EXCEPT !.pc = "iir", !.id = 0 ]
        ELSE IF Len(asm) = 3
        THEN [ driver EXCEPT !.pc = "iir", !.asm = <<>>, !.left = asm[1][2] ]
        ELSE [ driver EXCEPT !.pc = "iir", !.asm = asm ]

ReadByte ==
    /\ driver.pc = "read"
    /\ UartTo(ReadData(uart))
    /\ driver' = Digest(uart.rx)
    /\ owed' = LET asm == Append(driver.asm, uart.rx)
               IN  IF driver.id = 0 /\ Len(asm) = 3 THEN owed - Motion(asm)
                   ELSE owed
    /\ UNCHANGED <<mouse, events, opens>>

-----------------------------------------------------------------------------

\* The controllers as the BIOS leaves them, all lines unmasked.
Booted ==
    LET icw == WriteIcw4(WriteIcw3(WriteIcw2(WriteIcw1(PowerOn, "master", 0, 1),
                 "master", 8), "master"), "master")
    IN  WriteMask(icw, "master", {})

Init ==
    /\ pics = Booted
    /\ uart = UartAt(MouseIrq, 1, Id)
    /\ mouse = [ px |-> 0, dirty |-> 0, left |-> 0, tx |-> <<>>, rts |-> 0 ]
    /\ driver = [ pc |-> "drop", asm |-> <<>>, id |-> 0, left |-> 2 ]
    /\ events = 0 /\ opens = 0 /\ owed = 0

Serve == TakeInterrupt \/ End \/ ReadIirPort \/ ReadByte
Open  == DropRts \/ RaiseRts \/ EnableRx

Next ==
    \/ \E x \in Moves : HostMove(x)
    \/ \E left \in Bit : HostButton(left)
    \/ Poll \/ Reopen \/ Open \/ Serve

\* timing_loop keeps calling the mouse, and the CPU keeps executing the
\* driver and taking interrupts between its instructions.
Fairness == WF_vars(Poll) /\ WF_vars(Open) /\ WF_vars(Serve)

Spec == Init /\ [][Next]_vars /\ Fairness

-----------------------------------------------------------------------------
(* Properties                                                              *)

\* The bytes under way, oldest first.
Stream == driver.asm \o (IF uart.rxnew = 1 THEN <<uart.rx>> ELSE <<>>) \o mouse.tx

TypeOK ==
    /\ pics \in PicState
    /\ [ uart EXCEPT !.rx = Id ] \in UartState({Id})
    /\ mouse.px \in Int /\ mouse.dirty \in Bit /\ mouse.left \in Bit
    /\ Len(mouse.tx) <= 3 /\ Len(driver.asm) <= 2
    /\ Range(Stream) \subseteq Wire
    /\ driver.left \in 0 .. 2

\* No motion is lost, duplicated or torn: what the host reported since the
\* last reset and the driver has not decoded is pending in the mouse or in
\* the bytes under way, whatever the interleaving of polls, reads and
\* interrupts, and however far one report exceeds a packet.
MotionConserved == owed = mouse.px + Motion(Stream)

\* Once the host and the driver's user stop, everything arrives: no byte is
\* stuck in the receiver for want of an interrupt, and the driver ends up
\* with the button as the host left it, unless no packet was sent since the
\* reset (the reset forgets a pending button).
Arrived   == owed = 0 /\ Stream = <<>> /\ driver.left \in {mouse.left, 2}
=============================================================================
