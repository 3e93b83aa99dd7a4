-------------------------------- MODULE Uart --------------------------------
(***************************************************************************)
(* The 8250 UART (chipset/uart.c) as operators on its state u.  Every      *)
(* handler ends in uart_update_interrupt_line, which is Settle; the edge   *)
(* it sends to the interrupt controller is LineAfter.                      *)
(*                                                                         *)
(* pendirq is a set of causes: only the receiver and the transmitter are   *)
(* ever set.  Baud rate, word length, scratch and modem status registers   *)
(* drive nothing and are left out.                                         *)
(***************************************************************************)
EXTENDS I8259

Cause == {"rx", "tx"}

\* base says whether the ports are registered, wired whether the host side
\* takes transmitted bytes (txCb), line is irqLineActive.
UartState(Byte) ==
    [ rx : Byte, rxnew : Bit, pend : SUBSET Cause, ien : SUBSET Cause,
      out2 : Bit, loop : Bit, dlab : Bit, line : Bit, irq : {3, 4},
      base : Bit, wired : Bit ]

\* uart_init: everything is cleared.
UartAt(irq, wired, byte) ==
    [ rx |-> byte, rxnew |-> 0, pend |-> {}, ien |-> {}, out2 |-> 0,
      loop |-> 0, dlab |-> 0, line |-> 0, irq |-> irq, base |-> 1,
      wired |-> wired ]

WantsIrq(u) == u.pend # {} /\ u.out2 = 1

Settle(u) == [ u EXCEPT !.line = IF WantsIrq(u) THEN 1 ELSE 0 ]

\* The controllers after a handler took the UART from u to v.
LineAfter(p, u, v) ==
    IF u.line = v.line THEN p ELSE SetLevelIrq(p, "master", v.irq, v.line = 1)

-----------------------------------------------------------------------------
(* A byte from the line: there is no overrun, the last byte wins.          *)

\* Mutant of RxData: the line is left as it was.
RxDataStored(u, byte) ==
    [ u EXCEPT !.rx = byte, !.rxnew = 1, !.pend = @ \cup (u.ien \cap {"rx"}) ]

RxData(u, byte) ==
    Settle([ u EXCEPT !.rx = byte, !.rxnew = 1,
                      !.pend = @ \cup (u.ien \cap {"rx"}) ])

-----------------------------------------------------------------------------
(* Port writes                                                             *)

WriteData(u, byte) ==
    IF u.dlab = 1       THEN u
    ELSE IF u.loop = 1  THEN RxData(u, byte)
    ELSE IF u.wired = 1 THEN Settle([ u EXCEPT !.pend = @ \cup (u.ien \cap {"tx"}) ])
    ELSE u

\* Mutant of WriteIen: a byte that waits is not announced.
WriteIenSilent(u, ien) ==
    IF u.dlab = 1 THEN u ELSE Settle([ u EXCEPT !.ien = ien ])

\* Enabling the receiver interrupt announces a byte that waits already.
WriteIen(u, ien) ==
    LET announced == IF "rx" \in ien \ u.ien /\ u.rxnew = 1 THEN {"rx"} ELSE {}
    IN  IF u.dlab = 1 THEN u
        ELSE Settle([ u EXCEPT !.ien = ien, !.pend = @ \cup announced ])

WriteLcr(u, dlab) == [ u EXCEPT !.dlab = dlab ]

\* The callback of the mouse may discard the byte that waits.
Discarded(u) == [ u EXCEPT !.rxnew = 0, !.pend = @ \ {"rx"} ]

\* Mutant of WriteMcr: the byte that waits is kept.
WriteMcrKeeps(u, out2, loop, discard) ==
    Settle([ u EXCEPT !.out2 = out2, !.loop = loop ])

WriteMcr(u, out2, loop, discard) ==
    LET v == IF discard THEN Discarded(u) ELSE u
    IN  Settle([ v EXCEPT !.out2 = out2, !.loop = loop ])

-----------------------------------------------------------------------------
(* Port reads                                                              *)

ReadData(u) ==
    IF u.dlab = 1 THEN u ELSE Settle(Discarded(u))

\* Reading IIR acknowledges the transmitter when nothing precedes it.
ReadIir(u) ==
    Settle([ u EXCEPT !.pend = IF "rx" \in u.pend THEN @ ELSE @ \ {"tx"} ])

-----------------------------------------------------------------------------
(* Reconfiguration by the super I/O chip                                   *)

\* uart_remove leaves the enables behind.
Removed(u) == IF u.base = 0 THEN u
              ELSE [ u EXCEPT !.base = 0, !.line = 0, !.pend = {} ]
=============================================================================
