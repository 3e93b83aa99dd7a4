--------------------------- MODULE UartInterrupts ---------------------------
(***************************************************************************)
(* The UARTs of the super I/O chip (fdc37c665_apply_serial; w83877.c does  *)
(* the same) on the interrupt controllers, driven by any guest.  The host  *)
(* side delivers bytes whenever the receiver is empty, as mouse_rxpoll     *)
(* does, whether or not the guest has the UART configured.                 *)
(***************************************************************************)
EXTENDS Uart

CONSTANTS
  Uarts,      \* the UARTs
  Mouse,      \* the one the serial mouse is attached to
  Byte,       \* the bytes that travel
  Enables,    \* the interrupt enables the guest may write
  Latches,    \* the values of LCR bit 7 the guest may write
  UartWrites  \* the writes to the controllers the guest may execute

UartAssumption ==
    /\ Byte # {}
    /\ Enables \subseteq SUBSET Cause /\ Latches \subseteq Bit
    /\ UartWrites \subseteq PicWrite

VARIABLES
  pair,     \* the 8259 pair
  uart,     \* UART -> its state
  orphans   \* history: IRQs whose line was active when its UART was wiped

serial == <<pair, uart, orphans>>

NoByte == CHOOSE b \in Byte : TRUE     \* the cleared register

Becomes(x, v) ==
    /\ uart' = [ uart EXCEPT ![x] = v ]
    /\ pair' = LineAfter(pair, uart[x], v)
    /\ UNCHANGED orphans

-----------------------------------------------------------------------------
(* Guest accesses reach a UART that is configured.                         *)

Access(x) ==
    /\ uart[x].base = 1
    /\ \/ \E b \in Byte : Becomes(x, WriteData(uart[x], b))
       \/ \E ien \in Enables : Becomes(x, WriteIen(uart[x], ien))
       \/ \E dlab \in Latches : Becomes(x, WriteLcr(uart[x], dlab))
       \/ \E out2, loop \in Bit, discard \in BOOLEAN :
            /\ discard => uart[x].wired = 1
            /\ Becomes(x, WriteMcr(uart[x], out2, loop, discard))
       \/ Becomes(x, ReadData(uart[x]))
       \/ Becomes(x, ReadIir(uart[x]))

\* The mouse sends when the last byte has been taken.
Receive(x, b) ==
    /\ uart[x].wired = 1 /\ uart[x].rxnew = 0
    /\ Becomes(x, RxData(uart[x], b))

\* uart_remove withdraws the request of a configured UART.
RemovedPics(x) ==
    IF uart[x].base = 1 THEN LineAfter(pair, uart[x], Removed(uart[x]))
    ELSE pair

Disable(x) ==
    /\ uart' = [ uart EXCEPT ![x] = Removed(uart[x]) ]
    /\ pair' = RemovedPics(x)
    /\ UNCHANGED orphans

\* uart_init after uart_remove.  A UART that was removed before is wiped
\* with its line still active.
Configure(x, irq) ==
    /\ uart' = [ uart EXCEPT ![x] = UartAt(irq, @.wired, NoByte) ]
    /\ pair' = RemovedPics(x)
    /\ orphans' = IF uart[x].base = 0 /\ uart[x].line = 1
                  THEN orphans \cup {uart[x].irq} ELSE orphans

UartCheck ==
    /\ HasPending(pair, "master")
    /\ pair' = AfterCheck(pair)
    /\ UNCHANGED <<uart, orphans>>

UartGuest(i) ==
    /\ pair' = PicsAfter(i, pair)
    /\ UNCHANGED <<uart, orphans>>

\* fdc37c665_reset configures both UARTs, COM1 on IRQ 4 and COM2 on IRQ 3;
\* the mouse may be on either.
UartInit ==
    /\ pair = PowerOn
    /\ \E irq \in [Uarts -> {3, 4}] :
         uart = [ x \in Uarts |->
                    UartAt(irq[x], IF x = Mouse THEN 1 ELSE 0, NoByte) ]
    /\ orphans = {}

UartNext ==
    \/ \E x \in Uarts :
         \/ Access(x) \/ Disable(x)
         \/ \E b \in Byte : Receive(x, b)
         \/ \E irq \in {3, 4} : Configure(x, irq)
    \/ UartCheck
    \/ \E i \in UartWrites : UartGuest(i)

UartSpec == UartInit /\ [][UartNext]_serial

-----------------------------------------------------------------------------
(* Properties                                                              *)

UartTypeOK ==
    /\ pair \in PicState
    /\ uart \in [Uarts -> UartState(Byte)]
    /\ orphans \subseteq {3, 4}

\* A byte that waits in a configured UART is announced as soon as the guest
\* enables the receiver interrupt, stays announced until it is read, and has
\* the line active while OUT2 lets it through: the edge detection of
\* uart_update_interrupt_line misses no change, whichever handler made it.
WaitingByteAnnounced ==
    \A x \in Uarts :
      uart[x].base = 1 /\ uart[x].rxnew = 1 /\ "rx" \in uart[x].ien
      => "rx" \in uart[x].pend /\ uart[x].line = uart[x].out2

\* IRQ 3 and 4 are requested only while a UART on them has a cause pending
\* and OUT2 set, but for requests orphaned by wiping a UART (see Configure).
NoUartGhost ==
    \A n \in {3, 4} \ orphans :
      n \in pair["master"].irr => \E x \in Uarts :
                                    uart[x].irq = n /\ WantsIrq(uart[x])

\* A byte that waits in a UART is announced until it is read, and no UART
\* leaves a request behind in the 8259 (uart_update_interrupt_line).
UartsAnnounce == UartTypeOK /\ WaitingByteAnnounced /\ NoUartGhost
=============================================================================
