SPECIFICATION MCSpec
CONSTANTS
  PageSize = 2
  Pages = 4
  Frames = 3
  TlbSets = 1
  MaxMoves = 3
  Contents <- MCBytes
  Accumulator <- AX
  PortByte <- FromPort
  Programs <- PagedPort
  Gdt <- MCGdt
  Idt <- MCIdt
  Guests <- AllGuests
  Irqs = {32}
  FirstTask = 8
  MaxDepth = 2
  HandlerMayFault = FALSE
INVARIANT
  PortsExact
CHECK_DEADLOCK FALSE
