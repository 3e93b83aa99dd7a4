SPECIFICATION MCSpec
CONSTANTS
  com1 = com1
  com2 = com2
  Uarts = {com1, com2}
  Mouse = com1
  Byte = {byte}
  Enables <- MCEnables
  Latches <- Bit
  UartWrites <- UartProgram
  Sources <- MCSources
  Swizzle <- MCSwizzle
  Gd <- MCGd
  Pirqs <- MCPirqs
  Program <- MCProgram
INVARIANTS
  
  
  UartsAnnounce

  
