SPECIFICATION MCSpec
CONSTANTS
  Boxes = 2
  Ccbs = {1, 2}
  BiosRequests <- MCBios
  Guests <- MCGuests
  Targets <- MCTargets
  Discs <- MCDiscs
  Shift = 0
  MemSize = 6
  BufferBytes = 64
  Images <- MCImages
  FloppyGuests <- MCFloppyGuests
  Spt = 2
  Heads = 2
  Size = 1
INVARIANTS
  StorageTypeOK
  PositionKnown
  PutOffGoesOn
PROPERTIES
  FloppyExact
  RequestsEnd
  ImplementsStore
CHECK_DEADLOCK FALSE
