SPECIFICATION MCSpec
CONSTANTS
  KeyFifo = 4
  MouseLimit = 5
  BatDelay = 0
  Keys = {28}
  Moves <- MCMoves
  MaxEvents = 1
  Commands <- MCCommands
  Data <- MCData
  MaxWrites = 4
INVARIANTS
  InputTypeOK
  NoMotionLost
PROPERTIES
  BytesInOrder
  JobsEnd
  InputArrives
