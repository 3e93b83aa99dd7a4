SPECIFICATION MCSpec
CONSTANTS
  Samples = 12
  Pull = 2
  Fast = 1
  Normal = 2
  Late = 2
INVARIANTS
  InsideBuffers
  NeverAhead
  PlaysExactly
PROPERTIES
  ImplementsFrameQueue
  FramesArrive
  SoundGoesOn
CHECK_DEADLOCK FALSE
