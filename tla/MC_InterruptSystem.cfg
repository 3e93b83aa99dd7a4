SPECIFICATION Spec
CONSTANTS
  DeviceLines <- MCDeviceLines
  Program <- MCProgram
INVARIANTS
  TypeOK
  CascadeExact
PROPERTIES
  RequestKept
  TakenWasWanted
