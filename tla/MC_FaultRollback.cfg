SPECIFICATION Spec
CONSTANTS
  DeviceLines <- MCCpuLines
  Program <- MCCpuProgram
INVARIANTS
  FaultLeavesCpuRunning
