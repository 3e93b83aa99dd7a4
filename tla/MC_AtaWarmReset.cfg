SPECIFICATION MCSpec
CONSTANTS
  Discs = {1}
  BlockBytes = 2
  Blocks = 2
  FirstDisc = 1
  SectorBytes = 2
  CdbBytes = 2
  LastLba = 4294967
  DiskSectors = 2
  Guests <- MCGuests
PROPERTY FreshAfterWarmReset
