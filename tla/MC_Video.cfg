SPECIFICATION MCSpec
CONSTANTS
  VramSize = 128
  WindowTop = 6
  GlyphDots = 2
  LineGraphics <- MCLineGraphics
  Modes <- AllModes
  PageSize = 16
  RefreshPeriod = 4
  NoLine = 2000
  MaxWrites = 2
INVARIANTS
  DrawsExact
  
PROPERTIES
  PictureExact
  PictureComes
CHECK_DEADLOCK FALSE
