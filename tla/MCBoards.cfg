CONSTANTS
  LCDWIDTH = 128
  LCDHEIGHT = 64
  Glyphs <- MCGlyphs
  Font <- MCFont
  Temperatures <- MCTemperatures
  PowerOn = 1360
  Scratchpad <- MCScratchpad
  Digits <- MCDigits
  NB_LEDS = 2
  StartClocks <- MCStartClocks
  MaxTicks = 540
  MaxLate = 3
  MaxRests = 1
  QueueSize = 3
  BufferSize = 9
  PtrSize = 3
  Callers = {1, 2}
  Infos <- MCInfos
  Texts <- MCTexts
SPECIFICATION Spec
INVARIANTS
  BoardsTypeOK
  LagsOne
  PublishedRight
  ShowsReading
  ShowsFrame
  SensorsDue
  ReadsBack
PROPERTIES
  Smooth
  LostOnlyToTimers
  ThermometerReads
  ClientTries
  ClientReads
CHECK_DEADLOCK FALSE
